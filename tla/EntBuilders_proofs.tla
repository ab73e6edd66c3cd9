------------------------- MODULE EntBuilders_proofs -------------------------
(***************************************************************************)
(* What a program can rely on when it works with the generated client:     *)
(*   - an update of one row never answers an Old method with what it has   *)
(*     written itself.  The proof does not look into the statements:       *)
(*     whatever a save does to the database, the row it leaves after an    *)
(*     error becomes one of those from before, and after a success nothing *)
(*     is read any more;                                                   *)
(*   - a query that has not been executed yet answers in full;             *)
(*   - only increments get a value past the validators, and builders of    *)
(*     orders leave the items alone.  This proof does look into every      *)
(*     statement: the tables hold valid rows, and so do the mutations.     *)
(***************************************************************************)
EXTENDS EntBuilders, SequenceTheorems, FiniteSetTheorems, WellFoundedInduction, TLAPS

\* What no method of a builder changes.
Kept == {"op", "id", "old", "loaded", "done"}

IsMutation(m) == Kept \subseteq DOMAIN m

Keeps(m, n) == DOMAIN n = DOMAIN m /\ \A f \in Kept : n[f] = m[f]

----------------------------------------------------------------------------
\* The typed methods of an order's mutation collect values and edges only.
LEMMA OrderFieldKeeps ==
    ASSUME NEW m, IsMutation(m), NEW call, call.col \in OrderColumns,
           \/ call.op \in {"set", "reset"}
           \/ call.op = "add" /\ call.col \in OrderAmounts
           \/ call.op = "clear" /\ call.col = "error_message"
    PROVE  Keeps(m, OrderField(m, call))
<1>1. CASE call.col \in {"created_at", "updated_at", "customer_id", "status"}
  BY <1>1 DEF OrderField, OrderScalar, OrderAmounts, Keeps, IsMutation, Kept
<1>2. CASE call.col \in OrderAmounts
  BY <1>2 DEF OrderField, OrderAmount, OrderAmounts, Keeps, IsMutation, Kept
<1>3. CASE call.col \in {"shipping_address", "billing_address"}
  BY <1>3 DEF OrderField, OrderAddress, OrderAmounts, Keeps, IsMutation, Kept
<1>4. CASE call.col = "error_message"
  BY <1>4 DEF OrderField, OrderErrorMessage, OrderAmounts, Keeps, IsMutation, Kept
<1> QED
  BY <1>1, <1>2, <1>3, <1>4 DEF OrderColumns, OrderAmounts

\* The edge of an order to its items is no field of Kept.
LEMMA OrderItemsKeeps ==
    ASSUME NEW m, IsMutation(m), NEW call, call.op \in {"add", "remove", "clear", "reset"}
    PROVE  Keeps(m, OrderItems(m, call))
BY DEF OrderItems, Keeps, IsMutation, Kept

\* The same for an item's mutation.
LEMMA ItemFieldKeeps ==
    ASSUME NEW m, IsMutation(m), NEW call, call.col \in ItemColumns,
           \/ call.op \in {"set", "reset"}
           \/ call.op = "add" /\ call.col \in ItemNumbers
           \/ call.op = "clear" /\ call.col \in ItemTexts
    PROVE  Keeps(m, ItemField(m, call))
<1>1. CASE call.col \in ItemColumns \ (ItemNumbers \cup ItemTexts)
  BY <1>1 DEF ItemField, ItemScalar, ItemTexts, ItemNumbers, Keeps, IsMutation, Kept
<1>2. CASE call.col \in ItemTexts
  BY <1>2 DEF ItemField, ItemText, ItemImageURL, ItemTexts, ItemNumbers, Keeps, IsMutation, Kept
<1>3. CASE call.col \in ItemNumbers
  BY <1>3 DEF ItemField, ItemNumber, ItemTexts, ItemNumbers, Keeps, IsMutation, Kept
<1> QED
  BY <1>1, <1>2, <1>3

\* The edge of an item to its order is no field of Kept.
LEMMA ItemOrderKeeps ==
    ASSUME NEW m, IsMutation(m), NEW call, call.op \in {"set", "clear", "reset"}
    PROVE  Keeps(m, ItemOrder(m, call))
BY DEF ItemOrder, Keeps, IsMutation, Kept

\* The same for an outbox event's mutation.
LEMMA EventFieldKeeps ==
    ASSUME NEW m, IsMutation(m), NEW call, call.op \in {"set", "reset"}
    PROVE  Keeps(m, EventField(m, call))
BY DEF EventField, EventHeader, EventBody, Keeps, IsMutation, Kept

----------------------------------------------------------------------------
\* A method of an update builder keeps the row, the old row and whether the
\* mutation was executed.
LEMMA OrderSetterKeeps ==
    ASSUME NEW m, IsMutation(m), NEW call, OrderUpdateMethod(call)
    PROVE  Keeps(m, OrderUpdateOneSetter(m, call))
<1> USE DEF OrderUpdateOneSetter
<1>1. CASE call.op = "set" /\ call.val = Nil
  BY <1>1 DEF OrderUpdateSetter, Keeps, OrderUpdateMethod, OrderColumns
<1>2. CASE call.op = "set" /\ call.val # Nil
  <2> DEFINE old == IF call.col \in OrderAmounts
                    THEN OrderAmount(m, [call EXCEPT !.op = "reset"]) ELSE m
  <2>1. Keeps(m, old)
    BY DEF OrderAmount, Keeps, IsMutation, Kept
  <2>2. OrderUpdateOneSetter(m, call) = OrderField(old, call)
    BY <1>2 DEF OrderUpdateSetter, OrderUpdateMethod, OrderColumns
  <2>3. Keeps(old, OrderField(old, call))
    BY <1>2, <2>1, OrderFieldKeeps DEF Keeps, IsMutation, OrderUpdateMethod
  <2> QED
    BY <2>1, <2>2, <2>3 DEF Keeps
<1>3. CASE call.op = "where" /\ call.col = ""
  BY <1>3 DEF OrderUpdateSetter, Keeps, IsMutation, Kept
<1>4. CASE call.op \in {"add", "remove", "clear"} /\ call.col = "items"
  BY <1>4, OrderItemsKeeps DEF OrderUpdateSetter
<1>5. CASE /\ call.op \in {"add", "clear"} /\ call.col # "items"
           /\ call.op = "add" => call.col \in OrderAmounts
           /\ call.op = "clear" => call.col = "error_message"
  <2>1. call.col \in OrderColumns
    BY <1>5 DEF OrderColumns, OrderAmounts
  <2> QED
    BY <1>5, <2>1, OrderFieldKeeps DEF OrderUpdateSetter
<1> QED
  BY <1>1, <1>2, <1>3, <1>4, <1>5 DEF OrderUpdateMethod, OrderAmounts

\* The same for an item's update.
LEMMA ItemSetterKeeps ==
    ASSUME NEW m, IsMutation(m), NEW call, ItemUpdateMethod(call)
    PROVE  Keeps(m, ItemUpdateOneSetter(m, call))
<1> USE DEF ItemUpdateOneSetter
<1>1. CASE call.op = "set" /\ call.val = Nil
  BY <1>1 DEF ItemUpdateSetter, Keeps, ItemUpdateMethod
<1>2. CASE call.op = "set" /\ call.val # Nil /\ call.col # "order"
  <2> DEFINE old == IF call.col \in ItemNumbers
                    THEN ItemNumber(m, [call EXCEPT !.op = "reset"]) ELSE m
  <2>1. Keeps(m, old)
    BY DEF ItemNumber, Keeps, IsMutation, Kept
  <2>2. ItemUpdateOneSetter(m, call) = ItemField(old, call)
    BY <1>2 DEF ItemUpdateSetter, ItemUpdateMethod
  <2>3. Keeps(old, ItemField(old, call))
    BY <1>2, <2>1, ItemFieldKeeps DEF Keeps, IsMutation, ItemUpdateMethod
  <2> QED
    BY <2>1, <2>2, <2>3 DEF Keeps
<1>3. CASE call.op = "where" /\ call.col = ""
  BY <1>3 DEF ItemUpdateSetter, Keeps, IsMutation, Kept
<1>4. CASE call.op \in {"set", "clear"} /\ call.col = "order" /\ call.val # Nil
  BY <1>4, ItemOrderKeeps DEF ItemUpdateSetter
<1>5. CASE /\ call.op \in {"add", "clear"} /\ call.col # "order"
           /\ call.op = "add" => call.col \in ItemNumbers
           /\ call.op = "clear" => call.col \in ItemTexts
  <2>1. call.col \in ItemColumns
    BY <1>5 DEF ItemColumns, ItemNumbers, ItemTexts
  <2> QED
    BY <1>5, <2>1, ItemFieldKeeps DEF ItemUpdateSetter
<1> QED
  BY <1>1, <1>2, <1>3, <1>4, <1>5 DEF ItemUpdateMethod, ItemColumns, ItemNumbers, ItemTexts

\* The same for an event's update.
LEMMA EventSetterKeeps ==
    ASSUME NEW m, IsMutation(m), NEW call, EventUpdateMethod(call)
    PROVE  Keeps(m, EventUpdateOneSetter(m, call))
<1> USE DEF EventUpdateOneSetter
<1>1. CASE call.op = "set" /\ call.val = Nil
  BY <1>1 DEF EventUpdateSetter, Keeps
<1>2. CASE call.op = "set" /\ call.val # Nil
  BY <1>2, EventFieldKeeps DEF EventUpdateSetter
<1>3. CASE call.op = "where" /\ call.col = ""
  BY <1>3 DEF EventUpdateSetter, Keeps, IsMutation, Kept
<1> QED
  BY <1>1, <1>2, <1>3 DEF EventUpdateMethod

\* A method that takes the column by name answers with an error or keeps them.
LEMMA NamedKeeps ==
    ASSUME NEW ent \in Entities, NEW m, IsMutation(m), NEW call, NamedMethod(call)
    PROVE  Named(ent, m, call) = Nil \/ Keeps(m, Named(ent, m, call))
<1>1. CASE ent = "order"
  <2>1. call.col = "items" => OrderEdge(m, call) = Nil \/ Keeps(m, OrderEdge(m, call))
    BY OrderItemsKeeps DEF OrderEdge
  <2>2. call.op = "set" => OrderSetField(m, call) = Nil \/ Keeps(m, OrderSetField(m, call))
    BY OrderFieldKeeps DEF OrderSetField
  <2>3. call.op = "add" => OrderAddField(m, call) = Nil \/ Keeps(m, OrderAddField(m, call))
    BY DEF OrderAddField, OrderAmount, Keeps, IsMutation, Kept
  <2>4. call.op = "clear" => OrderClearField(m, call) = Nil \/ Keeps(m, OrderClearField(m, call))
    BY DEF OrderClearField, OrderErrorMessage, Keeps, IsMutation, Kept
  <2>5. call.op = "reset" => OrderResetField(m, call) = Nil \/ Keeps(m, OrderResetField(m, call))
    BY OrderFieldKeeps DEF OrderResetField
  <2> QED
    BY <1>1, <2>1, <2>2, <2>3, <2>4, <2>5 DEF Named, NamedOrder, NamedMethod
<1>2. CASE ent = "item"
  <2>1. call.col = "order" => ItemEdge(m, call) = Nil \/ Keeps(m, ItemEdge(m, call))
    BY ItemOrderKeeps DEF ItemEdge
  <2>2. call.op = "set" => ItemSetField(m, call) = Nil \/ Keeps(m, ItemSetField(m, call))
    BY ItemFieldKeeps DEF ItemSetField
  <2>3. call.op = "add" => ItemAddField(m, call) = Nil \/ Keeps(m, ItemAddField(m, call))
    BY DEF ItemAddField, ItemNumber, Keeps, IsMutation, Kept
  <2>4. call.op = "clear" => ItemClearField(m, call) = Nil \/ Keeps(m, ItemClearField(m, call))
    BY ItemFieldKeeps DEF ItemClearField, ItemColumns, ItemTexts
  <2>5. call.op = "reset" => ItemResetField(m, call) = Nil \/ Keeps(m, ItemResetField(m, call))
    BY ItemFieldKeeps DEF ItemResetField
  <2> QED
    BY <1>2, <2>1, <2>2, <2>3, <2>4, <2>5 DEF Named, NamedItem, NamedMethod
<1>3. CASE ent = "event"
  <2>1. call.op = "set" => EventSetField(m, call) = Nil \/ Keeps(m, EventSetField(m, call))
    BY EventFieldKeeps DEF EventSetField
  <2>2. call.op = "reset" => EventResetField(m, call) = Nil \/ Keeps(m, EventResetField(m, call))
    BY EventFieldKeeps DEF EventResetField
  <2> QED
    BY <1>3, <2>1, <2>2 DEF Named, NamedEvent, NamedMethod, EventEdge, EventAddOrClearField
<1> QED
  BY <1>1, <1>2, <1>3 DEF Entities, TableOf

\* Defaults set a column and nothing else.
LEMMA DefaultsKeep ==
    ASSUME NEW ent \in Entities, NEW m, IsMutation(m), NEW id
    PROVE  Keeps(m, Defaults(ent, "updateOne", m, id))
BY DEF Defaults, OrderUpdateDefaults, ItemUpdateDefaults, EventUpdateDefaults, Keeps, IsMutation,
       Kept, Entities, TableOf

\* A list of one element.
LEMMA Single ==
    ASSUME NEW x, NEW s \in [1..1 -> {x}]
    PROVE  Len(s) = 1 /\ DOMAIN s = 1..1 /\ s[1] = x
<1>1. s \in Seq({x})
  BY SeqDef
<1>2. Len(s) \in Nat /\ DOMAIN s = 1..Len(s)
  BY <1>1, LenProperties
<1>3. 1 \in 1..Len(s) /\ (Len(s) > 1 => 2 \in 1..Len(s)) /\ 2 \notin 1..1
  BY <1>2
<1> QED
  BY <1>2, <1>3

----------------------------------------------------------------------------
(***************************************************************************)
(* The invariant.  The rows a builder may answer with are collected in     *)
(* before: the row it was opened on, and what its failed executions left.  *)
(***************************************************************************)
BuilderFields == {"ent", "kind", "ms", "before"}

Shaped ==
    /\ {"open", "db", "aborted"} \subseteq DOMAIN tx
    /\ b # NoBuilder => BuilderFields \subseteq DOMAIN b

\* The row at hand, and until the builder has succeeded the row in the table
\* too, is one from before.
KnowsOld(builder, table) ==
    /\ builder.ent \in Entities
    /\ builder.ms \in [1..1 -> {builder.ms[1]}]
    /\ IsMutation(builder.ms[1]) /\ builder.ms[1].done \in BOOLEAN
    /\ builder.ms[1].old # Nil => builder.ms[1].old \in builder.before
    /\ ~builder.ms[1].done => table[builder.ms[1].id] \in builder.before

UpdateKnowsOld == b # NoBuilder /\ b.kind = "updateOne" => KnowsOld(b, Table)

\* Old values are answered to updates of one row only.
OldOfUpdates == answer # Nil /\ answer.how = "old" => b.kind = "updateOne"

OldInvariant == Shaped /\ UpdateKnowsOld /\ OldOfUpdates /\ OldIsBefore

----------------------------------------------------------------------------
\* Nothing is answered and no builder is open at first.
LEMMA OldInvariantInit == Init => OldInvariant
BY DEF Init, NoTx, OldInvariant, Shaped, UpdateKnowsOld, OldOfUpdates, OldIsBefore

\* A step that answers nothing need only keep what the builder knows.
LEMMA NothingAnswered ==
    ASSUME answer' = Nil
    PROVE  OldOfUpdates' /\ OldIsBefore'
BY DEF OldOfUpdates, OldIsBefore

\* Transactions begin and end while no builder is open.
LEMMA TransactionStep ==
    ASSUME OldInvariant, Begin \/ Commit \/ Rollback
    PROVE  OldInvariant'
<1>1. b = NoBuilder /\ b' = b /\ answer' = answer /\ {"open", "db", "aborted"} \subseteq DOMAIN tx'
  BY DEF Begin, Commit, Rollback, NoTx
<1> QED
  BY <1>1 DEF OldInvariant, Shaped, UpdateKnowsOld, OldOfUpdates, OldIsBefore

\* A builder that is opened on a row knows that row.
LEMMA OpenStep ==
    ASSUME OldInvariant, NEW builder, Open(builder), BuilderFields \subseteq DOMAIN builder,
           builder.kind = "updateOne" => KnowsOld(builder, View[TableOf[builder.ent]])
    PROVE  OldInvariant'
<1>1. b' = builder /\ tx' = tx /\ View' = View /\ answer' = Nil
  BY DEF Open, View
<1>2. Shaped'
  BY <1>1 DEF OldInvariant, Shaped
<1>3. UpdateKnowsOld'
  BY <1>1 DEF UpdateKnowsOld, KnowsOld, Table, IsMutation
<1> QED
  BY <1>1, <1>2, <1>3, NothingAnswered DEF OldInvariant

\* The shape of a builder that is not an update of one row.
LEMMA OtherBuilder ==
    ASSUME NEW ent, NEW kind, NEW m
    PROVE  BuilderFields \subseteq DOMAIN Builder(ent, kind, m) /\ Builder(ent, kind, m).kind = kind
BY DEF Builder, BuilderFields

\* Setting the required columns leaves the shape and the kind.
LEMMA PreparedBuilder ==
    ASSUME NEW builder, BuilderFields \subseteq DOMAIN builder, NEW calls
    PROVE  /\ BuilderFields \subseteq DOMAIN Prepared(builder, calls)
           /\ Prepared(builder, calls).kind = builder.kind
BY DEF Prepared, BuilderFields

\* An update of one row is opened with the row as it stands.
LEMMA OpenedOnRow ==
    ASSUME NEW ent \in Entities, NEW m, IsMutation(m), m.done = FALSE,
           m.old \in {Nil, View[TableOf[ent]][m.id]}
    PROVE  LET builder == [Builder(ent, "updateOne", m)
                              EXCEPT !.before = {View[TableOf[ent]][m.id]}]
           IN  /\ BuilderFields \subseteq DOMAIN builder
               /\ KnowsOld(builder, View[TableOf[builder.ent]])
<1> DEFINE builder == [Builder(ent, "updateOne", m) EXCEPT !.before = {View[TableOf[ent]][m.id]}]
<1>1. /\ BuilderFields \subseteq DOMAIN builder
      /\ builder.ent = ent /\ builder.ms = <<m>> /\ builder.before = {View[TableOf[ent]][m.id]}
  BY DEF Builder, BuilderFields
<1>2. builder.ms[1] = m /\ builder.ms \in [1..1 -> {m}]
  BY <1>1
<1> HIDE DEF builder
<1>3. KnowsOld(builder, View[TableOf[builder.ent]])
  BY <1>1, <1>2 DEF KnowsOld
<1> QED
  BY <1>1, <1>3 DEF builder

\* A creation is not an update.
LEMMA OpenCreationStep ==
    ASSUME OldInvariant, NEW ent, NEW kind \in {"create", "bulk"}, OpenCreation(ent, kind)
    PROVE  OldInvariant'
<1> DEFINE new == Builder(ent, kind, NewOf(ent, kind, Nil))
<1>1. BuilderFields \subseteq DOMAIN new /\ new.kind = kind
  BY OtherBuilder
<1>2. PICK calls : Open(Prepared(new, calls))
  BY DEF OpenCreation
<1> HIDE DEF new
<1>3. BuilderFields \subseteq DOMAIN Prepared(new, calls) /\ Prepared(new, calls).kind # "updateOne"
  BY <1>1, PreparedBuilder
<1> QED
  BY <1>2, <1>3, OpenStep

\* Opening a builder of an order.
LEMMA OpenOrderStep ==
    ASSUME OldInvariant, NEW kind, OpenOrder(kind)
    PROVE  OldInvariant'
<1>1. CASE kind \in {"create", "bulk"} /\ OpenCreation("order", kind)
  BY <1>1, OpenCreationStep
<1>2. ASSUME NEW m, kind # "updateOne", Open(Builder("order", kind, m))
      PROVE  OldInvariant'
  BY <1>2, OtherBuilder, OpenStep
<1>3. ASSUME NEW id, NEW m, m = NewOrderMutation("updateOne", id),
             Open([Builder("order", "updateOne", m) EXCEPT !.before = {View.orders[id]}])
      PROVE  OldInvariant'
  <2>1. IsMutation(m) /\ m.id = id /\ m.done = FALSE /\ m.old = Nil
    BY <1>3 DEF NewOrderMutation, NewMutation, IsMutation, Kept
  <2>2. "order" \in Entities /\ View[TableOf["order"]] = View.orders
    BY DEF Entities, TableOf
  <2> QED
    BY <1>3, <2>1, <2>2, OpenedOnRow, OpenStep
<1>4. ASSUME NEW id, NEW m, m = [NewOrderMutation("updateOne", id)
                                    EXCEPT !.loaded = TRUE, !.old = View.orders[id]],
             Open([Builder("order", "updateOne", m) EXCEPT !.before = {View.orders[id]}])
      PROVE  OldInvariant'
  <2>1. IsMutation(m) /\ m.id = id /\ m.done = FALSE /\ m.old = View.orders[id]
    BY <1>4 DEF NewOrderMutation, NewMutation, IsMutation, Kept
  <2>2. "order" \in Entities /\ View[TableOf["order"]] = View.orders
    BY DEF Entities, TableOf
  <2> QED
    BY <1>4, <2>1, <2>2, OpenedOnRow, OpenStep
<1> QED
  BY <1>1, <1>2, <1>3, <1>4 DEF OpenOrder

\* Opening a builder of an item.
LEMMA OpenItemStep ==
    ASSUME OldInvariant, NEW kind, OpenItem(kind)
    PROVE  OldInvariant'
<1>1. CASE kind \in {"create", "bulk"} /\ OpenCreation("item", kind)
  BY <1>1, OpenCreationStep
<1>2. ASSUME NEW m, kind # "updateOne", Open(Builder("item", kind, m))
      PROVE  OldInvariant'
  BY <1>2, OtherBuilder, OpenStep
<1>3. ASSUME NEW id, NEW m, m = NewItemMutation("updateOne", id),
             Open([Builder("item", "updateOne", m) EXCEPT !.before = {View.order_items[id]}])
      PROVE  OldInvariant'
  <2>1. IsMutation(m) /\ m.id = id /\ m.done = FALSE /\ m.old = Nil
    BY <1>3 DEF NewItemMutation, NewMutation, IsMutation, Kept
  <2>2. "item" \in Entities /\ View[TableOf["item"]] = View.order_items
    BY DEF Entities, TableOf
  <2> QED
    BY <1>3, <2>1, <2>2, OpenedOnRow, OpenStep
<1> QED
  BY <1>1, <1>2, <1>3 DEF OpenItem

\* Opening a builder of an outbox event.
LEMMA OpenEventStep ==
    ASSUME OldInvariant, NEW kind, OpenEvent(kind)
    PROVE  OldInvariant'
<1>1. CASE kind \in {"create", "bulk"} /\ OpenCreation("event", kind)
  BY <1>1, OpenCreationStep
<1>2. ASSUME NEW m, kind # "updateOne", Open(Builder("event", kind, m))
      PROVE  OldInvariant'
  BY <1>2, OtherBuilder, OpenStep
<1>3. ASSUME NEW id, NEW m, m = NewEventMutation("updateOne", id),
             Open([Builder("event", "updateOne", m) EXCEPT !.before = {View.outbox_events[id]}])
      PROVE  OldInvariant'
  <2>1. IsMutation(m) /\ m.id = id /\ m.done = FALSE /\ m.old = Nil
    BY <1>3 DEF NewEventMutation, NewMutation, IsMutation, Kept
  <2>2. "event" \in Entities /\ View[TableOf["event"]] = View.outbox_events
    BY DEF Entities, TableOf
  <2> QED
    BY <1>3, <2>1, <2>2, OpenedOnRow, OpenStep
<1> QED
  BY <1>1, <1>2, <1>3 DEF OpenEvent

\* Opening a query.
LEMMA OpenQueryStep ==
    ASSUME OldInvariant, NEW ent, OpenQuery(ent)
    PROVE  OldInvariant'
<1> DEFINE builder == [Builder(ent, "query", NewOf(ent, "query", Nil)) EXCEPT !.ms = <<>>]
<1>1. BuilderFields \subseteq DOMAIN builder /\ builder.kind # "updateOne" /\ Open(builder)
  BY DEF Builder, BuilderFields, OpenQuery
<1> HIDE DEF builder
<1> QED
  BY <1>1, OpenStep

----------------------------------------------------------------------------
\* A step of another builder.
LEMMA OtherStep ==
    ASSUME OldInvariant, b # NoBuilder, b.kind # "updateOne",
           DOMAIN b' = DOMAIN b, b'.kind = b.kind, DOMAIN tx' = DOMAIN tx,
           answer' = answer \/ answer' = Nil \/ answer'.how # "old"
    PROVE  OldInvariant'
<1>1. Shaped' /\ UpdateKnowsOld'
  BY DEF OldInvariant, Shaped, UpdateKnowsOld
<1>2. answer = Nil \/ answer.how # "old"
  BY DEF OldInvariant, OldOfUpdates
<1>3. OldOfUpdates' /\ OldIsBefore'
  BY <1>2 DEF OldOfUpdates, OldIsBefore
<1> QED
  BY <1>1, <1>3 DEF OldInvariant

\* A method call leaves what an update knows of its row.
LEMMA CalledStep ==
    ASSUME OldInvariant, b # NoBuilder, NEW m, NEW call, Called(m, call),
           b.kind = "updateOne" => Keeps(b.ms[1], m)
    PROVE  OldInvariant'
<1>1. /\ BuilderFields \subseteq DOMAIN b /\ DOMAIN b' = DOMAIN b
      /\ b'.ent = b.ent /\ b'.kind = b.kind /\ b'.before = b.before
      /\ b'.ms = [b.ms EXCEPT ![Len(b.ms)] = m]
  BY DEF OldInvariant, Shaped, BuilderFields, Called
<1>2. answer' = Nil /\ UNCHANGED <<db, tx>>
  BY DEF Called
<1>3. CASE b.kind # "updateOne"
  BY <1>1, <1>2, <1>3, OtherStep
<1>4. CASE b.kind = "updateOne"
  <2>1. KnowsOld(b, Table) /\ Shaped
    BY <1>4 DEF OldInvariant, UpdateKnowsOld
  <2>2. Len(b.ms) = 1 /\ DOMAIN b.ms = 1..1
    BY <2>1, Single DEF KnowsOld
  <2>3. b'.ms[1] = m /\ b'.ms \in [1..1 -> {b'.ms[1]}]
    BY <1>1, <2>1, <2>2 DEF KnowsOld
  <2>4. /\ IsMutation(m) /\ m.id = b.ms[1].id /\ m.old = b.ms[1].old
        /\ m.done = b.ms[1].done
    BY <1>4, <2>1 DEF KnowsOld, Keeps, IsMutation, Kept
  <2>5. Table' = Table
    BY <1>1, <1>2 DEF Table, View
  <2>6. KnowsOld(b', Table')
    BY <1>1, <2>1, <2>3, <2>4, <2>5 DEF KnowsOld
  <2>7. UpdateKnowsOld' /\ Shaped'
    BY <1>1, <1>2, <2>1, <2>6 DEF UpdateKnowsOld, Shaped, KnowsOld, IsMutation
  <2> QED
    BY <1>2, <2>7, NothingAnswered DEF OldInvariant
<1> QED
  BY <1>3, <1>4

\* Calls of the builder's own methods.
LEMMA CallSetterStep ==
    ASSUME OldInvariant, CallSetter
    PROVE  OldInvariant'
<1>1. b # NoBuilder
  BY DEF CallSetter, MayCall
<1>2. PICK k \in DOMAIN SetterCalls[b.ent][b.kind] :
          LET call == SetterCalls[b.ent][b.kind][k]
          IN  Called(Setter(b.ent, b.kind, b.ms[Len(b.ms)], call), call)
  BY DEF CallSetter
<1> DEFINE call == SetterCalls[b.ent][b.kind][k]
           n    == Setter(b.ent, b.kind, b.ms[Len(b.ms)], call)
<1>3. ASSUME b.kind = "updateOne"
      PROVE  Keeps(b.ms[1], n)
  <2>1. /\ b.ent \in Entities /\ IsMutation(b.ms[1]) /\ Len(b.ms) = 1
    BY <1>1, <1>3, Single DEF OldInvariant, UpdateKnowsOld, KnowsOld
  <2>2. CASE b.ent = "order"
    <3>1. OrderUpdateMethod(call)
      BY <1>2, <1>3, <2>2, BuildersAssumption
    <3>2. n = OrderUpdateOneSetter(b.ms[1], call)
      BY <1>3, <2>1, <2>2 DEF Setter
    <3> QED
      BY <2>1, <3>1, <3>2, OrderSetterKeeps
  <2>3. CASE b.ent = "item"
    <3>1. ItemUpdateMethod(call)
      BY <1>2, <1>3, <2>3, BuildersAssumption
    <3>2. n = ItemUpdateOneSetter(b.ms[1], call)
      BY <1>3, <2>1, <2>3 DEF Setter
    <3> QED
      BY <2>1, <3>1, <3>2, ItemSetterKeeps
  <2>4. CASE b.ent = "event"
    <3>1. EventUpdateMethod(call)
      BY <1>2, <1>3, <2>4, BuildersAssumption
    <3>2. n = EventUpdateOneSetter(b.ms[1], call)
      BY <1>3, <2>1, <2>4 DEF Setter
    <3> QED
      BY <2>1, <3>1, <3>2, EventSetterKeeps
  <2> QED
    BY <2>1, <2>2, <2>3, <2>4 DEF Entities, TableOf
<1>4. Called(n, call)
  BY <1>2
<1> HIDE DEF n, call
<1> QED
  BY <1>1, <1>3, <1>4, CalledStep

\* Calls by column name, those that answer with an error included.
LEMMA CallNamedStep ==
    ASSUME OldInvariant, CallNamed
    PROVE  OldInvariant'
<1>1. b # NoBuilder
  BY DEF CallNamed, MayCall
<1>2. PICK k \in DOMAIN NamedCalls[b.ent] :
          LET call == NamedCalls[b.ent][k]
              m    == Named(b.ent, b.ms[Len(b.ms)], call)
          IN  Called(IF m = Nil THEN b.ms[Len(b.ms)] ELSE m, call)
  BY DEF CallNamed
<1> DEFINE call == NamedCalls[b.ent][k]
           m    == Named(b.ent, b.ms[Len(b.ms)], call)
           n    == IF m = Nil THEN b.ms[Len(b.ms)] ELSE m
<1>3. ASSUME b.kind = "updateOne"
      PROVE  Keeps(b.ms[1], n)
  <2>1. /\ b.ent \in Entities /\ IsMutation(b.ms[1]) /\ Len(b.ms) = 1
    BY <1>1, <1>3, Single DEF OldInvariant, UpdateKnowsOld, KnowsOld
  <2>2. NamedMethod(call)
    BY <2>1, BuildersAssumption DEF Entities, TableOf
  <2> HIDE DEF call
  <2>3. m = Nil \/ Keeps(b.ms[1], m)
    BY <2>1, <2>2, NamedKeeps
  <2> QED
    BY <2>1, <2>3 DEF Keeps
<1>4. Called(n, call)
  BY <1>2
<1> HIDE DEF n, call
<1> QED
  BY <1>1, <1>3, <1>4, CalledStep

\* A second builder of a CreateBulk.
LEMMA MoreBulkStep ==
    ASSUME OldInvariant, MoreBulk
    PROVE  OldInvariant'
<1>1. BuilderFields \subseteq DOMAIN b
  BY DEF OldInvariant, Shaped, MoreBulk
<1>2. /\ b # NoBuilder /\ b.kind # "updateOne" /\ DOMAIN b' = DOMAIN b /\ b'.kind = b.kind
      /\ tx' = tx /\ answer' = answer
  BY <1>1 DEF MoreBulk, BuilderFields
<1> QED
  BY <1>2, OtherStep

\* What an execution does to an update of one row and to the database it sees.
LEMMA ExecEffect ==
    ASSUME OldInvariant, b # NoBuilder, b.kind = "updateOne", NEW ids, Exec(ids)
    PROVE  /\ DOMAIN b' = DOMAIN b /\ b'.ent = b.ent /\ b'.kind = b.kind
           /\ b'.ms \in [1..1 -> {b'.ms[1]}] /\ IsMutation(b'.ms[1])
           /\ b'.ms[1].id = b.ms[1].id /\ b'.ms[1].old = b.ms[1].old
           /\ b'.ms[1].done \in BOOLEAN /\ b.before \subseteq b'.before
           /\ ~b'.ms[1].done => /\ ~b.ms[1].done
                                /\ Table'[b.ms[1].id] \in b'.before \/ View' = View
<1> DEFINE ms  == [k \in DOMAIN b.ms |-> Defaults(b.ent, b.kind, b.ms[k], ids[k])]
           out == Answered(ExecOf(b.ent, b.kind, ms))
           ok  == out.err = "none"
           now == [k \in DOMAIN ms |-> [ms[k] EXCEPT !.done = @ \/ ok \/ b.kind = "deleteOne"]]
<1>1. KnowsOld(b, Table) /\ Shaped /\ BuilderFields \subseteq DOMAIN b
  BY DEF OldInvariant, UpdateKnowsOld, Shaped
<1>2. Len(b.ms) = 1 /\ DOMAIN b.ms = 1..1 /\ b.ent \in Entities
  BY <1>1, Single DEF KnowsOld
<1>3. /\ DOMAIN b' = DOMAIN b /\ b'.ent = b.ent /\ b'.kind = b.kind /\ b'.ms = now
      /\ b'.before = IF b.before = {} \/ ok \/ b.ms[1].done THEN b.before
                     ELSE b.before \cup {out.db[TableOf[b.ent]][b.ms[1].id]}
  BY <1>1 DEF Exec, BuilderFields
<1>4. /\ tx.open => tx' = [tx EXCEPT !.db = out.db, !.aborted = @ \/ out.err = "sql"]
      /\ ~tx.open => tx' = tx /\ db' = IF ok THEN out.db ELSE db
  BY DEF Exec
<1>5. IsMutation(b.ms[1]) /\ Keeps(b.ms[1], ms[1]) /\ DOMAIN ms = 1..1
  <2>1. ms[1] = Defaults(b.ent, "updateOne", b.ms[1], ids[1]) /\ DOMAIN ms = 1..1
    BY <1>2
  <2> HIDE DEF ms
  <2> QED
    BY <1>1, <1>2, <2>1, DefaultsKeep DEF KnowsOld
<1> HIDE DEF ms, out
<1>6. now[1] = [ms[1] EXCEPT !.done = @ \/ ok \/ b.kind = "deleteOne"] /\ DOMAIN now = 1..1
  BY <1>5
<1>7. /\ IsMutation(now[1]) /\ now[1].id = b.ms[1].id /\ now[1].old = b.ms[1].old
      /\ now[1].done = (b.ms[1].done \/ ok)
  BY <1>5, <1>6 DEF Keeps, IsMutation, Kept
<1>8. b'.ms \in [1..1 -> {b'.ms[1]}]
  BY <1>3, <1>5
<1> HIDE DEF now
<1>9. ASSUME ~b'.ms[1].done
      PROVE  ~b.ms[1].done /\ (Table'[b.ms[1].id] \in b'.before \/ View' = View)
  <2>1. ~b.ms[1].done /\ ~ok
    BY <1>3, <1>7, <1>9
  <2>2. b.before # {}
    BY <1>1, <2>1 DEF KnowsOld
  <2>3. out.db[TableOf[b.ent]][b.ms[1].id] \in b'.before
    BY <1>3, <2>1, <2>2
  <2>4. CASE tx.open
    <3>1. tx'.open /\ tx'.db = out.db
      BY <1>1, <1>4, <2>4 DEF Shaped
    <3> QED
      BY <1>3, <2>1, <2>3, <3>1 DEF Table, View
  <2>5. CASE ~tx.open
    BY <1>4, <2>1, <2>5 DEF View
  <2> QED
    BY <2>1, <2>4, <2>5
<1> QED
  BY <1>3, <1>7, <1>8, <1>9

\* An execution, of whatever builder.
LEMMA SaveStep ==
    ASSUME OldInvariant, Save
    PROVE  OldInvariant'
<1>1. b # NoBuilder /\ Shaped /\ BuilderFields \subseteq DOMAIN b
  BY DEF OldInvariant, Shaped, Save
<1>2. PICK ids : Exec(ids)
  BY DEF Save
<1>3. answer' = Nil /\ DOMAIN b' = DOMAIN b /\ b'.kind = b.kind /\ DOMAIN tx' = DOMAIN tx
  BY <1>1, <1>2 DEF Exec, BuilderFields
<1>4. CASE b.kind # "updateOne"
  BY <1>1, <1>3, <1>4, OtherStep
<1>5. CASE b.kind = "updateOne"
  <2>1. KnowsOld(b, Table)
    BY <1>1, <1>5 DEF OldInvariant, UpdateKnowsOld
  <2>2. /\ b'.ent = b.ent
        /\ b'.ms \in [1..1 -> {b'.ms[1]}] /\ IsMutation(b'.ms[1])
        /\ b'.ms[1].id = b.ms[1].id /\ b'.ms[1].old = b.ms[1].old
        /\ b'.ms[1].done \in BOOLEAN /\ b.before \subseteq b'.before
        /\ ~b'.ms[1].done => /\ ~b.ms[1].done
                             /\ Table'[b.ms[1].id] \in b'.before \/ View' = View
    BY <1>1, <1>2, <1>5, ExecEffect
  <2>3. ~b'.ms[1].done => Table'[b'.ms[1].id] \in b'.before
    BY <2>1, <2>2 DEF KnowsOld, Table
  <2>4. KnowsOld(b', Table')
    BY <2>1, <2>2, <2>3 DEF KnowsOld
  <2>5. UpdateKnowsOld' /\ Shaped'
    BY <1>1, <1>3, <2>4 DEF UpdateKnowsOld, Shaped, KnowsOld, IsMutation
  <2> QED
    BY <1>3, <2>5, NothingAnswered DEF OldInvariant
<1> QED
  BY <1>4, <1>5

\* The mutation after an Old method, and what the method answers.
OldAsked(ent, m) ==
    CASE ent = "order" -> OrderOld(View, m)
      [] ent = "item"  -> ItemOld(View, m)
      [] ent = "event" -> EventOld(View, m)

OldAnswered(ent, m, c) ==
    CASE ent = "order" -> OrderOldField(View, m, c)
      [] ent = "item"  -> ItemOldField(View, m, c)
      [] ent = "event" -> EventOldField(View, m, c)

\* The row is read at most once, and not after the mutation was executed.
ReadOnce(m, table) ==
    IF m.loaded THEN m
    ELSE [m EXCEPT !.loaded = TRUE,
                   !.old = IF m.done \/ m.id = Nil THEN Nil ELSE table[m.id]]

\* Reading the row once changes nothing the builder was told.
LEMMA ReadOnceKeeps ==
    ASSUME NEW m, IsMutation(m), m.done \in BOOLEAN, NEW table
    PROVE  /\ IsMutation(ReadOnce(m, table))
           /\ ReadOnce(m, table).id = m.id /\ ReadOnce(m, table).done = m.done
           /\ \/ ReadOnce(m, table).old \in {m.old, Nil}
              \/ ~m.done /\ ReadOnce(m, table).old = table[m.id]
<1> DEFINE row == IF m.done \/ m.id = Nil THEN Nil ELSE table[m.id]
<1>1. row = Nil \/ (~m.done /\ row = table[m.id])
  <2>1. CASE m.done \/ m.id = Nil
    BY <2>1
  <2>2. CASE ~(m.done \/ m.id = Nil)
    BY <2>2
  <2> QED
    BY <2>1, <2>2
<1> HIDE DEF row
<1>2. CASE m.loaded
  BY <1>2 DEF ReadOnce
<1>3. CASE ~m.loaded
  <2>1. ReadOnce(m, table) = [m EXCEPT !.loaded = TRUE, !.old = row]
    BY <1>3 DEF ReadOnce, row
  <2>2. /\ DOMAIN ReadOnce(m, table) = DOMAIN m
        /\ ReadOnce(m, table).id = m.id /\ ReadOnce(m, table).done = m.done
        /\ ReadOnce(m, table).old = row
    BY <2>1 DEF IsMutation, Kept
  <2> QED
    BY <1>1, <2>2 DEF IsMutation
<1> QED
  BY <1>2, <1>3

\* The Old methods of the three clients read the row once.
LEMMA OldIsRead ==
    ASSUME NEW ent \in Entities, NEW m, IsMutation(m)
    PROVE  /\ OldAsked(ent, m) = ReadOnce(m, View[TableOf[ent]])
           /\ \A c : \/ OldAnswered(ent, m, c) = Nil
                     \/ /\ OldAsked(ent, m).old # Nil
                        /\ OldAnswered(ent, m, c) = OldAsked(ent, m).old[c]
<1>1. CASE ent = "order"
  <2>1. OldAsked(ent, m) = OrderOld(View, m) /\ TableOf[ent] = "orders"
    BY <1>1 DEF OldAsked, TableOf
  <2>2. OldAsked(ent, m) = ReadOnce(m, View[TableOf[ent]])
    BY <2>1 DEF OrderOld, ReadOnce
  <2>3. \A c : OldAnswered(ent, m, c) = OrderOldField(View, m, c)
    BY <1>1 DEF OldAnswered
  <2> QED
    BY <2>1, <2>2, <2>3 DEF OrderOldField
<1>2. CASE ent = "item"
  <2>1. OldAsked(ent, m) = ItemOld(View, m) /\ TableOf[ent] = "order_items"
    BY <1>2 DEF OldAsked, TableOf
  <2>2. OldAsked(ent, m) = ReadOnce(m, View[TableOf[ent]])
    BY <2>1 DEF ItemOld, ReadOnce
  <2>3. \A c : OldAnswered(ent, m, c) = ItemOldField(View, m, c)
    BY <1>2 DEF OldAnswered
  <2> QED
    BY <2>1, <2>2, <2>3 DEF ItemOldField
<1>3. CASE ent = "event"
  <2>1. OldAsked(ent, m) = EventOld(View, m) /\ TableOf[ent] = "outbox_events"
    BY <1>3 DEF OldAsked, TableOf
  <2>2. OldAsked(ent, m) = ReadOnce(m, View[TableOf[ent]])
    BY <2>1 DEF EventOld, ReadOnce
  <2>3. \A c : OldAnswered(ent, m, c) = EventOldField(View, m, c)
    BY <1>3 DEF OldAnswered
  <2> QED
    BY <2>1, <2>2, <2>3 DEF EventOldField
<1> QED
  BY <1>1, <1>2, <1>3 DEF Entities, TableOf

\* An old value is one from before, and the builder goes on knowing its row.
LEMMA AskOldStep ==
    ASSUME OldInvariant, AskOld
    PROVE  OldInvariant'
<1> DEFINE m == b.ms[1]
           old == OldAsked(b.ent, m)
<1>1. b # NoBuilder /\ b.kind = "updateOne" /\ Shaped /\ BuilderFields \subseteq DOMAIN b
  BY DEF OldInvariant, Shaped, AskOld
<1>2. /\ b' = [b EXCEPT !.ms[1] = old]
      /\ answer' = [how |-> "old", row |-> [c \in DOMAIN m.set |-> OldAnswered(b.ent, m, c)]]
      /\ UNCHANGED <<db, tx>>
  BY DEF AskOld, OldAsked, OldAnswered
<1>3. KnowsOld(b, Table)
  BY <1>1 DEF OldInvariant, UpdateKnowsOld
<1>4. b.ent \in Entities /\ IsMutation(m) /\ m.done \in BOOLEAN /\ DOMAIN b.ms = 1..1
  BY <1>3 DEF KnowsOld
<1>5. /\ IsMutation(old) /\ old.id = m.id /\ old.done = m.done
      /\ old.old \in {m.old, Nil} \/ (~m.done /\ old.old = View[TableOf[b.ent]][m.id])
      /\ \A c : \/ OldAnswered(b.ent, m, c) = Nil
                \/ old.old # Nil /\ OldAnswered(b.ent, m, c) = old.old[c]
  <2>1. old = ReadOnce(m, View[TableOf[b.ent]])
    BY <1>4, OldIsRead
  <2>2. /\ IsMutation(old) /\ old.id = m.id /\ old.done = m.done
        /\ old.old \in {m.old, Nil} \/ (~m.done /\ old.old = View[TableOf[b.ent]][m.id])
    BY <1>4, <2>1, ReadOnceKeeps
  <2>3. \A c : \/ OldAnswered(b.ent, m, c) = Nil
               \/ old.old # Nil /\ OldAnswered(b.ent, m, c) = old.old[c]
    BY <1>4, OldIsRead
  <2> QED
    BY <2>2, <2>3
<1> HIDE DEF old
<1>6. /\ DOMAIN b' = DOMAIN b /\ b'.ent = b.ent /\ b'.kind = b.kind /\ b'.before = b.before
      /\ b'.ms = [b.ms EXCEPT ![1] = old]
  BY <1>1, <1>2 DEF BuilderFields
<1>7. b'.ms[1] = old /\ b'.ms \in [1..1 -> {b'.ms[1]}]
  BY <1>3, <1>4, <1>6 DEF KnowsOld
<1>8. old.old # Nil => old.old \in b'.before
  BY <1>3, <1>5, <1>6 DEF KnowsOld, Table
<1>9. Table' = Table
  BY <1>2, <1>6 DEF Table, View
<1>10. KnowsOld(b', Table')
  BY <1>3, <1>5, <1>6, <1>7, <1>8, <1>9 DEF KnowsOld
<1>11. UpdateKnowsOld' /\ Shaped'
  BY <1>1, <1>2, <1>6, <1>10 DEF UpdateKnowsOld, Shaped, KnowsOld, IsMutation
<1>12. OldOfUpdates'
  BY <1>1, <1>6 DEF OldOfUpdates
<1>13. OldIsBefore'
  <2> SUFFICES ASSUME NEW c \in DOMAIN answer'.row, answer'.row[c] # Nil
               PROVE  \E row \in b'.before : answer'.row[c] = row[c]
    BY DEF OldIsBefore
  <2>1. answer'.row[c] = OldAnswered(b.ent, m, c)
    BY <1>2
  <2>2. old.old # Nil /\ answer'.row[c] = old.old[c]
    BY <1>5, <2>1
  <2> QED
    BY <1>8, <2>2
<1> QED
  BY <1>11, <1>12, <1>13 DEF OldInvariant

\* Calls and executions of a query.
LEMMA QueryStep ==
    ASSUME OldInvariant, CallQuery \/ Ask
    PROVE  OldInvariant'
<1>1. b # NoBuilder /\ b.kind = "query" /\ BuilderFields \subseteq DOMAIN b
  BY DEF OldInvariant, Shaped, CallQuery, Ask
<1>2. CASE CallQuery
  <2>1. DOMAIN b' = DOMAIN b /\ b'.kind = b.kind /\ answer' = Nil /\ tx' = tx
    BY <1>1, <1>2 DEF CallQuery, BuilderFields
  <2> QED
    BY <1>1, <2>1, OtherStep
<1>3. CASE Ask
  <2> DEFINE Hows == IF b.ent = "order" THEN {"all", "first", "only", "ids", "exist", "count"}
                                       ELSE {"all"}
             Effect(how, clone, r) ==
                /\ b' = [b EXCEPT !.q = IF clone THEN @ ELSE r.q,
                                  !.execs = IF clone THEN @ ELSE @ + 1]
                /\ answer' = [how |-> how, q |-> b.q, fresh |-> b.execs = 0,
                              err |-> r.err, nodes |-> r.nodes, count |-> r.count]
  <2>a. "old" \notin Hows
    OBVIOUS
  <2>b. \E how \in Hows, clone \in BOOLEAN :
           \E r \in Answers(b.ent, how, IF clone THEN OrderClone(b.q) ELSE b.q) :
              Effect(how, clone, r)
    BY <1>3, Zenon DEF Ask
  <2> HIDE DEF Hows
  <2>1. PICK how, clone, r : how # "old" /\ Effect(how, clone, r)
    BY <2>a, <2>b, Zenon
  <2>2. DOMAIN b' = DOMAIN b /\ b'.kind = b.kind
    BY <1>1, <2>1 DEF BuilderFields
  <2>3. answer'.how # "old" /\ tx' = tx
    BY <1>3, <2>1 DEF Ask
  <2> QED
    BY <1>1, <2>2, <2>3, OtherStep
<1> QED
  BY <1>2, <1>3

\* A builder is dropped.
LEMMA DiscardStep ==
    ASSUME OldInvariant, Discard
    PROVE  OldInvariant'
<1>1. b' = NoBuilder /\ answer' = Nil /\ tx' = tx
  BY DEF Discard
<1> QED
  BY <1>1, NothingAnswered DEF OldInvariant, Shaped, UpdateKnowsOld

\* Every step of the program keeps the invariant.
LEMMA OldInvariantNext == OldInvariant /\ [Next]_vars => OldInvariant'
<1> SUFFICES ASSUME OldInvariant, [Next]_vars PROVE OldInvariant'
  OBVIOUS
<1>1. CASE UNCHANGED vars
  BY <1>1 DEF vars, OldInvariant, Shaped, UpdateKnowsOld, OldOfUpdates, OldIsBefore, KnowsOld,
              IsMutation, Table, View
<1>2. CASE Next
  BY <1>2, TransactionStep, OpenOrderStep, OpenItemStep, OpenEventStep, OpenQueryStep,
     CallSetterStep, CallNamedStep, MoreBulkStep, SaveStep, AskOldStep, QueryStep, DiscardStep
     DEF Next
<1> QED
  BY <1>1, <1>2

----------------------------------------------------------------------------
\* Whatever methods are called, by whatever name and in whatever order, and
\* however often an update of one row is executed, inside a transaction or
\* not: an Old method answers with a value the row had before the update
\* succeeded, or with an error.
THEOREM OldValuesAreOld == BuildersSpec => []OldIsBefore
<1>1. OldInvariant => OldIsBefore
  BY DEF OldInvariant
<1> QED
  BY <1>1, OldInvariantInit, OldInvariantNext, PTL DEF BuildersSpec

----------------------------------------------------------------------------
(***************************************************************************)
(* What a query answers: the window its OFFSET and LIMIT leave of the rows *)
(* its conditions pick, in an order it asked for.                          *)
(***************************************************************************)
\* A list of n elements.
LEMMA ListIs ==
    ASSUME NEW n \in Nat, NEW S, NEW f \in [1..n -> S]
    PROVE  f \in Seq(S) /\ Len(f) = n /\ DOMAIN f = 1..n
OBVIOUS

\* A part of a list.
LEMMA PartIs ==
    ASSUME NEW S, NEW s \in Seq(S), NEW m \in Int, NEW n \in Int
    PROVE  SubSeq(s, m, n) = [i \in 1..(1 + n - m) |-> s[i + m - 1]]
OBVIOUS

\* The rows a window leaves of n rows.
Rows(n, off, limit) ==
    LET left == IF n > off THEN n - off ELSE 0
    IN  IF limit \in {Nil, 0} \/ limit > left THEN left ELSE limit

\* s is what an OFFSET of off and a limit leave of the rows of a.
IsWindow(s, a, n, off, limit) ==
    /\ Len(s) = Rows(n, off, limit)
    /\ DOMAIN s = 1..Len(s)
    /\ \A i \in 1..Len(s) : off + i \in 1..n /\ s[i] = a[off + i]

\* OFFSET drops the first rows.
LEMMA SkippedIs ==
    ASSUME NEW S, NEW a \in Seq(S), NEW offset \in Nat \cup {Nil}, NEW off \in Nat,
           off = IF offset = Nil THEN 0 ELSE offset
    PROVE  /\ Skipped(a, offset) \in Seq(S)
           /\ IsWindow(Skipped(a, offset), a, Len(a), off, Nil)
<1> DEFINE n    == Len(a)
           s    == Skipped(a, offset)
           left == IF n > off THEN n - off ELSE 0
<1>1. s = SubSeq(a, off + 1, n)
  BY DEF Skipped
<1>2. n \in Nat /\ left \in Nat /\ 1..(n - off) = 1..left
  OBVIOUS
<1>3. s = [i \in 1..left |-> a[off + i]]
  <2>1. s = [i \in 1..(1 + n - (off + 1)) |-> a[i + (off + 1) - 1]]
    BY <1>1, <1>2, PartIs
  <2>2. 1 + n - (off + 1) = n - off
    BY <1>2
  <2>3. \A i \in 1..left : i + (off + 1) - 1 = off + i
    BY <1>2
  <2> QED
    BY <1>2, <2>1, <2>2, <2>3
<1>4. \A i \in 1..left : off + i \in 1..n
  BY <1>2
<1>5. \A i \in 1..left : a[off + i] \in S
  BY <1>4
<1> HIDE DEF s, left
<1>6. s \in [1..left -> S]
  BY <1>3, <1>5
<1>7. s \in Seq(S) /\ Len(s) = left /\ DOMAIN s = 1..left
  BY <1>2, <1>6, ListIs
<1>8. Rows(n, off, Nil) = left
  BY DEF Rows, left
<1> QED
  BY <1>3, <1>4, <1>7, <1>8 DEF IsWindow, s

\* LIMIT then keeps the first of the others; Nil and zero keep them all.
LEMMA WindowIs ==
    ASSUME NEW S, NEW a \in Seq(S), NEW offset \in Nat \cup {Nil}, NEW limit \in Nat \cup {Nil},
           NEW off \in Nat, off = IF offset = Nil THEN 0 ELSE offset
    PROVE  IsWindow(Limited(Skipped(a, offset), IF limit = 0 THEN Nil ELSE limit),
                    a, Len(a), off, limit)
<1> DEFINE r == Skipped(a, offset)
           s == Limited(r, IF limit = 0 THEN Nil ELSE limit)
           n == Len(a)
<1>1. r \in Seq(S) /\ IsWindow(r, a, n, off, Nil)
  BY SkippedIs
<1>2. Len(r) = (IF n > off THEN n - off ELSE 0) /\ Len(r) \in Nat /\ n \in Nat
  BY <1>1 DEF IsWindow, Rows
<1>3. s = IF limit \in {Nil, 0} \/ limit >= Len(r) THEN r ELSE SubSeq(r, 1, limit)
  BY NilAssumption DEF NilAssumption, Limited
<1> HIDE DEF r, s, n
<1>4. CASE limit \in {Nil, 0} \/ limit >= Len(r)
  <2>1. Rows(n, off, limit) = Rows(n, off, Nil)
    BY <1>2, <1>4, NilAssumption DEF NilAssumption, Rows
  <2>2. s = r
    BY <1>3, <1>4
  <2> QED
    BY <1>1, <2>1, <2>2 DEF IsWindow, r, s, n
<1>5. CASE limit \in Nat \ {0} /\ ~(limit >= Len(r))
  <2>1. s = SubSeq(r, 1, limit)
    BY <1>3, <1>5, NilAssumption DEF NilAssumption
  <2>2. limit \in Nat /\ 1..limit \subseteq 1..Len(r) /\ limit < Len(r)
    BY <1>2, <1>5
  <2>3. s = [i \in 1..limit |-> r[i]]
    <3>1. s = [i \in 1..(1 + limit - 1) |-> r[i + 1 - 1]]
      BY <1>1, <2>1, <2>2, PartIs
    <3>2. 1 + limit - 1 = limit /\ \A i \in 1..limit : i + 1 - 1 = i
      BY <2>2
    <3> QED
      BY <3>1, <3>2
  <2>4. \A i \in 1..limit : r[i] \in S
    BY <1>1, <2>2
  <2>5. s \in [1..limit -> S]
    BY <2>3, <2>4
  <2>6. Len(s) = limit /\ DOMAIN s = 1..limit
    BY <2>2, <2>5, ListIs
  <2>7. Rows(n, off, limit) = limit
    BY <1>2, <1>5, NilAssumption DEF NilAssumption, Rows
  <2>8. \A i \in 1..limit : off + i \in 1..n /\ s[i] = a[off + i]
    BY <1>1, <2>2, <2>3 DEF IsWindow
  <2>9. IsWindow(s, a, n, off, limit)
    BY <2>6, <2>7, <2>8 DEF IsWindow
  <2> QED
    BY <2>9 DEF r, s, n
<1> QED
  BY <1>2, <1>4, <1>5

\* A query's conditions pick finitely many orders.
LEMMA PickedOrders ==
    ASSUME NEW d, NEW ps
    PROVE  OrdersWhere(d, ps) \subseteq OrderIDs /\ IsFiniteSet(OrdersWhere(d, ps))
<1>1. OrdersWhere(d, ps) \subseteq OrderIDs
  BY DEF OrdersWhere, Present, IDs
<1> QED
  BY <1>1, FS_Subset, NilAssumption DEF NilAssumption

\* What the program may have made of a query before it is executed.
IsFreshQuery(q) ==
    /\ DOMAIN q = {"where", "limit", "offset", "order", "fields", "eager", "path"}
    /\ q.limit \in Nat \cup {Nil} /\ q.offset \in Nat \cup {Nil}
    /\ q.eager \in {Nil, OrderIDs}

\* A fresh query selects a window of an arrangement of the orders it picks.
LEMMA FreshSelection ==
    ASSUME NEW d, NEW q, IsFreshQuery(q), NEW s \in OrderQuerySpec(d, q)
    PROVE  LET ids == OrdersWhere(d, q.where)
               off == IF q.offset = Nil THEN 0 ELSE q.offset
           IN  \E a \in Arrangements(d, "orders", ids, q.order) :
                  IsWindow(s, a, Cardinality(ids), off, q.limit)
<1> DEFINE ids == OrdersWhere(d, q.where)
           off == IF q.offset = Nil THEN 0 ELSE q.offset
           n   == Cardinality(ids)
<1>1. PICK a \in Arrangements(d, "orders", ids, q.order) :
          s = Limited(Skipped(a, q.offset), IF q.limit = 0 THEN Nil ELSE q.limit)
  BY DEF OrderQuerySpec, Selected
<1>2. n \in Nat /\ off \in Nat
  BY PickedOrders, FS_CardinalityType DEF IsFreshQuery
<1>3. a \in [1..n -> ids]
  BY DEF Arrangements
<1> HIDE DEF n, ids
<1>4. a \in Seq(ids) /\ Len(a) = n
  BY <1>2, <1>3, ListIs
<1>5. IsWindow(s, a, n, off, q.limit)
  BY <1>1, <1>2, <1>4, WindowIs DEF IsFreshQuery
<1> QED
  BY <1>5 DEF n, ids

\* The window as the property states it.
LEMMA RowsAre ==
    ASSUME NEW n \in Nat, NEW off \in Nat, NEW limit \in Nat \cup {Nil}
    PROVE  LET left == Max({0, n - off})
           IN  Rows(n, off, limit) = IF limit \in {Nil, 0} THEN left ELSE Min({left, limit})
<1> DEFINE left == IF n > off THEN n - off ELSE 0
<1>1. left \in Nat /\ left \in {0, n - off} /\ \A y \in {0, n - off} : left >= y
  OBVIOUS
<1>2. \A x \in {0, n - off} : (\A y \in {0, n - off} : x >= y) => x = left
  OBVIOUS
<1> HIDE DEF left
<1>3. Max({0, n - off}) = left
  BY <1>1, <1>2 DEF Max
<1>4. ASSUME limit \in Nat
      PROVE  Min({left, limit}) = IF limit > left THEN left ELSE limit
  <2> DEFINE least == IF limit > left THEN left ELSE limit
  <2>1. least \in {left, limit} /\ \A y \in {left, limit} : least =< y
    BY <1>1, <1>4
  <2>2. \A x \in {left, limit} : (\A y \in {left, limit} : x =< y) => x = least
    BY <1>1, <1>4
  <2> HIDE DEF least
  <2>3. Min({left, limit}) = least
    BY <2>1, <2>2 DEF Min
  <2> QED
    BY <2>3 DEF least
<1>5. Rows(n, off, limit) = IF limit \in {Nil, 0} \/ limit > left THEN left ELSE limit
  BY DEF Rows, left
<1> QED
  BY <1>3, <1>4, <1>5

\* What the property asks of the nodes a query is answered with.
InFull(q, nodes, d) ==
    LET matching == OrdersWhere(d, q.where)
        skip  == IF q.offset = Nil THEN 0 ELSE q.offset
        left  == Max({0, Cardinality(matching) - skip})
    IN  /\ \A k \in DOMAIN nodes : nodes[k].id \in matching
        /\ \A j, k \in DOMAIN nodes : j # k => nodes[j].id # nodes[k].id
        /\ Len(nodes) = IF q.limit \in {Nil, 0} THEN left ELSE Min({left, q.limit})
        /\ \A j, k \in DOMAIN nodes : j < k /\ q.order = "desc" =>
               d.orders[nodes[j].id].created_at >= d.orders[nodes[k].id].created_at
        /\ q.eager # Nil =>
               \A k \in DOMAIN nodes :
                   nodes[k].edge = {i \in Present(d, "order_items") :
                                       d.order_items[i].order_items = nodes[k].id}

\* A node All answers: an order, and its items if the edge is loaded.
NodeOf(d, q, after, id) ==
    [id |-> id, row |-> OrderScan(d.orders[id], q.fields),
     edge |-> IF q.eager = Nil THEN Nil ELSE ItemsOf(d, {id} \cap after.eager)]

\* The nodes are the selected orders; each has all its items if the edge is loaded.
LEMMA FreshNodes ==
    ASSUME NEW d, NEW q, IsFreshQuery(q), NEW r \in OrderAll(d, q)
    PROVE  \E s \in OrderQuerySpec(d, q) :
              /\ r.nodes = [k \in DOMAIN s |-> r.nodes[k]]
              /\ \A k \in DOMAIN s :
                    /\ r.nodes[k].id = s[k]
                    /\ q.eager # Nil /\ s[k] \in OrderIDs =>
                          r.nodes[k].edge = {i \in Present(d, "order_items") :
                                                d.order_items[i].order_items = s[k]}
<1>1. PICK s \in OrderQuerySpec(d, q) :
          LET after == IF q.eager = Nil \/ s = <<>> THEN q ELSE OrderLoadItems(d, q, s)
          IN  r = Found(after, [k \in DOMAIN s |-> NodeOf(d, q, after, s[k])])
  BY DEF OrderAll, NodeOf
<1> DEFINE after == IF q.eager = Nil \/ s = <<>> THEN q ELSE OrderLoadItems(d, q, s)
<1>2. r.nodes = [k \in DOMAIN s |-> NodeOf(d, q, after, s[k])]
  BY <1>1 DEF Found
<1>3. ASSUME NEW k \in DOMAIN s, q.eager # Nil, s[k] \in OrderIDs
      PROVE  {s[k]} \cap after.eager = {s[k]}
  <2>1. q.eager = OrderIDs /\ "eager" \in DOMAIN q
    BY <1>3 DEF IsFreshQuery
  <2>2. s # <<>>
    <3>1. DOMAIN <<>> = {}
      OBVIOUS
    <3> QED
      BY <1>3, <3>1
  <2>3. after = OrderLoadItems(d, q, s)
    BY <1>3, <2>2
  <2> HIDE DEF after
  <2>4. after.eager = OrderIDs \cap IdsIn(s)
    BY <2>1, <2>3 DEF OrderLoadItems
  <2>5. s[k] \in IdsIn(s)
    BY <1>3 DEF IdsIn
  <2> QED
    BY <1>3, <2>4, <2>5
<1> HIDE DEF after
<1>4. ASSUME NEW k \in DOMAIN s
      PROVE  /\ r.nodes[k].id = s[k]
             /\ q.eager # Nil /\ s[k] \in OrderIDs =>
                   r.nodes[k].edge = {i \in Present(d, "order_items") :
                                         d.order_items[i].order_items = s[k]}
  <2>1. r.nodes[k] = NodeOf(d, q, after, s[k])
    BY <1>2
  <2>2. r.nodes[k].id = s[k]
    BY <2>1 DEF NodeOf
  <2>3. q.eager # Nil => r.nodes[k].edge = ItemsOf(d, {s[k]} \cap after.eager)
    BY <2>1 DEF NodeOf
  <2> QED
    BY <1>3, <2>2, <2>3 DEF ItemsOf
<1>5. r.nodes = [k \in DOMAIN s |-> r.nodes[k]]
  BY <1>2
<1> QED
  BY <1>4, <1>5

\* All answers a fresh query in full.
LEMMA FreshInFull ==
    ASSUME NEW d, NEW q, IsFreshQuery(q), NEW r \in OrderAll(d, q)
    PROVE  InFull(q, r.nodes, d)
<1> DEFINE ids == OrdersWhere(d, q.where)
           off == IF q.offset = Nil THEN 0 ELSE q.offset
           n   == Cardinality(ids)
<1>1. PICK s \in OrderQuerySpec(d, q) :
              /\ r.nodes = [k \in DOMAIN s |-> r.nodes[k]]
              /\ \A k \in DOMAIN s :
                    /\ r.nodes[k].id = s[k]
                    /\ q.eager # Nil /\ s[k] \in OrderIDs =>
                          r.nodes[k].edge = {i \in Present(d, "order_items") :
                                                d.order_items[i].order_items = s[k]}
  BY FreshNodes
<1>3. PICK a \in Arrangements(d, "orders", ids, q.order) : IsWindow(s, a, n, off, q.limit)
  BY FreshSelection
<1>4. n \in Nat /\ off \in Nat /\ ids \subseteq OrderIDs
  BY PickedOrders, FS_CardinalityType DEF IsFreshQuery
<1>5. /\ a \in [1..n -> ids]
      /\ \A i, j \in 1..n : i < j =>
            /\ a[i] # a[j]
            /\ q.order = "desc" => d.orders[a[i]].created_at >= d.orders[a[j]].created_at
  <2>1. a \in [1..n -> ids]
    BY DEF Arrangements
  <2>2. DOMAIN a = 1..n
    BY <2>1
  <2> QED
    BY <2>1, <2>2 DEF Arrangements
<1>6. Len(s) \in Nat /\ Len(s) = Rows(n, off, q.limit)
  <2>1. Rows(n, off, q.limit) \in Nat
    BY <1>4, NilAssumption DEF NilAssumption, Rows, IsFreshQuery
  <2> QED
    BY <1>3, <2>1 DEF IsWindow
<1> DEFINE len == Len(s)
<1> HIDE DEF n, ids, off
<1>7. /\ DOMAIN s = 1..len
      /\ \A k \in 1..len : off + k \in 1..n /\ s[k] = a[off + k] /\ s[k] \in ids
  BY <1>3, <1>5 DEF IsWindow
<1> HIDE DEF len
<1>8. DOMAIN r.nodes = 1..len /\ \A k \in 1..len : r.nodes[k].id = s[k]
  BY <1>1, <1>7
<1>10. Len(r.nodes) = len
  <2>1. r.nodes \in [1..len -> {r.nodes[k] : k \in 1..len}]
    BY <1>1, <1>7
  <2> QED
    BY <1>6, <2>1, ListIs DEF len
<1>11. ASSUME NEW j \in 1..len, NEW k \in 1..len, j < k
       PROVE  /\ s[j] # s[k]
              /\ q.order = "desc" => d.orders[s[j]].created_at >= d.orders[s[k]].created_at
  <2>1. off + j < off + k
    BY <1>4, <1>6, <1>11 DEF len
  <2> QED
    BY <1>5, <1>7, <2>1
<1>13. Rows(n, off, q.limit) = IF q.limit \in {Nil, 0} THEN Max({0, n - off})
                               ELSE Min({Max({0, n - off}), q.limit})
  BY <1>4, RowsAre DEF IsFreshQuery
<1>14. \A k \in DOMAIN r.nodes : r.nodes[k].id \in ids
  BY <1>7, <1>8
<1>15. \A j, k \in DOMAIN r.nodes : j # k => r.nodes[j].id # r.nodes[k].id
  <2> SUFFICES ASSUME NEW j \in 1..len, NEW k \in 1..len, j # k PROVE s[j] # s[k]
    BY <1>8
  <2>1. j < k \/ k < j
    BY <1>6 DEF len
  <2> QED
    BY <1>11, <2>1
<1>16. \A j, k \in DOMAIN r.nodes : j < k /\ q.order = "desc" =>
           d.orders[r.nodes[j].id].created_at >= d.orders[r.nodes[k].id].created_at
  BY <1>8, <1>11
<1>17. q.eager # Nil =>
           \A k \in DOMAIN r.nodes :
               r.nodes[k].edge = {i \in Present(d, "order_items") :
                                     d.order_items[i].order_items = r.nodes[k].id}
  BY <1>1, <1>4, <1>7, <1>8
<1> QED
  BY <1>6, <1>10, <1>13, <1>14, <1>15, <1>16, <1>17 DEF InFull, len, n, ids, off

----------------------------------------------------------------------------
(***************************************************************************)
(* Queries are opened fresh, and an answer stands only while nothing has   *)
(* been called or executed since.                                          *)
(***************************************************************************)
QueryFields == {"ent", "kind", "ms", "calls", "execs", "before", "first", "q"}

FreshQuery ==
    b # NoBuilder /\ b.kind = "query" /\ b.ent = "order" =>
        b.execs \in Nat /\ (b.execs = 0 => IsFreshQuery(b.q))

AnswerOfQuery == answer # Nil => b # NoBuilder /\ (answer.how = "all" => b.kind = "query")

QueryInvariant ==
    /\ b # NoBuilder => QueryFields \subseteq DOMAIN b
    /\ FreshQuery /\ AnswerOfQuery /\ FreshQueriesAnswerInFull

\* No builder is open at first.
LEMMA QueryInvariantInit == Init => QueryInvariant
BY DEF Init, QueryInvariant, FreshQuery, AnswerOfQuery, FreshQueriesAnswerInFull

\* Without an answer there is nothing to show but what the builder is.
LEMMA Unanswered ==
    ASSUME answer' = Nil, b' # NoBuilder => QueryFields \subseteq DOMAIN b', FreshQuery'
    PROVE  QueryInvariant'
BY DEF QueryInvariant, AnswerOfQuery, FreshQueriesAnswerInFull

\* A builder of anything but a query.
LEMMA NotQuery ==
    ASSUME answer' = Nil, QueryFields \subseteq DOMAIN b', b'.kind # "query"
    PROVE  QueryInvariant'
BY Unanswered DEF FreshQuery

\* Transactions begin and end while no answer stands.
LEMMA QueryTransactionStep ==
    ASSUME QueryInvariant, Begin \/ Commit \/ Rollback
    PROVE  QueryInvariant'
<1>1. b' = NoBuilder /\ answer' = Nil
  BY DEF Begin, Commit, Rollback, QueryInvariant, AnswerOfQuery
<1> QED
  BY <1>1, Unanswered DEF FreshQuery

\* Opening a builder.
LEMMA QueryOpenStep ==
    ASSUME NEW builder, Open(builder), QueryFields \subseteq DOMAIN builder,
           builder.kind # "query"
    PROVE  QueryInvariant'
BY NotQuery DEF Open

\* The fields of a builder.
LEMMA BuilderHas ==
    ASSUME NEW ent, NEW kind, NEW m
    PROVE  QueryFields \subseteq DOMAIN Builder(ent, kind, m) /\ Builder(ent, kind, m).kind = kind
BY DEF Builder, QueryFields

\* A creation, whatever it is prepared with, is not a query.
LEMMA CreationOpened ==
    ASSUME NEW ent, NEW kind \in {"create", "bulk"}, OpenCreation(ent, kind)
    PROVE  QueryInvariant'
<1> DEFINE new == Builder(ent, kind, NewOf(ent, kind, Nil))
<1>1. QueryFields \subseteq DOMAIN new /\ new.kind = kind
  BY BuilderHas
<1>2. PICK calls : Open(Prepared(new, calls))
  BY DEF OpenCreation
<1> HIDE DEF new
<1>3. QueryFields \subseteq DOMAIN Prepared(new, calls) /\ Prepared(new, calls).kind = kind
  BY <1>1 DEF Prepared, QueryFields
<1> QED
  BY <1>2, <1>3, QueryOpenStep

\* Every builder that is not a query.
LEMMA OthersOpened ==
    ASSUME NEW kind, OpenOrder(kind) \/ OpenItem(kind) \/ OpenEvent(kind)
    PROVE  QueryInvariant'
<1> DEFINE Kinds == {"create", "bulk", "update", "updateOne", "deleteOne"}
<1>1. ASSUME NEW ent, NEW k \in Kinds, NEW m, Open(Builder(ent, k, m))
      PROVE  QueryInvariant'
  BY <1>1, BuilderHas, QueryOpenStep
<1>2. ASSUME NEW ent, NEW m, NEW rows, Open([Builder(ent, "updateOne", m) EXCEPT !.before = rows])
      PROVE  QueryInvariant'
  <2> DEFINE builder == [Builder(ent, "updateOne", m) EXCEPT !.before = rows]
  <2>1. QueryFields \subseteq DOMAIN builder /\ builder.kind = "updateOne"
    BY DEF Builder, QueryFields
  <2>2. Open(builder)
    BY <1>2
  <2> HIDE DEF builder
  <2> QED
    BY <2>1, <2>2, QueryOpenStep
<1>3. CASE OpenOrder(kind)
  BY <1>1, <1>2, <1>3, CreationOpened DEF OpenOrder
<1>4. CASE OpenItem(kind)
  BY <1>1, <1>2, <1>4, CreationOpened DEF OpenItem
<1>5. CASE OpenEvent(kind)
  BY <1>1, <1>2, <1>5, CreationOpened DEF OpenEvent
<1> QED
  BY <1>3, <1>4, <1>5

\* A query is opened without conditions.
LEMMA QueryOpened ==
    ASSUME NEW ent, OpenQuery(ent)
    PROVE  QueryInvariant'
<1>1. IsFreshQuery(NewQuery)
  BY DEF IsFreshQuery, NewQuery
<1>2. /\ QueryFields \subseteq DOMAIN b' /\ b'.execs = 0 /\ b'.q = NewQuery /\ answer' = Nil
  BY DEF OpenQuery, Open, Builder, QueryFields
<1> QED
  BY <1>1, <1>2, Unanswered DEF FreshQuery

\* Calls of a builder that is no query, and its executions.
LEMMA OtherCalls ==
    ASSUME QueryInvariant, CallSetter \/ CallNamed \/ Save
    PROVE  QueryInvariant'
<1>1. b # NoBuilder /\ b.kind # "query" /\ QueryFields \subseteq DOMAIN b
  BY DEF CallSetter, CallNamed, MayCall, Save, QueryInvariant
<1>2. ASSUME NEW m, NEW call, Called(m, call)
      PROVE  DOMAIN b' = DOMAIN b /\ b'.kind = b.kind /\ answer' = Nil
  BY <1>1, <1>2 DEF Called, QueryFields
<1>3. ASSUME NEW ids, Exec(ids)
      PROVE  DOMAIN b' = DOMAIN b /\ b'.kind = b.kind /\ answer' = Nil
  BY <1>1, <1>3 DEF Exec, QueryFields
<1>4. DOMAIN b' = DOMAIN b /\ b'.kind = b.kind /\ answer' = Nil
  BY <1>2, <1>3 DEF CallSetter, CallNamed, Save
<1> QED
  BY <1>1, <1>4, NotQuery

\* A second builder of a CreateBulk, for which nothing was answered in full.
LEMMA QueryMoreBulk ==
    ASSUME QueryInvariant, MoreBulk
    PROVE  QueryInvariant'
<1>1. b # NoBuilder /\ b.kind = "bulk" /\ QueryFields \subseteq DOMAIN b
  BY DEF MoreBulk, QueryInvariant
<1>2. DOMAIN b' = DOMAIN b /\ b'.kind = "bulk" /\ answer' = answer
  BY <1>1 DEF MoreBulk, QueryFields
<1>4. b' # NoBuilder
  BY <1>2 DEF NoBuilder
<1>3. answer # Nil => answer.how # "all"
  BY <1>1 DEF QueryInvariant, AnswerOfQuery
<1> QED
  BY <1>1, <1>2, <1>3, <1>4 DEF QueryInvariant, FreshQuery, AnswerOfQuery, FreshQueriesAnswerInFull

\* An old value is not the answer of a query.
LEMMA QueryAskOld ==
    ASSUME QueryInvariant, AskOld
    PROVE  QueryInvariant'
<1>1. b # NoBuilder /\ b.kind = "updateOne" /\ QueryFields \subseteq DOMAIN b
  BY DEF AskOld, QueryInvariant
<1>2. DOMAIN b' = DOMAIN b /\ b'.kind = b.kind /\ answer'.how = "old"
  BY <1>1 DEF AskOld, QueryFields
<1>3. b' # NoBuilder
  BY <1>1, <1>2 DEF NoBuilder
<1> QED
  BY <1>1, <1>2, <1>3 DEF QueryInvariant, FreshQuery, AnswerOfQuery, FreshQueriesAnswerInFull

\* A query that has not been executed stays fresh whatever is called.
LEMMA CallQueryStep ==
    ASSUME QueryInvariant, CallQuery
    PROVE  QueryInvariant'
<1>1. b # NoBuilder /\ b.kind = "query" /\ b.execs = 0 /\ QueryFields \subseteq DOMAIN b
  BY DEF CallQuery, QueryInvariant
<1>2. PICK k \in DOMAIN QueryCalls[b.ent] :
          LET call == QueryCalls[b.ent][k] IN
          b' = [b EXCEPT !.calls = Append(@, call),
                         !.q = CASE call.op = "with" /\ b.ent = "order" -> OrderWithItems(@)
                                 [] call.op = "with" /\ b.ent = "item"  -> ItemWithOrder(@)
                                 [] call.op = "of"   /\ b.ent = "item"  ->
                                        OrderQueryItems(OrderQuerySetter(NewQuery, call.val))
                                 [] call.op \notin {"with", "of"} -> OrderQuerySetter(@, call)]
  BY DEF CallQuery
<1> DEFINE call == QueryCalls[b.ent][k]
<1>3. /\ DOMAIN b' = DOMAIN b /\ b'.ent = b.ent /\ b'.kind = b.kind /\ b'.execs = b.execs
      /\ b.ent = "order" => /\ call.op = "with" => b'.q = OrderWithItems(b.q)
                            /\ call.op \notin {"with", "of"} => b'.q = OrderQuerySetter(b.q, call)
  BY <1>1, <1>2 DEF QueryFields
<1>4. ASSUME b.ent = "order" PROVE IsFreshQuery(b'.q)
  <2>1. OrderQueryMethod(call)
    BY <1>4, QueriesAssumption
  <2>2. IsFreshQuery(b.q)
    BY <1>1, <1>4 DEF QueryInvariant, FreshQuery
  <2> HIDE DEF call
  <2>3. CASE call.op = "with"
    BY <1>3, <1>4, <2>2, <2>3 DEF OrderWithItems, IsFreshQuery
  <2>4. CASE call.op \in {"where", "order"}
    BY <1>3, <1>4, <2>2, <2>4 DEF OrderQuerySetter, IsFreshQuery
  <2>5. CASE call.op \in {"limit", "offset"} /\ call.val \in Nat
    BY <1>3, <1>4, <2>2, <2>5 DEF OrderQuerySetter, IsFreshQuery
  <2> QED
    BY <2>1, <2>3, <2>4, <2>5 DEF OrderQueryMethod
<1>5. answer' = Nil
  BY DEF CallQuery
<1>6. FreshQuery'
  BY <1>1, <1>3, <1>4 DEF FreshQuery
<1> QED
  BY <1>1, <1>3, <1>5, <1>6, Unanswered

\* An answer in full is the answer of a query that was fresh.
LEMMA AskStep ==
    ASSUME QueryInvariant, Ask
    PROVE  QueryInvariant'
<1> DEFINE Hows == IF b.ent = "order" THEN {"all", "first", "only", "ids", "exist", "count"}
                                      ELSE {"all"}
           Effect(how, clone, r) ==
              /\ b' = [b EXCEPT !.q = IF clone THEN @ ELSE r.q,
                                !.execs = IF clone THEN @ ELSE @ + 1]
              /\ answer' = [how |-> how, q |-> b.q, fresh |-> b.execs = 0,
                            err |-> r.err, nodes |-> r.nodes, count |-> r.count]
<1>1. b # NoBuilder /\ b.kind = "query" /\ QueryFields \subseteq DOMAIN b /\ UNCHANGED <<db, tx>>
  BY DEF Ask, QueryInvariant
<1>2. \E how \in Hows, clone \in BOOLEAN :
         \E r \in Answers(b.ent, how, IF clone THEN OrderClone(b.q) ELSE b.q) :
            Effect(how, clone, r)
  BY Zenon DEF Ask
<1> HIDE DEF Hows, Effect
<1>a. PICK how \in Hows, clone \in BOOLEAN :
         \E r \in Answers(b.ent, how, IF clone THEN OrderClone(b.q) ELSE b.q) :
            Effect(how, clone, r)
  BY <1>2
<1>b. (IF clone THEN OrderClone(b.q) ELSE b.q) = b.q
  BY DEF OrderClone
<1>c. PICK r \in Answers(b.ent, how, b.q) : Effect(how, clone, r)
  BY <1>a, <1>b
<1>3. /\ b' = [b EXCEPT !.q = IF clone THEN @ ELSE r.q, !.execs = IF clone THEN @ ELSE @ + 1]
      /\ answer' = [how |-> how, q |-> b.q, fresh |-> b.execs = 0,
                    err |-> r.err, nodes |-> r.nodes, count |-> r.count]
  BY <1>c DEF Effect
<1>4. /\ DOMAIN b' = DOMAIN b /\ b'.ent = b.ent /\ b'.kind = b.kind
      /\ b'.execs = IF clone THEN b.execs ELSE b.execs + 1
      /\ b'.q = IF clone THEN b.q ELSE r.q
  BY <1>1, <1>3 DEF QueryFields
<1>5. /\ answer'.how = how /\ answer'.q = b.q /\ answer'.fresh = (b.execs = 0)
      /\ answer'.nodes = r.nodes
  BY <1>3
<1>6. b' # NoBuilder
  BY <1>1, <1>4 DEF NoBuilder
<1>7. FreshQuery'
  <2> SUFFICES ASSUME b.ent = "order"
               PROVE  b'.execs \in Nat /\ (b'.execs = 0 => IsFreshQuery(b'.q))
    BY <1>4 DEF FreshQuery
  <2>1. b.execs \in Nat /\ (b.execs = 0 => IsFreshQuery(b.q))
    BY <1>1 DEF QueryInvariant, FreshQuery
  <2>2. CASE clone
    BY <1>4, <2>1, <2>2
  <2>3. CASE ~clone
    BY <1>4, <2>1, <2>3
  <2> QED
    BY <2>2, <2>3
<1>8. AnswerOfQuery'
  BY <1>1, <1>4, <1>6 DEF AnswerOfQuery
<1>9. FreshQueriesAnswerInFull'
  <2>1. ASSUME how = "all", b.execs = 0, b.ent = "order"
        PROVE  InFull(b.q, r.nodes, View)
    <3>1. IsFreshQuery(b.q)
      BY <1>1, <2>1 DEF QueryInvariant, FreshQuery
    <3>2. Answers(b.ent, how, b.q) = OrderAll(View, b.q)
      BY <2>1 DEF Answers
    <3>3. r \in OrderAll(View, b.q)
      BY <1>c, <3>2
    <3> QED
      BY <3>1, <3>3, FreshInFull
  <2>2. View' = View
    BY <1>1 DEF View
  <2>3. (answer' # Nil /\ answer'.how = "all" /\ answer'.fresh /\ b'.ent = "order" =>
            InFull(answer'.q, answer'.nodes, View'))
           => FreshQueriesAnswerInFull'
    BY DEF FreshQueriesAnswerInFull, InFull, OrdersWhere
  <2>4. answer'.how = "all" /\ answer'.fresh /\ b'.ent = "order" =>
           InFull(answer'.q, answer'.nodes, View)
    BY <1>4, <1>5, <2>1
  <2> HIDE DEF Hows, Effect
  <2> QED
    BY <2>2, <2>3, <2>4
<1> QED
  BY <1>1, <1>4, <1>7, <1>8, <1>9 DEF QueryInvariant

\* Every step of the program keeps what is known of queries.
LEMMA QueryInvariantNext == QueryInvariant /\ [Next]_vars => QueryInvariant'
<1> SUFFICES ASSUME QueryInvariant, [Next]_vars PROVE QueryInvariant'
  OBVIOUS
<1>1. CASE UNCHANGED vars
  <2>1. View' = View
    BY <1>1 DEF vars, View
  <2>2. answer' = answer /\ b' = b
    BY <1>1 DEF vars
  <2>3. FreshQueriesAnswerInFull'
    BY <2>1, <2>2 DEF QueryInvariant, FreshQueriesAnswerInFull
  <2> QED
    BY <2>2, <2>3 DEF QueryInvariant, FreshQuery, AnswerOfQuery
<1>2. CASE Discard
  BY <1>2, Unanswered DEF Discard, FreshQuery
<1>3. CASE Next /\ ~Discard
  BY <1>3, QueryTransactionStep, OthersOpened, QueryOpened, OtherCalls, QueryMoreBulk, QueryAskOld,
     CallQueryStep, AskStep DEF Next
<1> QED
  BY <1>1, <1>2, <1>3

\* Whatever conditions, order, window and eager loading a query of orders is
\* given, and in whatever order: as long as it has not been executed, All
\* answers with all the orders it should, each once and with all its items.
THEOREM FreshQueriesAreFull == BuildersSpec => []FreshQueriesAnswerInFull
<1>1. QueryInvariant => FreshQueriesAnswerInFull
  BY DEF QueryInvariant
<1> QED
  BY <1>1, QueryInvariantInit, QueryInvariantNext, PTL DEF BuildersSpec

----------------------------------------------------------------------------
MutationFields == {"op", "id", "set", "add", "cleared", "edges", "removed", "edgeCleared",
                   "where", "loaded", "old", "done"}

\* What a builder has been told is about the columns of its table, and an
\* item's numbers are numbers.
ForOrder(m) ==
    /\ MutationFields \subseteq DOMAIN m
    /\ DOMAIN m.set = OrderColumns /\ DOMAIN m.add = OrderAmounts
    /\ m.cleared \subseteq {"error_message"}

ForItem(m) ==
    /\ MutationFields \subseteq DOMAIN m
    /\ DOMAIN m.set = ItemColumns /\ DOMAIN m.add = ItemNumbers
    /\ m.cleared \subseteq ItemTexts
    /\ \A c \in ItemColumns : IsItemValue(c, m.set[c])
    /\ \A c \in ItemNumbers : m.add[c] = Nil \/ m.add[c] \in Int

----------------------------------------------------------------------------
\* Numbers are columns.
LEMMA NumbersAreColumns == OrderAmounts \subseteq OrderColumns /\ ItemNumbers \subseteq ItemColumns
BY DEF OrderAmounts, OrderColumns, ItemNumbers, ItemColumns

\* The typed methods of an order's columns.
LEMMA OrderFieldFor ==
    ASSUME NEW m, ForOrder(m), NEW call, call.col \in OrderColumns,
           \/ call.op \in {"set", "reset"}
           \/ call.op = "add" /\ call.col \in OrderAmounts
           \/ call.op = "clear" /\ call.col = "error_message"
    PROVE  ForOrder(OrderField(m, call))
<1>1. CASE call.col \in {"created_at", "updated_at", "customer_id", "status"}
  BY <1>1 DEF OrderField, OrderScalar, OrderAmounts, ForOrder, MutationFields
<1>2. CASE call.col \in OrderAmounts
  BY <1>2 DEF OrderField, OrderAmount, OrderAmounts, ForOrder, MutationFields
<1>3. CASE call.col \in {"shipping_address", "billing_address"}
  BY <1>3 DEF OrderField, OrderAddress, OrderAmounts, ForOrder, MutationFields
<1>4. CASE call.col = "error_message"
  BY <1>4 DEF OrderField, OrderErrorMessage, OrderAmounts, ForOrder, MutationFields
<1> QED
  BY <1>1, <1>2, <1>3, <1>4 DEF OrderColumns, OrderAmounts

\* The methods of its edge.
LEMMA OrderItemsFor ==
    ASSUME NEW m, ForOrder(m), NEW call, call.op \in {"add", "remove", "clear", "reset"}
    PROVE  ForOrder(OrderItems(m, call))
BY DEF OrderItems, ForOrder, MutationFields

\* The typed methods of an item's columns: an increment is a number, and so is
\* the sum of two.
LEMMA ItemFieldFor ==
    ASSUME NEW m, ForItem(m), NEW call, call.col \in ItemColumns,
           \/ call.op = "set" /\ IsItemValue(call.col, call.val)
           \/ call.op = "reset"
           \/ call.op = "add" /\ call.col \in ItemNumbers /\ call.val \in Int
           \/ call.op = "clear" /\ call.col \in ItemTexts
    PROVE  ForItem(ItemField(m, call))
<1>0. \A c : IsItemValue(c, Nil)
  BY DEF IsItemValue
<1>1. CASE call.col \in ItemColumns \ (ItemNumbers \cup ItemTexts)
  <2>1. ItemField(m, call) = [m EXCEPT !.set[call.col] = IF call.op = "set" THEN call.val ELSE Nil]
    BY <1>1 DEF ItemField, ItemScalar, ItemTexts, ItemNumbers
  <2> QED
    BY <1>0, <1>1, <2>1 DEF ForItem, MutationFields, ItemNumbers, ItemTexts
<1>2. CASE call.col \in ItemTexts
  <2>1. ItemField(m, call) = ItemText(m, call)
    BY <1>2 DEF ItemField, ItemImageURL, ItemTexts, ItemNumbers
  <2>2. call.op \in {"set", "clear", "reset"}
    BY <1>2 DEF ItemTexts, ItemNumbers
  <2> QED
    BY <1>0, <1>2, <2>1, <2>2 DEF ItemText, ForItem, MutationFields
<1>3. CASE call.col \in ItemNumbers
  <2>1. ItemField(m, call) = ItemNumber(m, call)
    BY <1>3 DEF ItemField, ItemTexts, ItemNumbers
  <2>2. call.op \in {"set", "add", "reset"}
    BY <1>3 DEF ItemTexts, ItemNumbers
  <2>3. CASE call.op \in {"set", "reset"}
    BY <1>0, <1>3, <2>1, <2>3 DEF ItemNumber, ForItem, MutationFields
  <2>4. CASE call.op = "add"
    <3>1. call.val \in Int
      BY <1>3, <2>4 DEF ItemNumbers, ItemTexts
    <3> DEFINE sum == IF m.add[call.col] = Nil THEN call.val ELSE m.add[call.col] + call.val
    <3>2. sum \in Int
      BY <1>3, <3>1 DEF ForItem
    <3>3. ItemField(m, call) = [m EXCEPT !.add[call.col] = sum]
      BY <2>1, <2>4 DEF ItemNumber
    <3> HIDE DEF sum
    <3> QED
      BY <1>3, <3>2, <3>3 DEF ForItem, MutationFields
  <2> QED
    BY <2>2, <2>3, <2>4
<1> QED
  BY <1>1, <1>2, <1>3

\* The methods of its edge.
LEMMA ItemOrderFor ==
    ASSUME NEW m, ForItem(m), NEW call, call.op \in {"set", "clear", "reset"}
    PROVE  ForItem(ItemOrder(m, call))
BY DEF ItemOrder, ForItem, MutationFields

\* The setters of the update builders.
LEMMA OrderUpdateFor ==
    ASSUME NEW m, ForOrder(m), NEW call, IsCall(call), OrderUpdateMethod(call)
    PROVE  ForOrder(OrderUpdateSetter(m, call))
<1>1. CASE call.op = "set" /\ call.val = Nil
  BY <1>1 DEF OrderUpdateSetter, OrderUpdateMethod, OrderColumns
<1>2. CASE call.op = "set" /\ call.val # Nil
  <2> DEFINE old == IF call.col \in OrderAmounts
                    THEN OrderAmount(m, [call EXCEPT !.op = "reset"]) ELSE m
  <2>0. [call EXCEPT !.op = "reset"].op = "reset" /\ [call EXCEPT !.op = "reset"].col = call.col
    BY DEF IsCall
  <2>1. ForOrder(old)
    BY <2>0 DEF OrderAmount, ForOrder, MutationFields
  <2>2. OrderUpdateSetter(m, call) = OrderField(old, call)
    BY <1>2 DEF OrderUpdateSetter, OrderUpdateMethod, OrderColumns
  <2> HIDE DEF old
  <2> QED
    BY <1>2, <2>1, <2>2, OrderFieldFor DEF OrderUpdateMethod
<1>3. CASE call.op = "where" /\ call.col = ""
  BY <1>3 DEF OrderUpdateSetter, ForOrder, MutationFields
<1>4. CASE call.op \in {"add", "remove", "clear"} /\ call.col = "items"
  BY <1>4, OrderItemsFor DEF OrderUpdateSetter
<1>5. CASE /\ call.op \in {"add", "clear"} /\ call.col # "items"
           /\ call.op = "add" => call.col \in OrderAmounts
           /\ call.op = "clear" => call.col = "error_message"
  <2>1. call.col \in OrderColumns
    BY <1>5 DEF OrderColumns, OrderAmounts
  <2> QED
    BY <1>5, <2>1, OrderFieldFor DEF OrderUpdateSetter
<1> QED
  BY <1>1, <1>2, <1>3, <1>4, <1>5 DEF OrderUpdateMethod, OrderAmounts

\* Of items too, given arguments of the columns' types.
LEMMA ItemUpdateFor ==
    ASSUME NEW m, ForItem(m), NEW call, IsCall(call), ItemUpdateMethod(call), ItemArgument(call)
    PROVE  ForItem(ItemUpdateSetter(m, call))
<1>1. CASE call.op = "set" /\ call.val = Nil
  BY <1>1 DEF ItemUpdateSetter, ItemUpdateMethod
<1>2. CASE call.op = "set" /\ call.val # Nil /\ call.col # "order"
  <2> DEFINE old == IF call.col \in ItemNumbers
                    THEN ItemNumber(m, [call EXCEPT !.op = "reset"]) ELSE m
  <2>0. [call EXCEPT !.op = "reset"].op = "reset" /\ [call EXCEPT !.op = "reset"].col = call.col
    BY DEF IsCall
  <2>1. ForItem(old)
    BY <2>0 DEF ItemNumber, ForItem, MutationFields, IsItemValue
  <2>2. ItemUpdateSetter(m, call) = ItemField(old, call)
    BY <1>2 DEF ItemUpdateSetter, ItemUpdateMethod
  <2> HIDE DEF old
  <2> QED
    BY <1>2, <2>1, <2>2, ItemFieldFor DEF ItemUpdateMethod, ItemArgument
<1>3. CASE call.op = "where" /\ call.col = ""
  BY <1>3 DEF ItemUpdateSetter, ForItem, MutationFields
<1>4. CASE call.op \in {"set", "clear"} /\ call.col = "order" /\ call.val # Nil
  BY <1>4, ItemOrderFor DEF ItemUpdateSetter
<1>5. CASE /\ call.op \in {"add", "clear"} /\ call.col # "order"
           /\ call.op = "add" => call.col \in ItemNumbers
           /\ call.op = "clear" => call.col \in ItemTexts
  <2>1. call.col \in ItemColumns
    BY <1>5 DEF ItemColumns, ItemNumbers, ItemTexts
  <2> QED
    BY <1>5, <2>1, ItemFieldFor DEF ItemUpdateSetter, ItemArgument
<1> QED
  BY <1>1, <1>2, <1>3, <1>4, <1>5 DEF ItemUpdateMethod, ItemColumns, ItemNumbers, ItemTexts

\* The setters of the builders of a creation.
LEMMA OrderCreateFor ==
    ASSUME NEW m, ForOrder(m), NEW call, OrderCreateMethod(call)
    PROVE  ForOrder(OrderCreateSetter(m, call))
<1>1. CASE call.op = "set" /\ call.col \in OrderColumns
  <2>1. OrderCreateSetter(m, call) = IF call.val = Nil THEN m ELSE OrderField(m, call)
    BY <1>1 DEF OrderCreateSetter, OrderColumns
  <2> QED
    BY <1>1, <2>1, OrderFieldFor
<1>2. CASE call.op = "setID" /\ call.col = "id"
  BY <1>2 DEF OrderCreateSetter, ForOrder, MutationFields
<1>3. CASE call.op = "add" /\ call.col = "items"
  BY <1>3, OrderItemsFor DEF OrderCreateSetter
<1> QED
  BY <1>1, <1>2, <1>3 DEF OrderCreateMethod

\* Of an item too, given arguments of the columns' types.
LEMMA ItemCreateFor ==
    ASSUME NEW m, ForItem(m), NEW call, ItemCreateMethod(call), ItemArgument(call)
    PROVE  ForItem(ItemCreateSetter(m, call))
<1>1. CASE call.op = "set" /\ call.val = Nil
  BY <1>1 DEF ItemCreateSetter, ItemCreateMethod
<1>2. CASE call.op = "set" /\ call.val # Nil /\ call.col = "order"
  BY <1>2, ItemOrderFor DEF ItemCreateSetter
<1>3. CASE call.op = "set" /\ call.val # Nil /\ call.col \in ItemColumns
  <2>1. call.col # "order"
    BY <1>3 DEF ItemColumns
  <2>2. ItemCreateSetter(m, call) = ItemField(m, call)
    BY <1>3, <2>1 DEF ItemCreateSetter
  <2> QED
    BY <1>3, <2>2, ItemFieldFor DEF ItemArgument
<1>4. CASE call.op = "setID" /\ call.col = "id"
  BY <1>4 DEF ItemCreateSetter, ForItem, MutationFields
<1> QED
  BY <1>1, <1>2, <1>3, <1>4 DEF ItemCreateMethod

\* The methods that take a column by name.
LEMMA NamedOrderFor ==
    ASSUME NEW m, ForOrder(m), NEW call, NamedMethod(call)
    PROVE  NamedOrder(m, call) = Nil \/ ForOrder(NamedOrder(m, call))
<1>1. call.col = "items" => OrderEdge(m, call) = Nil \/ ForOrder(OrderEdge(m, call))
  BY OrderItemsFor DEF OrderEdge
<1>2. call.op = "set" => OrderSetField(m, call) = Nil \/ ForOrder(OrderSetField(m, call))
  BY OrderFieldFor DEF OrderSetField
<1>3. call.op = "add" => OrderAddField(m, call) = Nil \/ ForOrder(OrderAddField(m, call))
  BY DEF OrderAddField, OrderAmount, ForOrder, MutationFields
<1>4. call.op = "clear" => OrderClearField(m, call) = Nil \/ ForOrder(OrderClearField(m, call))
  BY DEF OrderClearField, OrderErrorMessage, ForOrder, MutationFields
<1>5. call.op = "reset" => OrderResetField(m, call) = Nil \/ ForOrder(OrderResetField(m, call))
  BY OrderFieldFor DEF OrderResetField
<1> QED
  BY <1>1, <1>2, <1>3, <1>4, <1>5 DEF NamedOrder, NamedMethod

\* Of an item too: a value that is not of its column's type is refused.
LEMMA NamedItemFor ==
    ASSUME NEW m, ForItem(m), NEW call, NamedMethod(call), call.val # Mistyped => ItemArgument(call)
    PROVE  NamedItem(m, call) = Nil \/ ForItem(NamedItem(m, call))
<1>1. call.col = "order" => ItemEdge(m, call) = Nil \/ ForItem(ItemEdge(m, call))
  BY ItemOrderFor DEF ItemEdge
<1>2. call.op = "set" => ItemSetField(m, call) = Nil \/ ForItem(ItemSetField(m, call))
  BY ItemFieldFor DEF ItemSetField, ItemArgument
<1>3. call.op = "add" => ItemAddField(m, call) = Nil \/ ForItem(ItemAddField(m, call))
  <2> SUFFICES ASSUME call.op = "add", call.col \in ItemNumbers, call.val # Mistyped
               PROVE  ForItem(ItemNumber(m, call))
    BY DEF ItemAddField
  <2>1. call.val \in Int /\ call.col \in ItemColumns
    BY NumbersAreColumns DEF ItemArgument
  <2>2. ItemField(m, call) = ItemNumber(m, call)
    BY DEF ItemField, ItemNumbers, ItemTexts
  <2> QED
    BY <2>1, <2>2, ItemFieldFor
<1>4. call.op = "clear" => ItemClearField(m, call) = Nil \/ ForItem(ItemClearField(m, call))
  BY ItemFieldFor DEF ItemClearField, ItemColumns, ItemTexts
<1>5. call.op = "reset" => ItemResetField(m, call) = Nil \/ ForItem(ItemResetField(m, call))
  BY ItemFieldFor DEF ItemResetField
<1> QED
  BY <1>1, <1>2, <1>3, <1>4, <1>5 DEF NamedItem, NamedMethod

----------------------------------------------------------------------------
(***************************************************************************)
(* What a statement does to a database whose tables hold valid rows.       *)
(***************************************************************************)
ValidRow(t, row, addedTo) ==
    /\ t = "orders"      => ValidOrder(row, addedTo)
    /\ t = "order_items" => ValidItem(row, addedTo)

IsDatabase(d) == d = [t \in Tables |-> [id \in IDs[t] |-> d[t][id]]]

SoundDB(d, addedTo) ==
    /\ IsDatabase(d)
    /\ Constraints(d)
    /\ \A t \in Tables : \A id \in Present(d, t) : ValidRow(t, d[t][id], addedTo)

TheTables == Tables = {"orders", "order_items", "outbox_events"}

\* The three tables.
LEMMA TablesAre == TheTables
BY DEF TheTables, Tables, TableColumns

\* The table of items and its identifiers.
LEMMA ItemTable == "order_items" \in Tables /\ IDs["order_items"] = ItemIDs
BY TablesAre DEF TheTables, IDs

\* A row valid but for some columns is valid but for more.
LEMMA MoreAdded ==
    ASSUME NEW d, NEW s, NEW r, SoundDB(d, s), s \subseteq r
    PROVE  SoundDB(d, r)
<1> SUFFICES ASSUME NEW t, NEW row, ValidRow(t, row, s) PROVE ValidRow(t, row, r)
  BY DEF SoundDB
<1> QED
  BY DEF ValidRow, ValidOrder, ValidItem

\* A statement that gives one table a new content.
Written(d, t, f) == [d EXCEPT ![t] = f]

\* Executed, the table holds its new rows or, refused, its old ones; no other
\* table is touched.
LEMMA ExecuteIs ==
    ASSUME NEW d, NEW ad, SoundDB(d, ad), NEW t \in Tables, NEW f,
           f = [id \in IDs[t] |-> f[id]],
           \A id \in IDs[t] : f[id] # Nil => ValidRow(t, f[id], ad)
    PROVE  LET out == Execute(d, Written(d, t, f))
           IN  /\ SoundDB(out.db, ad)
               /\ \A u \in Tables \ {t} : out.db[u] = d[u]
<1> DEFINE out == Execute(d, Written(d, t, f))
           new == Written(d, t, f)
<1>1. CASE ~Constraints(new)
  <2>1. out.db = d
    BY <1>1 DEF Execute, Outcome
  <2> QED
    BY <2>1
<1>2. CASE Constraints(new)
  <2>1. out.db = new
    BY <1>2 DEF Execute, Outcome
  <2>2. new = [u \in Tables |-> IF u = t THEN f ELSE d[u]]
    BY DEF SoundDB, IsDatabase, Written
  <2> HIDE DEF new, out
  <2>3. IsDatabase(new)
    <3>1. \A u \in Tables : new[u] = [id \in IDs[u] |-> new[u][id]]
      BY <2>2 DEF SoundDB, IsDatabase
    <3>2. DOMAIN new = Tables /\ new = [u \in Tables |-> new[u]]
      BY <2>2
    <3>3. [u \in Tables |-> new[u]] = [u \in Tables |-> [id \in IDs[u] |-> new[u][id]]]
      BY <3>1
    <3> QED
      BY <3>2, <3>3 DEF IsDatabase
  <2>4. ASSUME NEW u \in Tables, NEW id \in Present(new, u)
        PROVE  ValidRow(u, new[u][id], ad)
    BY <2>2, <2>4 DEF Present, SoundDB
  <2>5. SoundDB(new, ad)
    BY <1>2, <2>3, <2>4 DEF SoundDB
  <2> QED
    BY <2>1, <2>2, <2>5 DEF out
<1> QED
  BY <1>1, <1>2

\* The row of a table.
LEMMA RowIs ==
    ASSUME NEW d, NEW ad, SoundDB(d, ad), NEW t \in Tables, NEW id \in IDs[t], d[t][id] # Nil
    PROVE  ValidRow(t, d[t][id], ad)
BY DEF SoundDB, Present

\* INSERT of one row.
LEMMA InsertIs ==
    ASSUME NEW d, NEW ad, SoundDB(d, ad), NEW t \in Tables, NEW id, NEW row, ValidRow(t, row, ad)
    PROVE  LET out == Insert(d, t, id, row)
           IN  /\ SoundDB(out.db, ad)
               /\ \A u \in Tables \ {t} : out.db[u] = d[u]
<1> DEFINE out == Insert(d, t, id, row)
           f   == [d[t] EXCEPT ![id] = row]
<1>1. CASE id \in Present(d, t)
  BY <1>1 DEF Insert, Outcome
<1>2. CASE id \notin Present(d, t)
  <2>1. out = Execute(d, Written(d, t, f))
    BY <1>2 DEF Insert, Written
  <2>2. d[t] = [i \in IDs[t] |-> d[t][i]]
    BY DEF SoundDB, IsDatabase
  <2>3. f = [i \in IDs[t] |-> IF i = id THEN row ELSE d[t][i]]
    BY <2>2
  <2> HIDE DEF f, out
  <2>4. f = [i \in IDs[t] |-> f[i]]
    BY <2>3
  <2>5. \A i \in IDs[t] : f[i] # Nil => ValidRow(t, f[i], ad)
    BY <2>3, RowIs
  <2>6. /\ SoundDB(Execute(d, Written(d, t, f)).db, ad)
        /\ \A u \in Tables \ {t} : Execute(d, Written(d, t, f)).db[u] = d[u]
    BY <2>4, <2>5, ExecuteIs
  <2> QED
    BY <2>1, <2>6 DEF out
<1> QED
  BY <1>1, <1>2

\* INSERT of several rows.
LEMMA InsertAllIs ==
    ASSUME NEW d, NEW ad, SoundDB(d, ad), NEW t \in Tables, NEW ids, NEW rows,
           \A k \in DOMAIN ids : ValidRow(t, rows[k], ad)
    PROVE  LET out == InsertAll(d, t, ids, rows)
           IN  /\ SoundDB(out.db, ad)
               /\ \A u \in Tables \ {t} : out.db[u] = d[u]
<1> DEFINE out == InsertAll(d, t, ids, rows)
           Place(id) == CHOOSE k \in DOMAIN ids : ids[k] = id
           f   == [id \in IDs[t] |-> IF \E k \in DOMAIN ids : ids[k] = id
                                     THEN rows[Place(id)] ELSE d[t][id]]
<1>1. \/ out = Outcome("sql", d)
      \/ out = Execute(d, [d EXCEPT ![t] = f])
  <2>1. [d EXCEPT ![t] = f] =
            [d EXCEPT ![t] = [id \in IDs[t] |->
                IF \E k \in DOMAIN ids : ids[k] = id
                THEN rows[CHOOSE k \in DOMAIN ids : ids[k] = id] ELSE @[id]]]
    OBVIOUS
  <2> QED
    BY <2>1 DEF InsertAll
<1>2. CASE out = Outcome("sql", d)
  BY <1>2 DEF Outcome
<1>3. CASE out = Execute(d, [d EXCEPT ![t] = f])
  <2>1. \A id \in IDs[t] : f[id] # Nil => ValidRow(t, f[id], ad)
    <3> SUFFICES ASSUME NEW id \in IDs[t], f[id] # Nil PROVE ValidRow(t, f[id], ad)
      OBVIOUS
    <3>1. CASE \E k \in DOMAIN ids : ids[k] = id
      <4>1. Place(id) \in DOMAIN ids /\ f[id] = rows[Place(id)]
        BY <3>1
      <4> QED
        BY <4>1
    <3>2. CASE ~\E k \in DOMAIN ids : ids[k] = id
      BY <3>2, RowIs
    <3> QED
      BY <3>1, <3>2
  <2>2. f = [id \in IDs[t] |-> f[id]]
    OBVIOUS
  <2> HIDE DEF f, out
  <2> QED
    BY <1>3, <2>1, <2>2, ExecuteIs DEF Written, out
<1> QED
  BY <1>1, <1>2, <1>3

\* DELETE, which the database refuses when it orphans an item.
LEMMA DeleteIs ==
    ASSUME NEW d, NEW ad, SoundDB(d, ad), NEW t \in Tables, NEW ids
    PROVE  LET out == Delete(d, t, ids)
           IN  /\ SoundDB(out.db, ad)
               /\ \A u \in Tables \ {t} : out.db[u] = d[u]
<1> DEFINE f == [id \in IDs[t] |-> IF id \in ids THEN Nil ELSE d[t][id]]
<1>1. Delete(d, t, ids) = Execute(d, Written(d, t, f))
  BY DEF Delete, Written
<1>2. f = [id \in IDs[t] |-> f[id]] /\ \A id \in IDs[t] : f[id] # Nil => ValidRow(t, f[id], ad)
  BY RowIs
<1> HIDE DEF f
<1> QED
  BY <1>1, <1>2, ExecuteIs

\* UPDATE, when what it makes of a valid row is valid.
LEMMA UpdateRowsIs ==
    ASSUME NEW d, NEW ad, SoundDB(d, ad), NEW t \in Tables, NEW ids, ids \subseteq Present(d, t), NEW spec,
           \A row : ValidRow(t, row, ad) => ValidRow(t, Assigned(row, spec), ad)
    PROVE  LET out == UpdateRows(d, t, ids, spec)
           IN  /\ SoundDB(out.db, ad)
               /\ \A u \in Tables \ {t} : out.db[u] = d[u]
<1> DEFINE out == UpdateRows(d, t, ids, spec)
           f   == [id \in IDs[t] |-> IF id \in ids THEN Assigned(d[t][id], spec) ELSE d[t][id]]
<1>1. out = Outcome("sql", d) \/ out = Execute(d, Written(d, t, f))
  BY DEF UpdateRows, Written
<1>2. CASE out = Outcome("sql", d)
  BY <1>2 DEF Outcome
<1>3. CASE out = Execute(d, Written(d, t, f))
  <2>1. \A id \in IDs[t] : f[id] # Nil => ValidRow(t, f[id], ad)
    <3> SUFFICES ASSUME NEW id \in IDs[t], f[id] # Nil PROVE ValidRow(t, f[id], ad)
      OBVIOUS
    <3>1. CASE id \in ids
      <4>1. d[t][id] # Nil
        BY <3>1 DEF Present
      <4> QED
        BY <3>1, <4>1, RowIs
    <3>2. CASE id \notin ids
      BY <3>2, RowIs
    <3> QED
      BY <3>1, <3>2
  <2>2. f = [id \in IDs[t] |-> f[id]]
    OBVIOUS
  <2> HIDE DEF f, out
  <2> QED
    BY <1>3, <2>1, <2>2, ExecuteIs DEF out
<1> QED
  BY <1>1, <1>2, <1>3

----------------------------------------------------------------------------
(***************************************************************************)
(* The statements of an order's edge.  The schema requires every item to   *)
(* have an order, so unlinking one is refused and none is free to link.    *)
(***************************************************************************)
\* An item that is there has an order.
LEMMA ItemsHaveOrders ==
    ASSUME NEW d, NEW ad, SoundDB(d, ad), NEW i \in Present(d, "order_items")
    PROVE  d.order_items[i].order_items \in OrderIDs /\ d.order_items[i].order_items # Nil
<1>1. d.order_items[i].order_items \in Present(d, "orders")
  BY DEF SoundDB, Constraints
<1>2. "order_items" \in TableColumns["order_items"] \ Nullable
  BY DEF TableColumns, Nullable
<1>3. d["order_items"][i]["order_items"] # Nil
  BY <1>2, ItemTable DEF SoundDB, Constraints
<1> QED
  BY <1>1, <1>3 DEF Present, IDs

\* Changing the order of no item changes nothing.
LEMMA NothingLinked ==
    ASSUME NEW d, NEW ad, SoundDB(d, ad), NEW o
    PROVE  WithOrder(d, {}, o) = d
<1>1. d.order_items = [i \in ItemIDs |-> d.order_items[i]]
  BY ItemTable DEF SoundDB, IsDatabase
<1>2. WithOrder(d, {}, o) = [d EXCEPT !.order_items = d.order_items]
  BY <1>1 DEF WithOrder
<1>3. d = [t \in DOMAIN d |-> d[t]]
  BY DEF SoundDB, IsDatabase
<1> QED
  BY <1>2, <1>3

\* A row of an item without its order is still a row.
LEMMA RowWithoutOrder ==
    ASSUME NEW row, NEW ad, ValidItem(row, ad)
    PROVE  [row EXCEPT !.order_items = Nil] # Nil
<1> DEFINE cols == ItemColumns \cup {"order_items"}
           vals == Int \cup STRING \cup OrderIDs \cup {Nil}
           r    == [row EXCEPT !.order_items = Nil]
<1>1. r \in [cols -> vals]
  <2>0. r = [c \in cols |-> r[c]]
    BY DEF ValidItem
  <2>1. ASSUME NEW c \in cols PROVE r[c] \in vals
    <3>1. CASE c = "order_items"
      BY <3>1 DEF ValidItem
    <3>2. CASE c # "order_items"
      <4>1. r[c] = row[c] /\ IsItemValue(c, row[c]) /\ c \in ItemColumns
        BY <3>2 DEF ValidItem
      <4>2. ItemType[c] = Int \/ ItemType[c] = STRING
        BY <4>1 DEF ItemType
      <4> QED
        BY <4>1, <4>2 DEF IsItemValue
    <3> QED
      BY <3>1, <3>2
  <2> QED
    BY <2>0, <2>1
<1> QED
  BY <1>1, NilAssumption DEF NilAssumption

\* Unlinking items is refused or there is nothing to unlink.
LEMMA UnlinkIs ==
    ASSUME NEW d, NEW ad, SoundDB(d, ad), NEW orders, NEW items
    PROVE  Unlink(d, orders, items).db = d
<1> DEFINE S   == ItemsOf(d, orders) \cap items
           new == WithOrder(d, S, Nil)
<1>1. Unlink(d, orders, items).db \in {d, new} /\ (Unlink(d, orders, items).db = d \/ Constraints(new))
  BY DEF Unlink, Execute, Outcome
<1>2. CASE S = {}
  <2>1. new = d
    BY <1>2, NothingLinked
  <2> QED
    BY <1>1, <2>1
<1>3. CASE S # {}
  <2>1. PICK i \in S : i \in Present(d, "order_items")
    BY <1>3 DEF ItemsOf
  <2>2. i \in ItemIDs /\ d.order_items[i] # Nil
    BY <2>1 DEF Present, IDs
  <2>3. ValidItem(d.order_items[i], ad)
    BY <2>2, ItemTable, RowIs DEF ValidRow
  <2>4. "order_items" \in DOMAIN d /\ "order_items" \in DOMAIN d.order_items[i]
    BY <2>3, ItemTable DEF ValidItem, SoundDB, IsDatabase
  <2>5. new.order_items[i] = [d.order_items[i] EXCEPT !.order_items = Nil]
    BY <2>1, <2>2, <2>4 DEF WithOrder
  <2> HIDE DEF new
  <2>6. new.order_items[i] # Nil /\ new.order_items[i].order_items = Nil
    BY <2>3, <2>4, <2>5, RowWithoutOrder
  <2>7. i \in Present(new, "order_items")
    BY <2>2, <2>6 DEF Present, IDs
  <2>8. "order_items" \in TableColumns["order_items"] \ Nullable
    BY DEF TableColumns, Nullable
  <2>9. ~Constraints(new)
    BY <2>6, <2>7, <2>8, ItemTable DEF Constraints
  <2> QED
    BY <1>1, <2>9
<1> QED
  BY <1>2, <1>3

\* No item is free, so linking one is an error of the client.
LEMMA LinkIs ==
    ASSUME NEW d, NEW ad, SoundDB(d, ad), NEW orders, NEW items
    PROVE  Link(d, orders, items).db = d
<1> DEFINE free == {i \in items \cap Present(d, "order_items") : d.order_items[i].order_items = Nil}
           o    == CHOOSE o \in orders : TRUE
<1>1. free = {}
  BY ItemsHaveOrders
<1>2. Execute(d, WithOrder(d, free, o)) = Outcome("none", d)
  BY <1>1, NothingLinked DEF Execute, SoundDB
<1> DEFINE end(e) == Outcome(IF free = items THEN "none" ELSE "link", e)
<1>3. \/ Link(d, orders, items) \in {Outcome("none", d), Outcome("link", d)}
      \/ Link(d, orders, items) = IF Execute(d, WithOrder(d, free, o)).err = "none"
                                  THEN end(Execute(d, WithOrder(d, free, o)).db)
                                  ELSE Execute(d, WithOrder(d, free, o))
  BY DEF Link, Then
<1> HIDE DEF free, o
<1> QED
  BY <1>2, <1>3 DEF Outcome

----------------------------------------------------------------------------
(***************************************************************************)
(* The saves.                                                              *)
(***************************************************************************)
\* What every save of an order leaves.
OrderLeaves(d, out, ad) == SoundDB(out.db, ad) /\ out.db.order_items = d.order_items

\* The columns an UPDATE assigns.
LEMMA AssignsAre ==
    ASSUME NEW spec
    PROVE  /\ Assigns(spec)[1] = {c \in DOMAIN spec.set : spec.set[c] # Nil}
           /\ Assigns(spec)[2] = {c \in DOMAIN spec.add : spec.add[c] # Nil}
           /\ Assigns(spec)[3] = spec.clear
BY DEF Assigns

\* A column of an updated row is set, added to, cleared or as it was.
LEMMA AssignedIs ==
    ASSUME NEW row, NEW spec
    PROVE  /\ DOMAIN Assigned(row, spec) = DOMAIN row
           /\ \A c \in DOMAIN row :
                 \/ c \in DOMAIN spec.set /\ spec.set[c] # Nil /\ Assigned(row, spec)[c] = spec.set[c]
                 \/ /\ c \in DOMAIN spec.add /\ spec.add[c] # Nil
                    /\ Assigned(row, spec)[c] = row[c] + spec.add[c]
                 \/ c \in spec.clear /\ Assigned(row, spec)[c] = Nil
                 \/ Assigned(row, spec)[c] = row[c]
<1>1. DOMAIN Assigned(row, spec) = DOMAIN row
  BY DEF Assigned
<1>2. ASSUME NEW c \in DOMAIN row
      PROVE  \/ c \in Assigns(spec)[1] /\ Assigned(row, spec)[c] = spec.set[c]
             \/ c \in Assigns(spec)[2] /\ Assigned(row, spec)[c] = row[c] + spec.add[c]
             \/ c \in Assigns(spec)[3] /\ Assigned(row, spec)[c] = Nil
             \/ Assigned(row, spec)[c] = row[c]
  <2>1. Assigned(row, spec)[c] = CASE c \in Assigns(spec)[1] -> spec.set[c]
                                   [] c \in Assigns(spec)[2] -> row[c] + spec.add[c]
                                   [] c \in Assigns(spec)[3] -> Nil
                                   [] OTHER -> row[c]
    BY DEF Assigned
  <2> QED
    BY <2>1
<1> QED
  BY <1>1, <1>2, AssignsAre

\* Validators see what an update of orders sets, and nothing else of it but
\* increments gets past them.
LEMMA OrderAssigned ==
    ASSUME NEW m, ForOrder(m), OrderUpdateCheck(m), NEW ad, OrderAddedFields(m) \subseteq ad,
           NEW row, ValidOrder(row, ad)
    PROVE  ValidOrder(Assigned(row, OrderUpdateSpec(m)), ad)
<1> DEFINE spec == OrderUpdateSpec(m)
           new  == Assigned(row, spec)
<1>1. /\ DOMAIN spec.set = OrderColumns \ {"created_at"} /\ spec.add = m.add /\ spec.clear = m.cleared
      /\ \A c \in DOMAIN spec.set : spec.set[c] = m.set[c]
  BY DEF OrderUpdateSpec, UpdateSpec
<1> HIDE DEF spec
<1>2. ASSUME NEW c \in OrderColumns \ ad, c # "error_message"
      PROVE  OrderValid(c, new[c])
  <2>1. \/ c \in DOMAIN spec.set /\ spec.set[c] # Nil /\ new[c] = spec.set[c]
        \/ c \in DOMAIN spec.add /\ spec.add[c] # Nil
        \/ c \in spec.clear
        \/ new[c] = row[c]
    BY AssignedIs DEF ValidOrder
  <2>2. ~(c \in DOMAIN spec.add /\ spec.add[c] # Nil)
    BY <1>1, <1>2 DEF ForOrder, OrderAddedFields
  <2>3. c \notin spec.clear
    BY <1>1, <1>2 DEF ForOrder
  <2>4. c \in DOMAIN spec.set /\ spec.set[c] # Nil => OrderValid(c, spec.set[c])
    BY <1>1 DEF ForOrder, OrderUpdateCheck, OrderFields, SetColumns
  <2>5. OrderValid(c, row[c])
    BY <1>2 DEF ValidOrder
  <2> HIDE DEF new
  <2> QED
    BY <2>1, <2>2, <2>3, <2>4, <2>5
<1> QED
  BY <1>2, AssignedIs DEF ValidOrder, spec

\* The statements of an update of orders: one UPDATE that counts, and two that
\* change nothing.
LEMMA OrderStatementsLeave ==
    ASSUME NEW d, NEW ad, SoundDB(d, ad), NEW m, ForOrder(m), OrderUpdateCheck(m),
           OrderAddedFields(m) \subseteq ad, NEW ids, ids \subseteq Present(d, "orders")
    PROVE  OrderLeaves(d, OrderUpdateStatements(d, m, ids), ad)
<1> DEFINE first == UpdateRows(d, "orders", ids, OrderUpdateSpec(m))
           e     == first.db
           second == Unlink(e, ids, IF m.edgeCleared THEN ItemIDs ELSE m.removed)
<1>1. OrderLeaves(d, first, ad)
  <2>1. \A row : ValidRow("orders", row, ad) =>
                    ValidRow("orders", Assigned(row, OrderUpdateSpec(m)), ad)
    BY OrderAssigned DEF ValidRow
  <2> QED
    BY <2>1, TablesAre, UpdateRowsIs DEF TheTables, OrderLeaves
<1>2. second.db = e
  BY <1>1, UnlinkIs DEF OrderLeaves
<1>3. Link(second.db, ids, m.edges).db = e
  BY <1>1, <1>2, LinkIs DEF OrderLeaves
<1>4. OrderUpdateStatements(d, m, ids) \in {first, second, Link(second.db, ids, m.edges)}
  BY DEF OrderUpdateStatements, Then
<1> HIDE DEF first, second
<1>5. OrderUpdateStatements(d, m, ids).db = e
  BY <1>2, <1>3, <1>4
<1> QED
  BY <1>1, <1>5 DEF OrderLeaves

\* Save of OrderUpdate and OrderUpdateOne.
LEMMA OrderUpdatesLeave ==
    ASSUME NEW d, NEW ad, SoundDB(d, ad), NEW m, ForOrder(m), OrderAddedFields(m) \subseteq ad
    PROVE  OrderLeaves(d, OrderUpdateSave(d, m), ad) /\ OrderLeaves(d, OrderUpdateOneSave(d, m), ad)
<1>1. \A err : OrderLeaves(d, Outcome(err, d), ad)
  BY DEF OrderLeaves, Outcome
<1>2. OrdersWhere(d, m.where) \subseteq Present(d, "orders")
  BY DEF OrdersWhere
<1>3. ASSUME NEW ids, ids \subseteq Present(d, "orders"), OrderUpdateCheck(m)
      PROVE  OrderLeaves(d, OrderUpdateStatements(d, m, ids), ad)
  BY <1>3, OrderStatementsLeave
<1>4. OrderUpdateOneCheck(m) <=> OrderUpdateCheck(m)
  BY DEF OrderUpdateOneCheck, OrderUpdateCheck
<1>5. OrderLeaves(d, OrderUpdateSave(d, m), ad)
  BY <1>1, <1>2, <1>3 DEF OrderUpdateSave
<1>6. OrderLeaves(d, OrderUpdateOneSave(d, m), ad)
  BY <1>1, <1>2, <1>3, <1>4 DEF OrderUpdateOneSave
<1> QED
  BY <1>5, <1>6

\* Exec of OrderDeleteOne.
LEMMA OrderDeleteLeaves ==
    ASSUME NEW d, NEW ad, SoundDB(d, ad), NEW m
    PROVE  OrderLeaves(d, OrderDeleteOneExec(d, m), ad)
<1>1. OrderLeaves(d, Outcome("not_found", d), ad)
  BY DEF OrderLeaves, Outcome
<1>2. OrderLeaves(d, Delete(d, "orders", OrdersWhere(d, m.where)), ad)
  BY TablesAre, DeleteIs DEF TheTables, OrderLeaves
<1> QED
  BY <1>1, <1>2 DEF OrderDeleteOneExec, OrderDeleteExec

\* A row that is created has been checked in full.
LEMMA OrderCreated ==
    ASSUME NEW m, ForOrder(m), OrderCreateCheck(m), NEW ad
    PROVE  ValidRow("orders", OrderCreateSpec(m), ad)
BY DEF ForOrder, OrderCreateCheck, OrderCreateSpec, ValidRow, ValidOrder

\* Save of OrderCreate.
LEMMA OrderCreateLeaves ==
    ASSUME NEW d, NEW ad, SoundDB(d, ad), NEW m, ForOrder(m)
    PROVE  OrderLeaves(d, OrderCreateSave(d, m), ad)
<1> DEFINE first == Insert(d, "orders", m.id, OrderCreateSpec(m))
<1>1. CASE ~OrderCreateCheck(m)
  BY <1>1 DEF OrderCreateSave, Outcome, OrderLeaves
<1>2. CASE OrderCreateCheck(m)
  <2>1. OrderLeaves(d, first, ad)
    BY <1>2, OrderCreated, TablesAre, InsertIs DEF TheTables, OrderLeaves
  <2>2. Link(first.db, {m.id}, m.edges).db = first.db
    BY <2>1, LinkIs DEF OrderLeaves
  <2>3. OrderCreateSave(d, m) \in {first, Link(first.db, {m.id}, m.edges)}
    BY <1>2 DEF OrderCreateSave, Then
  <2> HIDE DEF first
  <2> QED
    BY <2>1, <2>2, <2>3 DEF OrderLeaves
<1> QED
  BY <1>1, <1>2

----------------------------------------------------------------------------
\* Items: numbers stay numbers, and increments are what the validators miss.
LEMMA ItemAssigned ==
    ASSUME NEW m, ForItem(m), \A c \in ItemFields(m) : ItemValid(c, m.set[c]),
           NEW ad, ItemAddedFields(m) \subseteq ad, NEW row, ValidItem(row, ad)
    PROVE  ValidItem(Assigned(row, ItemUpdateSpec(m)), ad)
<1> DEFINE spec == ItemUpdateSpec(m)
           new  == Assigned(row, spec)
<1>0. "order_items" \notin ItemColumns
  BY DEF ItemColumns
<1>1. /\ DOMAIN spec.set = (ItemColumns \ {"created_at"}) \cup {"order_items"} /\ spec.add = m.add
      /\ \A c \in ItemColumns : c \in spec.clear <=> c \in m.cleared
      /\ \A c \in ItemColumns \ {"created_at"} : spec.set[c] = m.set[c]
  BY <1>0 DEF ItemUpdateSpec, UpdateSpec
<1> HIDE DEF spec
<1>2. DOMAIN new = ItemColumns \cup {"order_items"}
  BY AssignedIs DEF ValidItem
<1>3. ASSUME NEW c \in ItemColumns
      PROVE  \/ m.set[c] # Nil /\ new[c] = m.set[c]
             \/ c \in ItemNumbers /\ m.add[c] # Nil /\ new[c] = row[c] + m.add[c]
             \/ c \in ItemTexts /\ new[c] = Nil
             \/ new[c] = row[c]
  <2>1. \/ c \in DOMAIN spec.set /\ spec.set[c] # Nil /\ new[c] = spec.set[c]
        \/ c \in DOMAIN spec.add /\ spec.add[c] # Nil /\ new[c] = row[c] + spec.add[c]
        \/ c \in spec.clear /\ new[c] = Nil
        \/ new[c] = row[c]
    BY AssignedIs DEF ValidItem
  <2> HIDE DEF new
  <2> QED
    BY <1>0, <1>1, <2>1 DEF ForItem
<1> HIDE DEF new
<1>4. ASSUME NEW c \in ItemColumns PROVE IsItemValue(c, new[c])
  <2>1. IsItemValue(c, row[c]) /\ IsItemValue(c, m.set[c]) /\ IsItemValue(c, Nil)
    BY DEF ValidItem, ForItem, IsItemValue
  <2>2. ASSUME c \in ItemNumbers, m.add[c] # Nil, new[c] = row[c] + m.add[c]
        PROVE  IsItemValue(c, new[c])
    <3>1. ItemType[c] = Int /\ m.add[c] \in Int
      BY <2>2 DEF ItemType, ForItem
    <3>2. row[c] \in Int
      BY <2>1, <2>2, <3>1 DEF IsItemValue, ValidItem
    <3> QED
      BY <2>2, <3>1, <3>2 DEF IsItemValue
  <2> QED
    BY <1>3, <2>1, <2>2
<1>5. ASSUME NEW c \in ItemColumns, new[c] = Nil PROVE c \notin ItemNumbers
  <2>1. ASSUME c \in ItemNumbers, m.add[c] # Nil, new[c] = row[c] + m.add[c] PROVE FALSE
    <3>1. ItemType[c] = Int /\ m.add[c] \in Int
      BY <2>1 DEF ItemType, ForItem
    <3>2. row[c] \in Int
      BY <2>1, <3>1 DEF IsItemValue, ValidItem
    <3>3. new[c] \in Int
      BY <2>1, <3>1, <3>2
    <3> QED
      BY <1>5, <3>3, NilAssumption DEF NilAssumption
  <2> QED
    BY <1>3, <1>5, <2>1 DEF ValidItem, ItemTexts, ItemNumbers
<1>6. ASSUME NEW c \in ItemColumns \ ad, c \notin Nullable PROVE ItemValid(c, new[c])
  <2>1. m.set[c] # Nil => ItemValid(c, m.set[c])
    BY DEF ForItem, ItemFields, SetColumns
  <2>2. ~(c \in ItemNumbers /\ m.add[c] # Nil) /\ c \notin ItemTexts
    BY <1>6 DEF ItemAddedFields, ItemTexts, Nullable
  <2>3. ItemValid(c, row[c])
    BY <1>6 DEF ValidItem
  <2> QED
    BY <1>3, <2>1, <2>2, <2>3
<1> QED
  BY <1>2, <1>4, <1>5, <1>6 DEF ValidItem, new, spec

\* Save of OrderItemUpdate and OrderItemUpdateOne.
LEMMA ItemUpdatesLeave ==
    ASSUME NEW d, NEW ad, SoundDB(d, ad), NEW m, ForItem(m), ItemAddedFields(m) \subseteq ad
    PROVE  SoundDB(ItemUpdateSave(d, m).db, ad) /\ SoundDB(ItemUpdateOneSave(d, m).db, ad)
<1>1. \A err : Outcome(err, d).db = d
  BY DEF Outcome
<1>2. ItemsWhere(d, m.where) \subseteq Present(d, "order_items")
  BY DEF ItemsWhere
<1>3. ASSUME NEW ids, ids \subseteq Present(d, "order_items"),
             \A c \in ItemFields(m) : ItemValid(c, m.set[c])
      PROVE  SoundDB(UpdateRows(d, "order_items", ids, ItemUpdateSpec(m)).db, ad)
  <2>1. \A row : ValidRow("order_items", row, ad) =>
                    ValidRow("order_items", Assigned(row, ItemUpdateSpec(m)), ad)
    BY <1>3, ItemAssigned DEF ValidRow
  <2> QED
    BY <1>3, <2>1, ItemTable, UpdateRowsIs
<1>4. SoundDB(ItemUpdateSave(d, m).db, ad)
  BY <1>1, <1>2, <1>3 DEF ItemUpdateSave, ItemUpdateCheck
<1>5. SoundDB(ItemUpdateOneSave(d, m).db, ad)
  BY <1>1, <1>2, <1>3 DEF ItemUpdateOneSave, ItemUpdateOneCheck
<1> QED
  BY <1>4, <1>5

\* Exec of OrderItemDeleteOne.
LEMMA ItemDeleteLeaves ==
    ASSUME NEW d, NEW ad, SoundDB(d, ad), NEW m
    PROVE  SoundDB(ItemDeleteOneExec(d, m).db, ad)
<1>1. \A err : Outcome(err, d).db = d
  BY DEF Outcome
<1>2. SoundDB(Delete(d, "order_items", ItemsWhere(d, m.where)).db, ad)
  BY ItemTable, DeleteIs
<1> QED
  BY <1>1, <1>2 DEF ItemDeleteOneExec, ItemDeleteExec

\* An item that is created has been checked in full.
LEMMA ItemCreated ==
    ASSUME NEW m, ForItem(m), ItemCreateCheck(m), NEW ad
    PROVE  ValidRow("order_items", ItemCreateSpec(m), ad)
<1> DEFINE row == ItemCreateSpec(m)
<1>0. "order_items" \notin ItemColumns
  BY DEF ItemColumns
<1>1. DOMAIN row = ItemColumns \cup {"order_items"} /\ \A c \in ItemColumns : row[c] = m.set[c]
  BY <1>0 DEF ItemCreateSpec
<1>2. \A c \in ItemColumns \ ItemTexts : m.set[c] # Nil /\ ItemValid(c, m.set[c])
  BY DEF ItemCreateCheck
<1> HIDE DEF row
<1>3. ValidItem(row, ad)
  BY <1>1, <1>2 DEF ValidItem, ForItem, ItemTexts, ItemNumbers, Nullable
<1> QED
  BY <1>3 DEF ValidRow, row

\* Save of OrderItemCreate.
LEMMA ItemCreateLeaves ==
    ASSUME NEW d, NEW ad, SoundDB(d, ad), NEW m, ForItem(m)
    PROVE  SoundDB(ItemCreateSave(d, m).db, ad)
<1>1. CASE ~ItemCreateCheck(m)
  BY <1>1 DEF ItemCreateSave, Outcome
<1>2. CASE ItemCreateCheck(m)
  <2>1. ItemCreateSave(d, m) = Insert(d, "order_items", m.id, ItemCreateSpec(m))
    BY <1>2 DEF ItemCreateSave
  <2> QED
    BY <1>2, <2>1, ItemCreated, ItemTable, InsertIs
<1> QED
  BY <1>1, <1>2

\* Save of OrderItemCreateBulk.
LEMMA ItemBulkLeaves ==
    ASSUME NEW d, NEW ad, SoundDB(d, ad), NEW ms, \A k \in DOMAIN ms : ForItem(ms[k])
    PROVE  SoundDB(ItemCreateBulkSave(d, ms).db, ad)
<1> DEFINE ids  == [k \in DOMAIN ms |-> ms[k].id]
           rows == [k \in DOMAIN ms |-> ItemCreateSpec(ms[k])]
<1>1. CASE \E n \in DOMAIN ms : ~ItemCreateCheck(ms[n])
  BY <1>1 DEF ItemCreateBulkSave, Outcome
<1>2. CASE \A n \in DOMAIN ms : ItemCreateCheck(ms[n])
  <2>1. \A k \in DOMAIN ids : ValidRow("order_items", rows[k], ad)
    BY <1>2, ItemCreated
  <2>2. ItemCreateBulkSave(d, ms) = InsertAll(d, "order_items", ids, rows)
    BY <1>2 DEF ItemCreateBulkSave
  <2> HIDE DEF ids, rows
  <2> QED
    BY <2>1, <2>2, ItemTable, InsertAllIs
<1> QED
  BY <1>1, <1>2

----------------------------------------------------------------------------
\* Events are in a table of their own.
LEMMA EventSavesLeave ==
    ASSUME NEW d, NEW ad, SoundDB(d, ad), NEW m, NEW ms
    PROVE  /\ SoundDB(EventCreateSave(d, m).db, ad) /\ SoundDB(EventCreateBulkSave(d, ms).db, ad)
           /\ SoundDB(EventUpdateSave(d, m).db, ad) /\ SoundDB(EventUpdateOneSave(d, m).db, ad)
           /\ SoundDB(EventDeleteOneExec(d, m).db, ad)
<1>0. \A row : ValidRow("outbox_events", row, ad)
  BY DEF ValidRow
<1>1. \A err : Outcome(err, d).db = d
  BY DEF Outcome
<1>2. "outbox_events" \in Tables
  BY TablesAre DEF TheTables
<1>3. \A id, row : SoundDB(Insert(d, "outbox_events", id, row).db, ad)
  BY <1>0, <1>2, InsertIs
<1>4. \A ids, rows : SoundDB(InsertAll(d, "outbox_events", ids, rows).db, ad)
  BY <1>0, <1>2, InsertAllIs
<1>5. \A ids, spec : ids \subseteq Present(d, "outbox_events") =>
                       SoundDB(UpdateRows(d, "outbox_events", ids, spec).db, ad)
  BY <1>0, <1>2, UpdateRowsIs
<1>6. \A ids : SoundDB(Delete(d, "outbox_events", ids).db, ad)
  BY <1>2, DeleteIs
<1>7. EventsWhere(d, m.where) \subseteq Present(d, "outbox_events")
  BY DEF EventsWhere
<1>8. SoundDB(EventCreateSave(d, m).db, ad)
  BY <1>1, <1>3 DEF EventCreateSave
<1>9. SoundDB(EventCreateBulkSave(d, ms).db, ad)
  BY <1>1, <1>4 DEF EventCreateBulkSave
<1>10. SoundDB(EventUpdateSave(d, m).db, ad)
  BY <1>5, <1>7 DEF EventUpdateSave
<1>11. SoundDB(EventUpdateOneSave(d, m).db, ad)
  BY <1>1, <1>5, <1>7 DEF EventUpdateOneSave
<1>12. SoundDB(EventDeleteOneExec(d, m).db, ad)
  BY <1>1, <1>6 DEF EventDeleteOneExec, EventDeleteExec
<1> QED
  BY <1>8, <1>9, <1>10, <1>11, <1>12

----------------------------------------------------------------------------
(***************************************************************************)
(* A CreateBulk links row after row, and a creation is prepared call after *)
(* call: induction over the rows and over the calls.                       *)
(***************************************************************************)
LEMMA NatInduct ==
    ASSUME NEW P \in SUBSET Nat, 0 \in P, \A n \in P : n + 1 \in P
    PROVE  P = Nat
<1> DEFINE Less == {ss \in Nat \X Nat : ss[1] < ss[2]}
           T    == Nat \ P
<1>1. IsWellFoundedOn(Less, Nat)
  BY NatLessThanWellFounded DEF OpToRel
<1> HIDE DEF Less
<1> SUFFICES ASSUME T # {} PROVE FALSE
  OBVIOUS
<1>2. T \subseteq Nat
  OBVIOUS
<1> HIDE DEF T
<1>3. PICK i \in T : \A j \in T : ~(<<j, i>> \in Less)
  BY <1>1, <1>2, WFMin
<1>4. i # 0 /\ i \in Nat /\ i - 1 \in Nat
  BY <1>2 DEF T
<1>5. <<i - 1, i>> \in Less
  BY <1>4 DEF Less
<1>6. i - 1 \in P
  BY <1>3, <1>4, <1>5 DEF T
<1>7. (i - 1) + 1 \in P
  BY <1>6
<1> QED
  BY <1>4, <1>7 DEF T

\* The outcome after the n-th row is linked, by the outcomes before.
Linking(ms, first, f, n) ==
    IF n = 0 THEN first ELSE Then(f[n - 1], LAMBDA d : Link(d, {ms[n].id}, ms[n].edges))

\* There is such a list of outcomes.
LEMMA LinkingExists ==
    ASSUME NEW ms, NEW first, NEW N \in Nat
    PROVE  \E f : f = [n \in 0..N |-> Linking(ms, first, f, n)]
<1> DEFINE P == {k \in Nat : \E f : f = [n \in 0..k |-> Linking(ms, first, f, n)]}
<1>1. 0 \in P
  <2> DEFINE f == [n \in 0..0 |-> first]
  <2>1. f = [n \in 0..0 |-> Linking(ms, first, f, n)]
    BY DEF Linking
  <2> QED
    BY <2>1
<1>2. ASSUME NEW k \in P PROVE k + 1 \in P
  <2>1. PICK f : f = [n \in 0..k |-> Linking(ms, first, f, n)]
    OBVIOUS
  <2> DEFINE g == [n \in 0..k + 1 |-> IF n = k + 1 THEN Linking(ms, first, f, n) ELSE f[n]]
  <2>2. k \in Nat
    OBVIOUS
  <2>3. ASSUME NEW n \in 0..k + 1 PROVE g[n] = Linking(ms, first, g, n)
    <3>1. n = 0 \/ g[n - 1] = f[n - 1]
      BY <2>2
    <3> HIDE DEF g
    <3>2. Linking(ms, first, g, n) = Linking(ms, first, f, n)
      BY <3>1 DEF Linking
    <3> USE DEF g
    <3>3. g[n] = Linking(ms, first, f, n)
      BY <2>1, <2>2
    <3> QED
      BY <3>2, <3>3
  <2>4. g = [n \in 0..k + 1 |-> Linking(ms, first, g, n)]
    BY <2>3
  <2> HIDE DEF g
  <2> QED
    BY <2>2, <2>4
<1>3. P = Nat
  <2> HIDE DEF P
  <2>1. P \in SUBSET Nat
    BY DEF P
  <2> QED
    BY <1>1, <1>2, <2>1, NatInduct
<1> QED
  BY <1>3

\* No row is linked: the database stays what the insertion left.
LEMMA LinkingIs ==
    ASSUME NEW ms, NEW first, NEW ad, SoundDB(first.db, ad), NEW N \in Nat, NEW f,
           f = [n \in 0..N |-> Linking(ms, first, f, n)]
    PROVE  f[N].db = first.db
<1> DEFINE P == {n \in Nat : n <= N => f[n].db = first.db}
<1>1. 0 \in P
  BY DEF Linking
<1>2. ASSUME NEW n \in P PROVE n + 1 \in P
  <2> SUFFICES ASSUME n + 1 <= N PROVE f[n + 1].db = first.db
    OBVIOUS
  <2>1. f[n].db = first.db /\ (n + 1) - 1 = n /\ n + 1 # 0 /\ n + 1 \in 0..N
    OBVIOUS
  <2>2. f[n + 1] = Linking(ms, first, f, n + 1)
    BY <2>1
  <2> DEFINE next == Link(f[n].db, {ms[n + 1].id}, ms[n + 1].edges)
  <2>3. f[n + 1] \in {f[n], next}
    BY <2>1, <2>2 DEF Linking, Then
  <2>4. next.db = first.db
    BY <2>1, LinkIs
  <2> HIDE DEF next
  <2> QED
    BY <2>1, <2>3, <2>4
<1>3. P = Nat
  <2> HIDE DEF P
  <2>1. P \in SUBSET Nat
    BY DEF P
  <2> QED
    BY <1>1, <1>2, <2>1, NatInduct
<1>4. N \in P
  BY <1>3
<1> QED
  BY <1>4

\* Save of OrderCreateBulk.
LEMMA OrderBulkLeaves ==
    ASSUME NEW d, NEW ad, SoundDB(d, ad), NEW ms, Len(ms) \in Nat, \A k \in DOMAIN ms : ForOrder(ms[k])
    PROVE  OrderLeaves(d, OrderCreateBulkSave(d, ms), ad)
<1> DEFINE ids   == [k \in DOMAIN ms |-> ms[k].id]
           rows  == [k \in DOMAIN ms |-> OrderCreateSpec(ms[k])]
           first == InsertAll(d, "orders", ids, rows)
           f     == CHOOSE f : f = [n \in 0..Len(ms) |-> Linking(ms, first, f, n)]
<1>1. CASE \E n \in DOMAIN ms : ~OrderCreateCheck(ms[n])
  BY <1>1 DEF OrderCreateBulkSave, Outcome, OrderLeaves
<1>2. CASE \A n \in DOMAIN ms : OrderCreateCheck(ms[n])
  <2>1. \A k \in DOMAIN ids : ValidRow("orders", rows[k], ad)
    BY <1>2, OrderCreated
  <2>2. OrderLeaves(d, first, ad)
    <3> HIDE DEF ids, rows
    <3> QED
      BY <2>1, TablesAre, InsertAllIs DEF TheTables, OrderLeaves
  <2>3. OrderCreateBulkSave(d, ms) = f[Len(ms)]
    BY <1>2 DEF OrderCreateBulkSave, Linking
  <2> HIDE DEF first
  <2>4. f = [n \in 0..Len(ms) |-> Linking(ms, first, f, n)]
    BY LinkingExists
  <2> HIDE DEF f
  <2>5. f[Len(ms)].db = first.db
    BY <2>2, <2>4, LinkingIs DEF OrderLeaves
  <2> QED
    BY <2>2, <2>3, <2>5 DEF OrderLeaves
<1> QED
  BY <1>1, <1>2

----------------------------------------------------------------------------
\* The mutation of an order or an item; an event's has no validators.
ForEntity(ent, m) == (ent = "order" => ForOrder(m)) /\ (ent = "item" => ForItem(m))

\* A method of a creation, with arguments of their types.
CreationCall(ent, call) ==
    /\ ent = "order" => OrderCreateMethod(call)
    /\ ent = "item"  => ItemCreateMethod(call) /\ ItemArgument(call)

CreateSetter(ent, m, call) ==
    CASE ent = "order" -> OrderCreateSetter(m, call)
      [] ent = "item"  -> ItemCreateSetter(m, call)
      [] ent = "event" -> EventCreateSetter(m, call)

\* Setting a column of a creation.
LEMMA CreateSetterFor ==
    ASSUME NEW ent \in Entities, NEW m, ForEntity(ent, m), NEW call, CreationCall(ent, call)
    PROVE  ForEntity(ent, CreateSetter(ent, m, call))
BY OrderCreateFor, ItemCreateFor DEF ForEntity, CreationCall, CreateSetter, Entities, TableOf

\* The mutation after the n-th call.
Preparing(builder, calls, f, n) ==
    IF n = 0 THEN builder.ms[1] ELSE CreateSetter(builder.ent, f[n - 1], calls[n])

\* There is such a list of mutations.
LEMMA PreparingExists ==
    ASSUME NEW builder, NEW calls, NEW N \in Nat
    PROVE  \E f : f = [n \in 0..N |-> Preparing(builder, calls, f, n)]
<1> DEFINE P == {k \in Nat : \E f : f = [n \in 0..k |-> Preparing(builder, calls, f, n)]}
<1>1. 0 \in P
  <2> DEFINE f == [n \in 0..0 |-> builder.ms[1]]
  <2>1. f = [n \in 0..0 |-> Preparing(builder, calls, f, n)]
    BY DEF Preparing
  <2> QED
    BY <2>1
<1>2. ASSUME NEW k \in P PROVE k + 1 \in P
  <2>1. PICK f : f = [n \in 0..k |-> Preparing(builder, calls, f, n)]
    OBVIOUS
  <2> DEFINE g == [n \in 0..k + 1 |-> IF n = k + 1 THEN Preparing(builder, calls, f, n) ELSE f[n]]
  <2>2. k \in Nat
    OBVIOUS
  <2>3. ASSUME NEW n \in 0..k + 1 PROVE g[n] = Preparing(builder, calls, g, n)
    <3>1. n = 0 \/ g[n - 1] = f[n - 1]
      BY <2>2
    <3> HIDE DEF g
    <3>2. Preparing(builder, calls, g, n) = Preparing(builder, calls, f, n)
      BY <3>1 DEF Preparing
    <3> USE DEF g
    <3>3. g[n] = Preparing(builder, calls, f, n)
      BY <2>1, <2>2
    <3> QED
      BY <3>2, <3>3
  <2>4. g = [n \in 0..k + 1 |-> Preparing(builder, calls, g, n)]
    BY <2>3
  <2> HIDE DEF g
  <2> QED
    BY <2>2, <2>4
<1>3. P = Nat
  <2> HIDE DEF P
  <2>1. P \in SUBSET Nat
    BY DEF P
  <2> QED
    BY <1>1, <1>2, <2>1, NatInduct
<1> QED
  BY <1>3

\* A prepared builder holds one mutation, for its table.
LEMMA PreparedFor ==
    ASSUME NEW builder, {"ent", "ms", "calls", "start"} \subseteq DOMAIN builder,
           builder.ent \in Entities, ForEntity(builder.ent, builder.ms[1]),
           NEW S, NEW calls \in Seq(S), \A call \in S : CreationCall(builder.ent, call)
    PROVE  \E m : Prepared(builder, calls).ms = <<m>> /\ ForEntity(builder.ent, m)
<1> DEFINE f == CHOOSE f : f = [n \in 0..Len(calls) |-> Preparing(builder, calls, f, n)]
           P == {n \in Nat : n <= Len(calls) => ForEntity(builder.ent, f[n])}
<1> DEFINE N == Len(calls)
<1>0. N \in Nat
  OBVIOUS
<1>1. f = [n \in 0..Len(calls) |-> Preparing(builder, calls, f, n)]
  <2>1. \E g : g = [n \in 0..N |-> Preparing(builder, calls, g, n)]
    <3> HIDE DEF N
    <3> QED
      BY <1>0, PreparingExists
  <2> QED
    BY <2>1
<1>2. Prepared(builder, calls).ms = <<f[Len(calls)]>>
  BY DEF Prepared, Preparing, CreateSetter
<1> HIDE DEF f
<1>3. 0 \in P
  BY <1>1 DEF Preparing
<1>4. ASSUME NEW n \in P PROVE n + 1 \in P
  <2> SUFFICES ASSUME n + 1 <= Len(calls) PROVE ForEntity(builder.ent, f[n + 1])
    OBVIOUS
  <2>1. ForEntity(builder.ent, f[n]) /\ (n + 1) - 1 = n /\ n + 1 # 0 /\ n + 1 \in 0..Len(calls)
    OBVIOUS
  <2>2. calls[n + 1] \in S
    BY <2>1
  <2>3. f[n + 1] = CreateSetter(builder.ent, f[n], calls[n + 1])
    BY <1>1, <2>1 DEF Preparing
  <2> QED
    BY <2>1, <2>2, <2>3, CreateSetterFor
<1>5. P = Nat
  <2> HIDE DEF P
  <2>1. P \in SUBSET Nat
    BY DEF P
  <2> QED
    BY <1>3, <1>4, <2>1, NatInduct
<1>6. Len(calls) \in P
  BY <1>5
<1> QED
  BY <1>2, <1>6

----------------------------------------------------------------------------
(***************************************************************************)
(* The tables hold valid rows, and so do the mutations that will be saved. *)
(***************************************************************************)
\* The mutations of a builder.
MutationsFor(ent, ms) == \E S : ms \in Seq(S) /\ Len(ms) > 0 /\ \A m \in S : ForEntity(ent, m)

\* Each of them is one of the builder's table, and there is at least one.
LEMMA MutationsAre ==
    ASSUME NEW ent, NEW ms, MutationsFor(ent, ms)
    PROVE  /\ Len(ms) \in Nat \ {0} /\ DOMAIN ms = 1..Len(ms)
           /\ \A k \in DOMAIN ms : ForEntity(ent, ms[k])
<1>1. PICK S : ms \in Seq(S) /\ Len(ms) > 0 /\ \A m \in S : ForEntity(ent, m)
  BY DEF MutationsFor
<1>2. Len(ms) \in Nat \ {0} /\ DOMAIN ms = 1..Len(ms)
  BY <1>1, LenProperties
<1>3. ASSUME NEW k \in DOMAIN ms PROVE ms[k] \in S
  BY <1>1, <1>2
<1> QED
  BY <1>1, <1>2, <1>3

\* A list of such mutations.
LEMMA MutationsMade ==
    ASSUME NEW ent, NEW n \in Nat \ {0}, NEW f, f = [k \in 1..n |-> f[k]],
           \A k \in 1..n : ForEntity(ent, f[k])
    PROVE  MutationsFor(ent, f)
<1> DEFINE S == {f[k] : k \in 1..n}
<1>1. f \in [1..n -> S]
  OBVIOUS
<1>2. \A m \in S : ForEntity(ent, m)
  OBVIOUS
<1> HIDE DEF S
<1>3. f \in Seq(S) /\ Len(f) = n
  BY <1>1, ListIs
<1> QED
  BY <1>2, <1>3 DEF MutationsFor

\* One mutation.
LEMMA OneMutation ==
    ASSUME NEW ent, NEW m, ForEntity(ent, m)
    PROVE  MutationsFor(ent, <<m>>)
<1> DEFINE S == {m}
<1>1. <<m>> \in Seq(S) /\ Len(<<m>>) > 0 /\ \A x \in S : ForEntity(ent, x)
  OBVIOUS
<1> HIDE DEF S
<1> QED
  BY <1>1 DEF MutationsFor

\* A mutation that has been told nothing yet.
LEMMA NewFor ==
    ASSUME NEW ent \in Entities, NEW op, NEW id
    PROVE  ForEntity(ent, NewOf(ent, op, id))
<1>1. ForOrder(NewOrderMutation(op, id))
  BY DEF NewOrderMutation, NewMutation, ForOrder, MutationFields
<1>2. ForItem(NewItemMutation(op, id))
  BY DEF NewItemMutation, NewMutation, ForItem, MutationFields, IsItemValue
<1> QED
  BY <1>1, <1>2 DEF NewOf, ForEntity, Entities, TableOf

----------------------------------------------------------------------------
Kinds == {"create", "bulk", "update", "updateOne", "deleteOne", "query"}

FieldsOfBuilder == {"ent", "kind", "ms", "calls", "start", "fork", "first", "execs", "before", "q"}

GoodBuilder(builder) ==
    /\ FieldsOfBuilder \subseteq DOMAIN builder
    /\ builder.ent \in Entities /\ builder.kind \in Kinds
    /\ builder.kind # "query" => MutationsFor(builder.ent, builder.ms)

GoodBuilders == b # NoBuilder => GoodBuilder(b)

DataInvariant ==
    /\ {"open", "db", "aborted"} \subseteq DOMAIN tx
    /\ SoundDB(db, added) /\ SoundDB(tx.db, added)
    /\ clock \in Int
    /\ GoodBuilders

\* A database without a row.
LEMMA EmptyIsSound ==
    ASSUME NEW ad
    PROVE  SoundDB(EmptyDB, ad)
<1>1. EmptyDB = [t \in Tables |-> [id \in IDs[t] |-> Nil]]
  BY DEF EmptyDB
<1>2. \A t \in Tables : Present(EmptyDB, t) = {}
  BY <1>1 DEF Present
<1>3. IsDatabase(EmptyDB)
  BY <1>1 DEF IsDatabase
<1>4. Constraints(EmptyDB)
  BY <1>2, ItemTable DEF Constraints
<1> QED
  BY <1>2, <1>3, <1>4 DEF SoundDB

\* The tables hold valid rows at first.
LEMMA DataInvariantInit == Init => DataInvariant
<1> SUFFICES ASSUME Init PROVE DataInvariant
  OBVIOUS
<1>1. IsDatabase(InitDB) /\ Constraints(InitDB)
  BY DatabaseAssumption DEF IsDatabase
<1>2. ASSUME NEW t \in Tables, NEW id \in Present(InitDB, t)
      PROVE  ValidRow(t, InitDB[t][id], {})
  BY <1>2, DatabaseAssumption DEF ValidRow
<1>3. SoundDB(InitDB, {})
  BY <1>1, <1>2 DEF SoundDB
<1>4. db = InitDB /\ tx.db = EmptyDB /\ added = {} /\ b = NoBuilder
  BY DEF Init, NoTx
<1>5. {"open", "db", "aborted"} \subseteq DOMAIN tx /\ clock \in Int
  BY DEF Init, NoTx
<1> QED
  BY <1>3, <1>4, <1>5, EmptyIsSound DEF DataInvariant, GoodBuilders

\* A step that only changes the builder.
LEMMA DataUntouched ==
    ASSUME DataInvariant, UNCHANGED <<db, tx, clock, added>>, b' = NoBuilder \/ GoodBuilder(b')
    PROVE  DataInvariant'
BY DEF DataInvariant, GoodBuilders

\* A transaction begins with the committed rows, and commits what is valid.
LEMMA DataTransaction ==
    ASSUME DataInvariant, Begin \/ Commit \/ Rollback
    PROVE  DataInvariant'
<1>1. /\ UNCHANGED <<b, clock, added>>
      /\ {"open", "db", "aborted"} \subseteq DOMAIN tx'
      /\ db' \in {db, tx.db} /\ tx'.db \in {db, EmptyDB}
  BY DEF Begin, Commit, Rollback, NoTx
<1> QED
  BY <1>1, EmptyIsSound DEF DataInvariant, GoodBuilders

----------------------------------------------------------------------------
\* A builder of one mutation.
LEMMA BuilderFor ==
    ASSUME NEW ent \in Entities, NEW kind \in Kinds, NEW m, ForEntity(ent, m)
    PROVE  GoodBuilder(Builder(ent, kind, m))
<1>1. /\ FieldsOfBuilder \subseteq DOMAIN Builder(ent, kind, m)
      /\ Builder(ent, kind, m).ent = ent /\ Builder(ent, kind, m).kind = kind
      /\ Builder(ent, kind, m).ms = <<m>>
  BY DEF Builder, FieldsOfBuilder
<1> QED
  BY <1>1, OneMutation DEF GoodBuilder

\* And one that knows a row.
LEMMA BuilderOnRow ==
    ASSUME NEW ent \in Entities, NEW m, ForEntity(ent, m), NEW rows
    PROVE  GoodBuilder([Builder(ent, "updateOne", m) EXCEPT !.before = rows])
<1> DEFINE old == Builder(ent, "updateOne", m)
           new == [old EXCEPT !.before = rows]
<1>1. GoodBuilder(old)
  BY BuilderFor DEF Kinds
<1> HIDE DEF old
<1>2. /\ DOMAIN new = DOMAIN old /\ new.ent = old.ent /\ new.kind = old.kind /\ new.ms = old.ms
  BY <1>1 DEF GoodBuilder, FieldsOfBuilder
<1> HIDE DEF new
<1>3. GoodBuilder(new)
  BY <1>1, <1>2 DEF GoodBuilder
<1> QED
  BY <1>3 DEF new, old

\* Opening a builder writes nothing.
LEMMA DataOpen ==
    ASSUME DataInvariant, NEW builder, GoodBuilder(builder), Open(builder)
    PROVE  DataInvariant'
BY DataUntouched DEF Open

\* A mutation with its condition, or with the row at hand.
LEMMA StillFor ==
    ASSUME NEW ent, NEW m, ForEntity(ent, m), NEW x, NEW y
    PROVE  /\ ForEntity(ent, [m EXCEPT !.where = x])
           /\ ForEntity(ent, [m EXCEPT !.loaded = x, !.old = y])
           /\ ForEntity(ent, [m EXCEPT !.done = x])
<1>1. /\ ForOrder(m) => ForOrder([m EXCEPT !.where = x])
      /\ ForOrder(m) => ForOrder([m EXCEPT !.loaded = x, !.old = y])
      /\ ForOrder(m) => ForOrder([m EXCEPT !.done = x])
  BY DEF ForOrder, MutationFields
<1>2. /\ ForItem(m) => ForItem([m EXCEPT !.where = x])
      /\ ForItem(m) => ForItem([m EXCEPT !.loaded = x, !.old = y])
      /\ ForItem(m) => ForItem([m EXCEPT !.done = x])
  BY DEF ForItem, MutationFields
<1> QED
  BY <1>1, <1>2 DEF ForEntity

----------------------------------------------------------------------------
\* What a creation is prepared with are calls of its methods, of the right types.
LEMMA FilledCalls ==
    ASSUME NEW ent \in Entities
    PROVE  /\ Filled[ent] \in Seq(Range(Filled[ent]))
           /\ \A call \in Range(Filled[ent]) : CreationCall(ent, call)
<1>1. Filled[ent] \in Seq(Range(Filled[ent]))
  BY BuildersAssumption DEF Entities, TableOf
<1>2. ASSUME NEW call \in Range(Filled[ent]) PROVE CreationCall(ent, call)
  <2>1. PICK k \in DOMAIN Filled[ent] : call = Filled[ent][k]
    BY DEF Range
  <2>2. ent = "order" => OrderCreateMethod(call)
    BY <2>1, BuildersAssumption
  <2>3. ent = "item" => ItemCreateMethod(call) /\ ItemArgument(call)
    BY <2>1, BuildersAssumption, ArgumentsAssumption
  <2> QED
    BY <2>2, <2>3 DEF CreationCall
<1> QED
  BY <1>1, <1>2

\* So are what is left of them without one.
LEMMA WithoutOne ==
    ASSUME NEW S, NEW s \in Seq(S), NEW k \in DOMAIN s
    PROVE  RemoveAt(s, k) \in Seq(S)
<1>1. k \in 1..Len(s) /\ Len(s) \in Nat /\ DOMAIN s = 1..Len(s)
  BY LenProperties
<1>2. SubSeq(s, 1, k - 1) \in Seq(S)
  BY <1>1, SubSeqProperties
<1>3. SubSeq(s, k + 1, Len(s)) \in Seq(S)
  BY <1>1, SubSeqProperties
<1> QED
  BY <1>2, <1>3, ConcatProperties DEF RemoveAt

\* A creation whose required columns are set, all of them or some.
LEMMA PreparedIs ==
    ASSUME NEW ent \in Entities, NEW kind \in {"create", "bulk"},
           NEW calls \in Seq(Range(Filled[ent]))
    PROVE  GoodBuilder(Prepared(Builder(ent, kind, NewOf(ent, kind, Nil)), calls))
<1> DEFINE new  == Builder(ent, kind, NewOf(ent, kind, Nil))
           done == Prepared(new, calls)
<1>1. /\ FieldsOfBuilder \subseteq DOMAIN new /\ new.ent = ent /\ new.kind = kind
      /\ new.ms[1] = NewOf(ent, kind, Nil)
  BY DEF Builder, FieldsOfBuilder
<1>2. ForEntity(new.ent, new.ms[1])
  BY <1>1, NewFor
<1> HIDE DEF new
<1>3. \E m : done.ms = <<m>> /\ ForEntity(ent, m)
  <2> DEFINE S == Range(Filled[ent])
  <2>1. \A call \in S : CreationCall(ent, call)
    BY FilledCalls
  <2>2. calls \in Seq(S)
    OBVIOUS
  <2> HIDE DEF S
  <2> QED
    BY <1>1, <1>2, <2>1, <2>2, PreparedFor DEF FieldsOfBuilder
<1>4. DOMAIN done = DOMAIN new /\ done.ent = ent /\ done.kind = kind
  BY <1>1 DEF Prepared, FieldsOfBuilder
<1> HIDE DEF done
<1>5. GoodBuilder(done)
  BY <1>1, <1>3, <1>4, OneMutation DEF GoodBuilder, Kinds
<1> QED
  BY <1>5 DEF done, new

\* Opening a creation.
LEMMA DataCreation ==
    ASSUME DataInvariant, NEW ent \in Entities, NEW kind \in {"create", "bulk"}, OpenCreation(ent, kind)
    PROVE  DataInvariant'
<1> DEFINE new == Builder(ent, kind, NewOf(ent, kind, Nil))
<1>1. \E calls \in Seq(Range(Filled[ent])) : Open(Prepared(new, calls))
  <2>1. Filled[ent] \in Seq(Range(Filled[ent]))
    BY FilledCalls
  <2>2. \A k \in DOMAIN Filled[ent] : RemoveAt(Filled[ent], k) \in Seq(Range(Filled[ent]))
    BY <2>1, WithoutOne
  <2> HIDE DEF new
  <2>3. Open(Prepared(new, Filled[ent])) \/ \E k \in DOMAIN Filled[ent] : Open(Prepared(new, RemoveAt(Filled[ent], k)))
    BY DEF OpenCreation, new
  <2> QED
    BY <2>1, <2>2, <2>3
<1>2. PICK calls \in Seq(Range(Filled[ent])) : Open(Prepared(new, calls))
  BY <1>1
<1> QED
  BY <1>2, PreparedIs, DataOpen

\* Every builder that is not a query.
LEMMA DataOpened ==
    ASSUME DataInvariant, NEW kind \in Kinds \cup {"updateOneID"},
           OpenOrder(kind) \/ OpenItem(kind) \/ OpenEvent(kind)
    PROVE  DataInvariant'
<1>0. {"order", "item", "event"} = Entities
  BY DEF Entities, TableOf
<1>1. ASSUME NEW ent \in Entities, NEW k \in Kinds, NEW m, ForEntity(ent, m), Open(Builder(ent, k, m))
      PROVE  DataInvariant'
  BY <1>1, BuilderFor, DataOpen
<1>2. ASSUME NEW ent \in Entities, NEW m, ForEntity(ent, m), NEW rows,
             Open([Builder(ent, "updateOne", m) EXCEPT !.before = rows])
      PROVE  DataInvariant'
  BY <1>2, BuilderOnRow, DataOpen
<1>3. \A op, id : /\ ForEntity("order", NewOrderMutation(op, id))
                  /\ ForEntity("item", NewItemMutation(op, id))
                  /\ ForEntity("event", NewEventMutation(op, id))
  <2>1. \A op, id : /\ NewOf("order", op, id) = NewOrderMutation(op, id)
                    /\ NewOf("item", op, id) = NewItemMutation(op, id)
                    /\ NewOf("event", op, id) = NewEventMutation(op, id)
    BY DEF NewOf
  <2> QED
    BY <1>0, <2>1, NewFor
<1>4. CASE OpenOrder(kind)
  <2>1. CASE kind \in {"create", "bulk"} /\ OpenCreation("order", kind)
    BY <1>0, <2>1, DataCreation
  <2>2. CASE kind = "update" /\ Open(Builder("order", kind, NewOrderMutation(kind, Nil)))
    BY <1>0, <1>1, <1>3, <2>2
  <2>3. ASSUME NEW id, Open([Builder("order", "updateOne", NewOrderMutation("updateOne", id))
                                EXCEPT !.before = {View.orders[id]}])
        PROVE  DataInvariant'
    BY <1>0, <1>2, <1>3, <2>3
  <2>4. ASSUME NEW id, Open([Builder("order", "updateOne",
                              [NewOrderMutation("updateOne", id)
                                  EXCEPT !.loaded = TRUE, !.old = View.orders[id]])
                         EXCEPT !.before = {View.orders[id]}])
        PROVE  DataInvariant'
    BY <1>0, <1>2, <1>3, <2>4, StillFor
  <2>5. ASSUME NEW id, kind = "deleteOne",
               Open(Builder("order", kind,
                          [NewOrderMutation(kind, id)
                              EXCEPT !.where = <<[op |-> "EQ", col |-> "id", val |-> id]>>]))
        PROVE  DataInvariant'
    BY <1>0, <1>1, <1>3, <2>5, StillFor
  <2> QED
    BY <1>4, <2>1, <2>2, <2>3, <2>4, <2>5 DEF OpenOrder
<1>5. CASE OpenItem(kind)
  <2>1. CASE kind \in {"create", "bulk"} /\ OpenCreation("item", kind)
    BY <1>0, <2>1, DataCreation
  <2>2. CASE kind = "update" /\ Open(Builder("item", kind, NewItemMutation(kind, Nil)))
    BY <1>0, <1>1, <1>3, <2>2
  <2>3. ASSUME NEW id, Open([Builder("item", "updateOne", NewItemMutation("updateOne", id))
                                EXCEPT !.before = {View.order_items[id]}])
        PROVE  DataInvariant'
    BY <1>0, <1>2, <1>3, <2>3
  <2>4. ASSUME NEW id, kind = "deleteOne",
               Open(Builder("item", kind,
                          [NewItemMutation(kind, id)
                              EXCEPT !.where = <<[op |-> "EQ", col |-> "id", val |-> id]>>]))
        PROVE  DataInvariant'
    BY <1>0, <1>1, <1>3, <2>4, StillFor
  <2> QED
    BY <1>5, <2>1, <2>2, <2>3, <2>4 DEF OpenItem
<1>6. CASE OpenEvent(kind)
  <2>1. CASE kind \in {"create", "bulk"} /\ OpenCreation("event", kind)
    BY <1>0, <2>1, DataCreation
  <2>2. CASE kind = "update" /\ Open(Builder("event", kind, NewEventMutation(kind, Nil)))
    BY <1>0, <1>1, <1>3, <2>2
  <2>3. ASSUME NEW id, Open([Builder("event", "updateOne", NewEventMutation("updateOne", id))
                                EXCEPT !.before = {View.outbox_events[id]}])
        PROVE  DataInvariant'
    BY <1>0, <1>2, <1>3, <2>3
  <2>4. ASSUME NEW id, kind = "deleteOne",
               Open(Builder("event", kind,
                          [NewEventMutation(kind, id)
                              EXCEPT !.where = <<[op |-> "EQ", col |-> "id", val |-> id]>>]))
        PROVE  DataInvariant'
    BY <1>0, <1>1, <1>3, <2>4, StillFor
  <2> QED
    BY <1>6, <2>1, <2>2, <2>3, <2>4 DEF OpenEvent
<1> QED
  BY <1>4, <1>5, <1>6

\* Opening a query.
LEMMA DataQueryOpened ==
    ASSUME DataInvariant, NEW ent \in Entities, OpenQuery(ent)
    PROVE  DataInvariant'
<1> DEFINE new == [Builder(ent, "query", NewOf(ent, "query", Nil)) EXCEPT !.ms = <<>>]
<1>1. FieldsOfBuilder \subseteq DOMAIN new /\ new.ent = ent /\ new.kind = "query"
  BY DEF Builder, FieldsOfBuilder
<1>2. Open(new)
  BY DEF OpenQuery
<1> HIDE DEF new
<1>3. GoodBuilder(new)
  BY <1>1 DEF GoodBuilder, Kinds
<1> QED
  BY <1>2, <1>3, DataOpen

----------------------------------------------------------------------------
\* A call changes the last mutation, which stays one of its table.
LEMMA DataCalled ==
    ASSUME DataInvariant, b # NoBuilder, NEW m, NEW call, Called(m, call),
           ForEntity(b.ent, m), b.kind # "query"
    PROVE  DataInvariant'
<1>1. GoodBuilder(b)
  BY DEF DataInvariant, GoodBuilders
<1>2. /\ DOMAIN b' = DOMAIN b /\ b'.ent = b.ent /\ b'.kind = b.kind
      /\ b'.ms = [b.ms EXCEPT ![Len(b.ms)] = m]
      /\ UNCHANGED <<db, tx, clock, added>>
  BY <1>1 DEF Called, GoodBuilder, FieldsOfBuilder
<1>3. /\ Len(b.ms) \in Nat \ {0} /\ DOMAIN b.ms = 1..Len(b.ms)
      /\ \A k \in DOMAIN b.ms : ForEntity(b.ent, b.ms[k])
  BY <1>1, MutationsAre DEF GoodBuilder
<1> DEFINE n == Len(b.ms)
           f == [k \in 1..n |-> IF k = n THEN m ELSE b.ms[k]]
<1>4. b'.ms = f
  BY <1>2, <1>3
<1>5. MutationsFor(b.ent, f)
  <2>1. f = [k \in 1..n |-> f[k]] /\ \A k \in 1..n : ForEntity(b.ent, f[k])
    BY <1>3
  <2> HIDE DEF f
  <2> QED
    BY <1>3, <2>1, MutationsMade
<1> HIDE DEF f
<1>6. GoodBuilder(b')
  BY <1>1, <1>2, <1>4, <1>5 DEF GoodBuilder
<1> QED
  BY <1>2, <1>6, DataUntouched

\* What is called last.
LEMMA LastMutation ==
    ASSUME DataInvariant, b # NoBuilder, b.kind # "query"
    PROVE  ForEntity(b.ent, b.ms[Len(b.ms)]) /\ b.ent \in Entities /\ b.kind \in Kinds
<1>1. GoodBuilder(b)
  BY DEF DataInvariant, GoodBuilders
<1> QED
  BY <1>1, MutationsAre DEF GoodBuilder

\* Calls of the builder's own methods.
LEMMA DataCallSetter ==
    ASSUME DataInvariant, CallSetter
    PROVE  DataInvariant'
<1> DEFINE last == b.ms[Len(b.ms)]
<1>1. b # NoBuilder /\ b.kind \notin {"query", "deleteOne"}
  BY DEF CallSetter, MayCall
<1>2. PICK k \in DOMAIN SetterCalls[b.ent][b.kind] :
          LET call == SetterCalls[b.ent][b.kind][k]
          IN  Called(Setter(b.ent, b.kind, last, call), call)
  BY DEF CallSetter
<1> DEFINE call == SetterCalls[b.ent][b.kind][k]
           n    == Setter(b.ent, b.kind, last, call)
<1>3. /\ ForEntity(b.ent, last) /\ b.ent \in Entities
      /\ b.kind \in {"create", "bulk", "update", "updateOne"}
  BY <1>1, LastMutation DEF Kinds
<1>4. ASSUME b.ent = "order" PROVE ForEntity(b.ent, n)
  <2>1. ForOrder(last)
    BY <1>3, <1>4 DEF ForEntity
  <2>2. CASE b.kind \in {"create", "bulk"}
    <3>1. OrderCreateMethod(call)
      BY <1>2, <1>4, <2>2, BuildersAssumption
    <3>2. n = OrderCreateSetter(last, call)
      BY <1>4, <2>2 DEF Setter
    <3> QED
      BY <1>4, <2>1, <3>1, <3>2, OrderCreateFor DEF ForEntity
  <2>3. CASE b.kind \in {"update", "updateOne"}
    <3>1. OrderUpdateMethod(call) /\ IsCall(call)
      BY <1>2, <1>4, <2>3, BuildersAssumption
    <3>2. n = OrderUpdateSetter(last, call)
      BY <1>4, <2>3 DEF Setter, OrderUpdateOneSetter
    <3> QED
      BY <1>4, <2>1, <3>1, <3>2, OrderUpdateFor DEF ForEntity
  <2> QED
    BY <1>3, <2>2, <2>3
<1>5. ASSUME b.ent = "item" PROVE ForEntity(b.ent, n)
  <2>1. ForItem(last)
    BY <1>3, <1>5 DEF ForEntity
  <2>2. ItemArgument(call)
    BY <1>2, <1>3, <1>5, ArgumentsAssumption
  <2>3. CASE b.kind \in {"create", "bulk"}
    <3>1. ItemCreateMethod(call)
      BY <1>2, <1>5, <2>3, BuildersAssumption
    <3>2. n = ItemCreateSetter(last, call)
      BY <1>5, <2>3 DEF Setter
    <3> QED
      BY <1>5, <2>1, <2>2, <3>1, <3>2, ItemCreateFor DEF ForEntity
  <2>4. CASE b.kind \in {"update", "updateOne"}
    <3>1. ItemUpdateMethod(call) /\ IsCall(call)
      BY <1>2, <1>5, <2>4, BuildersAssumption
    <3>2. n = ItemUpdateSetter(last, call)
      BY <1>5, <2>4 DEF Setter, ItemUpdateOneSetter
    <3> QED
      BY <1>5, <2>1, <2>2, <3>1, <3>2, ItemUpdateFor DEF ForEntity
  <2> QED
    BY <1>3, <2>3, <2>4
<1>6. ASSUME b.ent = "event" PROVE ForEntity(b.ent, n)
  BY <1>6 DEF ForEntity
<1>7. ForEntity(b.ent, n)
  BY <1>3, <1>4, <1>5, <1>6 DEF Entities, TableOf
<1>8. Called(n, call)
  BY <1>2
<1> HIDE DEF n, call
<1> QED
  BY <1>1, <1>7, <1>8, DataCalled

\* Calls by column name, those that answer with an error included.
LEMMA DataCallNamed ==
    ASSUME DataInvariant, CallNamed
    PROVE  DataInvariant'
<1> DEFINE last == b.ms[Len(b.ms)]
<1>1. b # NoBuilder /\ b.kind \notin {"query", "deleteOne"}
  BY DEF CallNamed, MayCall
<1>2. PICK k \in DOMAIN NamedCalls[b.ent] :
          LET call == NamedCalls[b.ent][k]
              m    == Named(b.ent, last, call)
          IN  Called(IF m = Nil THEN last ELSE m, call)
  BY DEF CallNamed
<1> DEFINE call == NamedCalls[b.ent][k]
           m    == Named(b.ent, last, call)
           n    == IF m = Nil THEN last ELSE m
<1>3. ForEntity(b.ent, last) /\ b.ent \in Entities
  BY <1>1, LastMutation
<1>4. NamedMethod(call)
  BY <1>3, BuildersAssumption DEF Entities, TableOf
<1>5. b.ent = "item" /\ call.val # Mistyped => ItemArgument(call)
  BY ArgumentsAssumption
<1> HIDE DEF call
<1>6. m = Nil \/ ForEntity(b.ent, m)
  <2>1. CASE b.ent = "order"
    BY <1>3, <1>4, <2>1, NamedOrderFor DEF Named, ForEntity
  <2>2. CASE b.ent = "item"
    BY <1>3, <1>4, <1>5, <2>2, NamedItemFor DEF Named, ForEntity
  <2>3. CASE b.ent = "event"
    BY <2>3 DEF ForEntity
  <2> QED
    BY <1>3, <2>1, <2>2, <2>3 DEF Entities, TableOf
<1>7. ForEntity(b.ent, n)
  BY <1>3, <1>6
<1>8. Called(n, call)
  BY <1>2 DEF call
<1> HIDE DEF n
<1> QED
  BY <1>1, <1>7, <1>8, DataCalled

\* A second builder of a CreateBulk is told what the first was.
LEMMA DataMoreBulk ==
    ASSUME DataInvariant, MoreBulk
    PROVE  DataInvariant'
<1>1. b # NoBuilder /\ GoodBuilder(b) /\ b.kind = "bulk"
  BY DEF MoreBulk, DataInvariant, GoodBuilders
<1>2. /\ DOMAIN b' = DOMAIN b /\ b'.ent = b.ent /\ b'.kind = b.kind
      /\ b'.ms = Append(b.ms, b.ms[1]) /\ UNCHANGED <<db, tx, clock, added>>
  BY <1>1 DEF MoreBulk, GoodBuilder, FieldsOfBuilder
<1>3. PICK S : b.ms \in Seq(S) /\ Len(b.ms) > 0 /\ \A m \in S : ForEntity(b.ent, m)
  BY <1>1 DEF GoodBuilder, MutationsFor
<1>4. b.ms[1] \in S
  BY <1>3
<1>5. Append(b.ms, b.ms[1]) \in Seq(S) /\ Len(Append(b.ms, b.ms[1])) > 0
  BY <1>3, <1>4, AppendProperties
<1>6. MutationsFor(b.ent, Append(b.ms, b.ms[1]))
  BY <1>3, <1>5 DEF MutationsFor
<1>7. GoodBuilder(b')
  BY <1>1, <1>2, <1>6 DEF GoodBuilder
<1> QED
  BY <1>2, <1>7, DataUntouched

----------------------------------------------------------------------------
\* A default is a time, or a value the validators let pass; either way the
\* mutation stays one of its table.
LEMMA DefaultsFor ==
    ASSUME NEW ent \in Entities, NEW kind \in Kinds \ {"query"}, NEW m, ForEntity(ent, m), NEW id,
           clock \in Int
    PROVE  ForEntity(ent, Defaults(ent, kind, m, id))
<1> DEFINE n == Defaults(ent, kind, m, id)
<1>1. ASSUME ent = "order" PROVE ForOrder(n)
  <2>1. ForOrder(m)
    BY <1>1 DEF ForEntity
  <2>2. ForOrder(OrderCreateDefaults(m, clock, id)) /\ ForOrder(OrderUpdateDefaults(m, clock))
    BY <2>1 DEF OrderCreateDefaults, OrderUpdateDefaults, ForOrder, MutationFields
  <2> QED
    BY <1>1, <2>1, <2>2 DEF Defaults, Kinds
<1>2. ASSUME ent = "item" PROVE ForItem(n)
  <2>1. ForItem(m)
    BY <1>2 DEF ForEntity
  <2>2. \A c \in {"created_at", "updated_at"} : c \in ItemColumns /\ IsItemValue(c, clock)
    BY DEF IsItemValue, ItemType, ItemColumns
  <2>3. ForItem(ItemCreateDefaults(m, clock, id))
    <3> DEFINE set == [c \in ItemColumns |-> IF m.set[c] = Nil /\ c \in {"created_at", "updated_at"}
                                             THEN clock ELSE m.set[c]]
               new == ItemCreateDefaults(m, clock, id)
    <3>1. new.set = set /\ DOMAIN new = DOMAIN m /\ new.add = m.add /\ new.cleared = m.cleared
      BY <2>1 DEF ItemCreateDefaults, ForItem, MutationFields
    <3>2. DOMAIN set = ItemColumns /\ \A c \in ItemColumns : IsItemValue(c, set[c])
      BY <2>1, <2>2 DEF ForItem
    <3> HIDE DEF new, set
    <3>3. ForItem(new)
      BY <2>1, <3>1, <3>2 DEF ForItem
    <3> QED
      BY <3>3 DEF new
  <2>4. ForItem(ItemUpdateDefaults(m, clock))
    <3> DEFINE new == ItemUpdateDefaults(m, clock)
    <3>1. /\ new.set = [m.set EXCEPT !["updated_at"] = IF @ = Nil THEN clock ELSE @]
          /\ DOMAIN new = DOMAIN m /\ new.add = m.add /\ new.cleared = m.cleared
      BY <2>1 DEF ItemUpdateDefaults, ForItem, MutationFields
    <3> HIDE DEF new
    <3>2. DOMAIN new.set = ItemColumns /\ \A c \in ItemColumns : IsItemValue(c, new.set[c])
      BY <2>1, <2>2, <3>1 DEF ForItem
    <3>3. ForItem(new)
      BY <2>1, <3>1, <3>2 DEF ForItem
    <3> QED
      BY <3>3 DEF new
  <2> QED
    BY <1>2, <2>1, <2>3, <2>4 DEF Defaults, Kinds
<1> HIDE DEF n
<1>3. ForEntity(ent, n)
  BY <1>1, <1>2 DEF ForEntity
<1> QED
  BY <1>3 DEF n

\* What an execution writes: valid rows, and no order writes an item.
LEMMA ExecLeaves ==
    ASSUME NEW ad, SoundDB(View, ad), NEW ent \in Entities, NEW kind \in Kinds \ {"query"},
           NEW ms, MutationsFor(ent, ms),
           kind \in {"update", "updateOne"} => AddedFields(ent, ms[1]) \subseteq ad
    PROVE  LET out == ExecOf(ent, kind, ms)
           IN  /\ SoundDB(out.db, ad)
               /\ ent = "order" => out.db.order_items = View.order_items
<1> DEFINE out == ExecOf(ent, kind, ms)
           m   == ms[1]
<1>1. Len(ms) \in Nat /\ \A k \in DOMAIN ms : ForEntity(ent, ms[k])
  BY MutationsAre
<1>2. ForEntity(ent, m)
  BY MutationsAre
<1>3. ASSUME ent = "order" PROVE OrderLeaves(View, out, ad)
  <2>1. ForOrder(m) /\ \A k \in DOMAIN ms : ForOrder(ms[k])
    BY <1>1, <1>2, <1>3 DEF ForEntity
  <2>2. kind \in {"update", "updateOne"} => OrderAddedFields(m) \subseteq ad
    BY <1>3 DEF AddedFields
  <2>3. CASE kind = "create"
    <3>1. out = OrderCreateSave(View, m)
      BY <1>3, <2>3 DEF ExecOf
    <3> QED
      BY <2>1, <3>1, OrderCreateLeaves
  <2>4. CASE kind = "bulk"
    <3>1. out = OrderCreateBulkSave(View, ms)
      BY <1>3, <2>4 DEF ExecOf
    <3> QED
      BY <1>1, <2>1, <3>1, OrderBulkLeaves
  <2>5. CASE kind \in {"update", "updateOne"}
    <3>1. out \in {OrderUpdateSave(View, m), OrderUpdateOneSave(View, m)}
      BY <1>3, <2>5 DEF ExecOf
    <3> QED
      BY <2>1, <2>2, <2>5, <3>1, OrderUpdatesLeave
  <2>6. CASE kind = "deleteOne"
    <3>1. out = OrderDeleteOneExec(View, m)
      BY <1>3, <2>6 DEF ExecOf
    <3> QED
      BY <3>1, OrderDeleteLeaves
  <2> QED
    BY <2>3, <2>4, <2>5, <2>6 DEF Kinds
<1>4. ASSUME ent = "item" PROVE SoundDB(out.db, ad)
  <2>1. ForItem(m) /\ \A k \in DOMAIN ms : ForItem(ms[k])
    BY <1>1, <1>2, <1>4 DEF ForEntity
  <2>2. kind \in {"update", "updateOne"} => ItemAddedFields(m) \subseteq ad
    BY <1>4 DEF AddedFields
  <2>3. CASE kind = "create"
    <3>1. out = ItemCreateSave(View, m)
      BY <1>4, <2>3 DEF ExecOf
    <3> QED
      BY <2>1, <3>1, ItemCreateLeaves
  <2>4. CASE kind = "bulk"
    <3>1. out = ItemCreateBulkSave(View, ms)
      BY <1>4, <2>4 DEF ExecOf
    <3> QED
      BY <2>1, <3>1, ItemBulkLeaves
  <2>5. CASE kind \in {"update", "updateOne"}
    <3>1. out \in {ItemUpdateSave(View, m), ItemUpdateOneSave(View, m)}
      BY <1>4, <2>5 DEF ExecOf
    <3> QED
      BY <2>1, <2>2, <2>5, <3>1, ItemUpdatesLeave
  <2>6. CASE kind = "deleteOne"
    <3>1. out = ItemDeleteOneExec(View, m)
      BY <1>4, <2>6 DEF ExecOf
    <3> QED
      BY <3>1, ItemDeleteLeaves
  <2> QED
    BY <2>3, <2>4, <2>5, <2>6 DEF Kinds
<1>5. ASSUME ent = "event" PROVE SoundDB(out.db, ad)
  <2>1. out \in {EventCreateSave(View, m), EventCreateBulkSave(View, ms), EventUpdateSave(View, m),
                 EventUpdateOneSave(View, m), EventDeleteOneExec(View, m)}
    BY <1>5 DEF ExecOf, Kinds
  <2> HIDE DEF out, m
  <2> QED
    BY <2>1, EventSavesLeave
<1> HIDE DEF out, m
<1>6. SoundDB(out.db, ad) /\ (ent = "order" => out.db.order_items = View.order_items)
  BY <1>3, <1>4, <1>5 DEF OrderLeaves, Entities, TableOf
<1> QED
  BY <1>6 DEF out

\* The program's view of the database is sound.
LEMMA ViewIsSound ==
    ASSUME DataInvariant
    PROVE  SoundDB(View, added)
BY DEF DataInvariant, View

\* An execution, inside a transaction or not, refused or not.
LEMMA ExecStep ==
    ASSUME DataInvariant, b # NoBuilder, b.kind # "query", NEW ids, Exec(ids)
    PROVE  /\ DataInvariant'
           /\ b.ent = "order" => View'.order_items = View.order_items
<1> DEFINE ms   == [k \in DOMAIN b.ms |-> Defaults(b.ent, b.kind, b.ms[k], ids[k])]
           out  == Answered(ExecOf(b.ent, b.kind, ms))
           ok   == out.err = "none"
           done == [k \in DOMAIN ms |-> [ms[k] EXCEPT !.done = @ \/ ok \/ b.kind = "deleteOne"]]
           n    == Len(b.ms)
<1>1. GoodBuilder(b) /\ clock \in Int /\ {"open", "db", "aborted"} \subseteq DOMAIN tx
  BY DEF DataInvariant, GoodBuilders
<1>2. n \in Nat \ {0} /\ DOMAIN b.ms = 1..n /\ \A k \in DOMAIN b.ms : ForEntity(b.ent, b.ms[k])
  BY <1>1, MutationsAre DEF GoodBuilder
<1>3. b.ent \in Entities /\ b.kind \in Kinds \ {"query"}
  BY <1>1 DEF GoodBuilder
<1>4. DOMAIN ms = 1..n /\ \A k \in 1..n : ForEntity(b.ent, ms[k])
  BY <1>1, <1>2, <1>3, DefaultsFor
<1>5. /\ DOMAIN b' = DOMAIN b /\ b'.ent = b.ent /\ b'.kind = b.kind /\ b'.ms = done
      /\ added' = IF b.kind \in {"update", "updateOne"}
                  THEN added \cup AddedFields(b.ent, ms[1]) ELSE added
      /\ clock' = clock + 1
  BY <1>1 DEF Exec, GoodBuilder, FieldsOfBuilder
<1>6. /\ tx.open => tx' = [tx EXCEPT !.db = out.db, !.aborted = @ \/ out.err = "sql"] /\ db' = db
      /\ ~tx.open => tx' = tx /\ db' = IF ok THEN out.db ELSE db
  BY DEF Exec
<1>7. MutationsFor(b.ent, ms)
  <2>1. ms = [k \in 1..n |-> ms[k]]
    BY <1>2
  <2> HIDE DEF ms, n
  <2> QED
    BY <1>2, <1>4, <2>1, MutationsMade
<1> HIDE DEF ms, out
<1>8. MutationsFor(b.ent, done)
  <2>1. done = [k \in 1..n |-> done[k]] /\ \A k \in 1..n : ForEntity(b.ent, done[k])
    BY <1>4, StillFor
  <2> HIDE DEF done, n
  <2> QED
    BY <1>2, <2>1, MutationsMade
<1> HIDE DEF done
<1>9. GoodBuilder(b')
  BY <1>1, <1>5, <1>8 DEF GoodBuilder
<1>10. added \subseteq added'
  BY <1>5
<1>11. SoundDB(db, added') /\ SoundDB(tx.db, added') /\ SoundDB(View, added')
  BY <1>10, ViewIsSound, MoreAdded DEF DataInvariant
<1>12. SoundDB(out.db, added') /\ (b.ent = "order" => out.db.order_items = View.order_items)
  <2>1. b.kind \in {"update", "updateOne"} => AddedFields(b.ent, ms[1]) \subseteq added'
    BY <1>5
  <2>2. LET o == ExecOf(b.ent, b.kind, ms)
        IN  SoundDB(o.db, added') /\ (b.ent = "order" => o.db.order_items = View.order_items)
    BY <1>3, <1>7, <1>11, <2>1, ExecLeaves
  <2>3. out.db \in {View, ExecOf(b.ent, b.kind, ms).db}
    BY DEF out, Answered, Outcome
  <2> QED
    BY <1>11, <2>2, <2>3
<1>13. /\ {"open", "db", "aborted"} \subseteq DOMAIN tx' /\ tx'.open = tx.open
       /\ db' \in {db, out.db} /\ tx'.db \in {tx.db, out.db}
       /\ View' \in {View, out.db}
  BY <1>1, <1>6 DEF View
<1>14. DataInvariant'
  BY <1>1, <1>5, <1>9, <1>11, <1>12, <1>13 DEF DataInvariant, GoodBuilders
<1>15. b.ent = "order" => View'.order_items = View.order_items
  BY <1>12, <1>13
<1> QED
  BY <1>14, <1>15

\* Save and Exec.
LEMMA DataSave ==
    ASSUME DataInvariant, Save
    PROVE  /\ DataInvariant'
           /\ b.ent = "order" => View'.order_items = View.order_items
<1>1. PICK ids : Exec(ids)
  BY DEF Save
<1> QED
  BY <1>1, ExecStep DEF Save

\* Asking for an old value changes no word the builder was told.
LEMMA DataAskOld ==
    ASSUME DataInvariant, AskOld
    PROVE  DataInvariant'
<1> DEFINE m == b.ms[1]
           old == CASE b.ent = "order" -> OrderOld(View, m)
                    [] b.ent = "item"  -> ItemOld(View, m)
                    [] b.ent = "event" -> EventOld(View, m)
           n == Len(b.ms)
<1>1. b # NoBuilder /\ b.kind = "updateOne" /\ GoodBuilder(b)
  BY DEF AskOld, DataInvariant, GoodBuilders
<1>2. n \in Nat \ {0} /\ DOMAIN b.ms = 1..n /\ \A k \in DOMAIN b.ms : ForEntity(b.ent, b.ms[k])
  BY <1>1, MutationsAre DEF GoodBuilder
<1>3. /\ DOMAIN b' = DOMAIN b /\ b'.ent = b.ent /\ b'.kind = b.kind
      /\ b'.ms = [b.ms EXCEPT ![1] = old] /\ UNCHANGED <<db, tx, clock, added>>
  BY <1>1 DEF AskOld, GoodBuilder, FieldsOfBuilder
<1>4. ForEntity(b.ent, m)
  BY <1>2
<1>5. ForEntity(b.ent, old)
  <2>1. \A x : ForEntity(b.ent, [m EXCEPT !.loaded = TRUE, !.old = x])
    BY <1>4, StillFor
  <2>2. ASSUME b.ent = "order" PROVE old = m \/ \E x : old = [m EXCEPT !.loaded = TRUE, !.old = x]
    BY <2>2 DEF OrderOld
  <2>3. ASSUME b.ent = "item" PROVE old = m \/ \E x : old = [m EXCEPT !.loaded = TRUE, !.old = x]
    BY <2>3 DEF ItemOld
  <2>4. b.ent = "event" => ForEntity(b.ent, old)
    BY DEF ForEntity
  <2> HIDE DEF old, m
  <2> QED
    BY <1>1, <1>4, <2>1, <2>2, <2>3, <2>4 DEF GoodBuilder, Entities, TableOf
<1> HIDE DEF old
<1> DEFINE f == [k \in 1..n |-> IF k = 1 THEN old ELSE b.ms[k]]
<1>6. b'.ms = f
  BY <1>2, <1>3
<1>7. MutationsFor(b.ent, f)
  <2>1. f = [k \in 1..n |-> f[k]] /\ \A k \in 1..n : ForEntity(b.ent, f[k])
    BY <1>2, <1>5
  <2> HIDE DEF f
  <2> QED
    BY <1>2, <2>1, MutationsMade
<1> HIDE DEF f
<1>8. GoodBuilder(b')
  BY <1>1, <1>3, <1>6, <1>7 DEF GoodBuilder
<1> QED
  BY <1>3, <1>8, DataUntouched

\* A query writes nothing.
LEMMA DataQuery ==
    ASSUME DataInvariant, CallQuery \/ Ask
    PROVE  DataInvariant'
<1>1. b # NoBuilder /\ b.kind = "query" /\ GoodBuilder(b) /\ UNCHANGED <<db, tx, clock, added>>
  BY DEF CallQuery, Ask, DataInvariant, GoodBuilders
<1>2. CASE CallQuery
  <2>1. DOMAIN b' = DOMAIN b /\ b'.kind = b.kind /\ b'.ent = b.ent
    BY <1>1, <1>2 DEF CallQuery, GoodBuilder, FieldsOfBuilder
  <2>2. GoodBuilder(b')
    BY <1>1, <2>1 DEF GoodBuilder
  <2> QED
    BY <1>1, <2>2, DataUntouched
<1>3. CASE Ask
  <2> DEFINE Effect(clone, r) == b' = [b EXCEPT !.q = IF clone THEN @ ELSE r.q,
                                                !.execs = IF clone THEN @ ELSE @ + 1]
  <2>1. PICK clone, r : Effect(clone, r)
    BY <1>3, Zenon DEF Ask
  <2>2. DOMAIN b' = DOMAIN b /\ b'.kind = b.kind /\ b'.ent = b.ent
    BY <1>1, <2>1 DEF GoodBuilder, FieldsOfBuilder
  <2>3. GoodBuilder(b')
    BY <1>1, <2>2 DEF GoodBuilder
  <2> QED
    BY <1>1, <2>3, DataUntouched
<1> QED
  BY <1>2, <1>3

\* Every step of the program keeps the tables and the mutations valid.
LEMMA DataInvariantNext == DataInvariant /\ [Next]_vars => DataInvariant'
<1> SUFFICES ASSUME DataInvariant, [Next]_vars PROVE DataInvariant'
  OBVIOUS
<1>1. CASE UNCHANGED vars
  BY <1>1 DEF vars, DataInvariant, GoodBuilders
<1>2. CASE \E kind \in {"create", "bulk", "update", "updateOne", "updateOneID", "deleteOne"} :
              OpenOrder(kind) \/ OpenItem(kind) \/ OpenEvent(kind)
  BY <1>2, DataOpened DEF Kinds
<1>3. CASE Discard
  BY <1>3, DataUntouched DEF Discard
<1>4. CASE Next /\ ~Discard
  BY <1>2, <1>4, DataTransaction, DataQueryOpened, DataCallSetter, DataCallNamed, DataMoreBulk,
     DataSave, DataAskOld, DataQuery DEF Next
<1> QED
  BY <1>1, <1>3, <1>4

\* Whatever is called, by whatever name and in whatever order, inside
\* transactions that commit, abort or roll back: a column that no executed
\* update has added to holds a value its validator lets pass.
THEOREM OnlyIncrementsEscape == BuildersSpec => []OnlyAddEscapesValidation
<1>1. DataInvariant => OnlyAddEscapesValidation
  <2> SUFFICES ASSUME DataInvariant PROVE OnlyAddEscapesValidation
    OBVIOUS
  <2>1. SoundDB(View, added)
    BY ViewIsSound
  <2>2. \A id \in Present(View, "orders") : ValidOrder(View.orders[id], added)
    BY <2>1, TablesAre DEF SoundDB, TheTables, ValidRow
  <2>3. \A id \in Present(View, "order_items") : ValidItem(View.order_items[id], added)
    BY <2>1, TablesAre DEF SoundDB, TheTables, ValidRow
  <2> QED
    BY <2>2, <2>3 DEF OnlyAddEscapesValidation, ValidOrder, ValidItem
<1> QED
  BY <1>1, DataInvariantInit, DataInvariantNext, PTL DEF BuildersSpec

\* A step that executes a builder is Save.
LEMMA ExecutedBySave ==
    ASSUME DataInvariant, [Next]_vars, Executed
    PROVE  Save
<1>1. b # NoBuilder /\ b' # NoBuilder /\ b.kind # "query" /\ b'.execs # b.execs /\ GoodBuilder(b)
  BY DEF Executed, DataInvariant, GoodBuilders
<1>2. \A m, call : ~Called(m, call)
  BY <1>1 DEF Called, GoodBuilder, FieldsOfBuilder
<1>3. ~CallSetter /\ ~CallNamed
  BY <1>2 DEF CallSetter, CallNamed
<1>4. ~MoreBulk /\ ~AskOld
  BY <1>1 DEF MoreBulk, AskOld, GoodBuilder, FieldsOfBuilder
<1>5. ~CallQuery /\ ~Ask /\ ~Discard /\ ~Begin /\ ~Commit /\ ~Rollback /\ ~UNCHANGED vars
  BY <1>1 DEF CallQuery, Ask, Discard, Begin, Commit, Rollback, vars
<1>6. \A builder : ~Open(builder)
  BY <1>1 DEF Open
<1>7. \A ent, kind : ~OpenOrder(kind) /\ ~OpenItem(kind) /\ ~OpenEvent(kind) /\ ~OpenQuery(ent)
  BY <1>6 DEF OpenOrder, OpenItem, OpenEvent, OpenQuery, OpenCreation
<1> QED
  BY <1>3, <1>4, <1>5, <1>7 DEF Next

\* No execution of a builder of orders, created one by one or in bulk, updated
\* or deleted, changes a row of the items: the schema gives every item an
\* order, so linking finds none to take and unlinking is refused.
THEOREM OrdersLeaveItemsAlone == BuildersSpec => ItemsKeepTheirOrder
<1> DEFINE Step == Executed /\ b.ent = "order" => View'.order_items = View.order_items
<1>1. DataInvariant /\ [Next]_vars => [Step]_vars
  BY ExecutedBySave, DataSave
<1>2. ItemsKeepTheirOrder <=> [][Step]_vars
  BY DEF ItemsKeepTheirOrder
<1> HIDE DEF Step
<1> QED
  BY <1>1, <1>2, DataInvariantInit, DataInvariantNext, PTL DEF BuildersSpec
=============================================================================
