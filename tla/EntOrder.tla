------------------------------ MODULE EntOrder ------------------------------
(***************************************************************************)
(* The generated client of the orders table: what each builder method does *)
(* to the mutation it collects, what Save checks and sends, and what a     *)
(* query answers.  A call is [op, col, val]; the typed methods of one      *)
(* group of columns are one operator, taking the mutation and the call.    *)
(***************************************************************************)
EXTENDS Ent

OrderAmounts == {"subtotal", "tax", "shipping_cost", "total"}

NewOrderMutation(op, id) == NewMutation(OrderColumns, OrderAmounts, op, id)

----------------------------------------------------------------------------
\* Typed methods of the mutation.

\* created_at, updated_at, customer_id and status.
OrderScalar(m, call) ==
    CASE call.op = "set"   -> [m EXCEPT !.set[call.col] = call.val]
      [] call.op = "reset" -> [m EXCEPT !.set[call.col] = Nil]

\* Mutant: a second increment replaces the first.
OrderAmountForgets(m, call) ==
    CASE call.op = "set"   -> [m EXCEPT !.set[call.col] = call.val, !.add[call.col] = Nil]
      [] call.op = "add"   -> [m EXCEPT !.add[call.col] = call.val]
      [] call.op = "reset" -> [m EXCEPT !.set[call.col] = Nil, !.add[call.col] = Nil]

\* subtotal, tax, shipping_cost and total: increments add up, setting drops them.
OrderAmount(m, call) ==
    CASE call.op = "set"   -> [m EXCEPT !.set[call.col] = call.val, !.add[call.col] = Nil]
      [] call.op = "add"   -> [m EXCEPT !.add[call.col] = IF @ = Nil THEN call.val ELSE @ + call.val]
      [] call.op = "reset" -> [m EXCEPT !.set[call.col] = Nil, !.add[call.col] = Nil]

\* shipping_address and billing_address.
OrderAddress(m, call) ==
    CASE call.op = "set"   -> [m EXCEPT !.set[call.col] = call.val]
      [] call.op = "reset" -> [m EXCEPT !.set[call.col] = Nil]

\* error_message: clearing forgets the value, setting does not undo a clearing.
OrderErrorMessage(m, call) ==
    CASE call.op = "set"   -> [m EXCEPT !.set[call.col] = call.val]
      [] call.op = "clear" -> [m EXCEPT !.set[call.col] = Nil, !.cleared = @ \cup {call.col}]
      [] call.op = "reset" -> [m EXCEPT !.set[call.col] = Nil, !.cleared = @ \ {call.col}]

\* The edge to the items; removing an item also forgets that it was added.
OrderItems(m, call) ==
    CASE call.op = "add"    -> [m EXCEPT !.edges = @ \cup call.val]
      [] call.op = "remove" -> [m EXCEPT !.edges = @ \ call.val, !.removed = @ \cup call.val]
      [] call.op = "clear"  -> [m EXCEPT !.edgeCleared = TRUE]
      [] call.op = "reset"  -> [m EXCEPT !.edges = {}, !.removed = {}, !.edgeCleared = FALSE]

OrderField(m, call) ==
    CASE call.col \in {"created_at", "updated_at", "customer_id", "status"} -> OrderScalar(m, call)
      [] call.col \in OrderAmounts     -> OrderAmount(m, call)
      [] call.col \in {"shipping_address", "billing_address"} -> OrderAddress(m, call)
      [] call.col = "error_message"    -> OrderErrorMessage(m, call)

\* Mutant: the row is read again after the mutation was executed.
OrderOldReread(db, m) ==
    IF m.loaded THEN m
    ELSE [m EXCEPT !.loaded = TRUE, !.old = IF m.id = Nil THEN Nil ELSE db.orders[m.id]]

\* The old value of a column, read from the database the first time it is
\* asked for and only before the mutation is executed.
OrderOld(db, m) ==
    IF m.loaded THEN m
    ELSE [m EXCEPT !.loaded = TRUE,
                   !.old = IF m.done \/ m.id = Nil THEN Nil ELSE db.orders[m.id]]

OrderOldField(db, m, col) ==
    LET row == OrderOld(db, m).old
    IN  IF m.op # "updateOne" \/ m.id = Nil \/ row = Nil THEN Nil ELSE row[col]

\* Methods that take the column by name; Nil is an error.
OrderFields(m) == SetColumns(m)

OrderSetField(m, call) ==
    IF call.col \in OrderColumns /\ call.val # Mistyped THEN OrderField(m, call) ELSE Nil

OrderAddedFields(m) == {c \in OrderAmounts : m.add[c] # Nil}

OrderAddField(m, call) ==
    IF call.col \in OrderAmounts /\ call.val # Mistyped THEN OrderAmount(m, call) ELSE Nil

OrderClearField(m, call) ==
    IF call.col = "error_message" THEN OrderErrorMessage(m, call) ELSE Nil

OrderResetField(m, call) ==
    IF call.col \in OrderColumns THEN OrderField(m, call) ELSE Nil

\* The edge to the items is not unique, so it cannot be cleared by name.
OrderEdge(m, call) ==
    IF call.op = "reset" THEN OrderItems(m, call) ELSE Nil

----------------------------------------------------------------------------
\* Validators of the schema; updates check only what is set, not what is added.
OrderValid(c, v) ==
    /\ c = "status" => v \in StatusValues
    /\ c \in OrderAmounts => v >= 0

OrderDefault(c, now) ==
    CASE c \in {"created_at", "updated_at"} -> now
      [] c = "status"       -> "created"
      [] c \in OrderAmounts -> 0

\* Create: setters, defaults, checks and the statements.
OrderCreateSetter(m, call) ==
    CASE call.op = "set" /\ call.val = Nil -> m     \* SetNillable of nil
      [] call.op = "set" /\ call.val # Nil -> OrderField(m, call)
      [] call.op = "setID"                 -> [m EXCEPT !.id = call.val]
      [] call.col = "items"                -> OrderItems(m, call)

OrderCreateDefaults(m, now, id) ==
    [m EXCEPT !.set = [c \in OrderColumns |->
                          IF @[c] = Nil /\ c \notin {"customer_id", "shipping_address",
                                                     "billing_address", "error_message"}
                          THEN OrderDefault(c, now) ELSE @[c]],
              !.id  = IF @ = Nil THEN id ELSE @]

OrderCreateCheck(m) ==
    \A c \in OrderColumns \ {"error_message"} : m.set[c] # Nil /\ OrderValid(c, m.set[c])

OrderCreateSpec(m) == m.set

OrderCreateSave(db, m) ==
    IF ~OrderCreateCheck(m) THEN Outcome("check", db)
    ELSE Then(Insert(db, "orders", m.id, OrderCreateSpec(m)),
              LAMBDA d : Link(d, {m.id}, m.edges))

\* Every builder's checks come before the first statement, and all rows are
\* inserted before the first is linked.
OrderCreateBulkSave(db, ms) ==
    LET linked[n \in 0..Len(ms)] ==
            IF n = 0 THEN InsertAll(db, "orders", [k \in DOMAIN ms |-> ms[k].id],
                                    [k \in DOMAIN ms |-> OrderCreateSpec(ms[k])])
            ELSE Then(linked[n - 1], LAMBDA d : Link(d, {ms[n].id}, ms[n].edges))
    IN  IF \E n \in DOMAIN ms : ~OrderCreateCheck(ms[n]) THEN Outcome("check", db)
        ELSE linked[Len(ms)]

----------------------------------------------------------------------------
\* Conditions (package order): comparisons of one column, existence of items
\* and negation, [op |-> "Not", of |-> p].
OrderColumnHolds(db, id, p) ==
    IF p.col = "id" THEN Compare(p.op, id, p.val)
                    ELSE Compare(p.op, db.orders[id][p.col], p.val)

OrderHasItems(db, id) == ItemsOf(db, {id}) # {}

OrderAtom(db, id, p) ==
    IF p.op = "HasItems" THEN OrderHasItems(db, id) ELSE OrderColumnHolds(db, id, p)

OrderHolds(db, id, p) ==
    CASE p.op = "Not" -> SqlNot(OrderAtom(db, id, p.of))
      [] p.op = "And" -> SqlAnd(OrderAtom(db, id, p.p), OrderAtom(db, id, p.q))
      [] p.op = "Or"  -> SqlOr(OrderAtom(db, id, p.p), OrderAtom(db, id, p.q))
      [] OTHER        -> OrderAtom(db, id, p)

OrdersWhere(db, ps) ==
    {id \in Present(db, "orders") : \A k \in DOMAIN ps : OrderHolds(db, id, ps[k]) = TRUE}

----------------------------------------------------------------------------
\* Update and UpdateOne.  created_at is immutable: there is no setter for it,
\* and Save does not write it if it was set by name.
OrderUpdateSetter(m, call) ==
    CASE call.op = "set" /\ call.val = Nil -> m
      [] call.op = "set" /\ call.val # Nil ->
             OrderField(IF call.col \in OrderAmounts
                        THEN OrderAmount(m, [call EXCEPT !.op = "reset"]) ELSE m, call)
      [] call.op = "where"   -> [m EXCEPT !.where = Append(@, call.val)]
      [] call.col = "items"  -> OrderItems(m, call)
      [] call.op \in {"add", "clear"} /\ call.col # "items" -> OrderField(m, call)

OrderUpdateOneSetter(m, call) == OrderUpdateSetter(m, call)

OrderUpdateDefaults(m, now) ==
    [m EXCEPT !.set["updated_at"] = IF @ = Nil THEN now ELSE @]

OrderUpdateCheck(m) == \A c \in OrderFields(m) : OrderValid(c, m.set[c])

OrderUpdateOneCheck(m) == \A c \in OrderFields(m) : OrderValid(c, m.set[c])

OrderUpdateSpec(m) == UpdateSpec(m, OrderColumns \ {"created_at"})

\* Mutant: an item is linked whether or not it has an order already.
OrderUpdateStatementsTake(db, m, ids) ==
    Then(UpdateRows(db, "orders", ids, OrderUpdateSpec(m)),
         LAMBDA d : IF ids = {} THEN Outcome("none", d)
                    ELSE Outcome("none", WithOrder(d, m.edges \cap Present(d, "order_items"),
                                                   CHOOSE o \in ids : TRUE)))

\* Clearing all items wins over removing some; linking comes last.
OrderUpdateStatements(db, m, ids) ==
    Then(UpdateRows(db, "orders", ids, OrderUpdateSpec(m)),
         LAMBDA d : Then(Unlink(d, ids, IF m.edgeCleared THEN ItemIDs ELSE m.removed),
                         LAMBDA e : Link(e, ids, m.edges)))

OrderUpdateSave(db, m) ==
    LET ids == OrdersWhere(db, m.where)
    IN  IF ~OrderUpdateCheck(m) THEN Outcome("check", db)
        ELSE IF ids = {} /\ (m.edgeCleared \/ m.removed # {} \/ m.edges # {})
        THEN Outcome("none", db)
        ELSE OrderUpdateStatements(db, m, ids)

OrderUpdateOneSave(db, m) ==
    LET ids == {m.id} \cap OrdersWhere(db, m.where)
    IN  IF ~OrderUpdateOneCheck(m) \/ m.id = Nil THEN Outcome("check", db)
        ELSE IF ids = {} THEN Outcome("not_found", db)
        ELSE OrderUpdateStatements(db, m, ids)

----------------------------------------------------------------------------
\* Delete: the database refuses to delete an order that has items.
OrderDeleteExec(db, m) == Delete(db, "orders", OrdersWhere(db, m.where))

OrderDeleteOneExec(db, m) ==
    IF OrdersWhere(db, m.where) = {} THEN Outcome("not_found", db) ELSE OrderDeleteExec(db, m)
=============================================================================
