-------------------------------- MODULE Ent --------------------------------
(***************************************************************************)
(* The order service's database as the generated Ent client uses it: three *)
(* tables, their constraints, and the SQL statements the client's builders *)
(* send (package sqlgraph and PostgreSQL, neither part of the repository). *)
(*                                                                         *)
(* A table maps every identifier to its row or to Nil; a row maps every    *)
(* column to a value, Nil being SQL's NULL.  A statement yields an outcome:*)
(* the error, if any, and the database as a surrounding transaction then   *)
(* sees it.                                                                *)
(***************************************************************************)
EXTENDS Integers, Sequences, FiniteSets

CONSTANTS
    Nil,        \* NULL in a row, a nil pointer in the program, no row in a table
    Mistyped,   \* a value of a type no column has
    OrderIDs, ItemIDs, EventIDs   \* the identifiers uuid.New can draw

StatusValues == {"created", "pending_inventory", "inventory_reserved",
                 "inventory_reserved_failed", "payment_pending", "payment_completed",
                 "payment_failed", "shipping", "completed"}

OrderColumns == {"created_at", "updated_at", "customer_id", "status", "subtotal", "tax",
                 "shipping_cost", "total", "shipping_address", "billing_address",
                 "error_message"}

ItemColumns == {"created_at", "updated_at", "product_id", "variant_id", "product_name",
                "variant_description", "unit_price", "quantity", "total_price", "image_url"}

EventColumns == {"created_at", "updated_at", "aggregate_type", "aggregate_id",
                 "event_type", "payload", "processed"}

TableColumns == [orders        |-> OrderColumns,
                 order_items   |-> ItemColumns \cup {"order_items"},
                 outbox_events |-> EventColumns]

Tables == DOMAIN TableColumns

IDs == [orders |-> OrderIDs, order_items |-> ItemIDs, outbox_events |-> EventIDs]

Nullable == {"error_message", "variant_description", "image_url"}

EmptyDB == [t \in Tables |-> [id \in IDs[t] |-> Nil]]

\* The identifiers of the rows of table t.
Present(db, t) == {id \in IDs[t] : db[t][id] # Nil}

\* What the schema promises of every committed database.
Constraints(db) ==
    /\ \A t \in Tables : \A id \in Present(db, t) :
           \A c \in TableColumns[t] \ Nullable : db[t][id][c] # Nil
    /\ \A i \in Present(db, "order_items") :
           db.order_items[i].order_items \in Present(db, "orders")

----------------------------------------------------------------------------
(***************************************************************************)
(* SQL statements.  A statement the database refuses ("sql") aborts the    *)
(* transaction it runs in; the other errors are the client's own, and what *)
(* was written before them stays in a transaction the caller opened.       *)
(***************************************************************************)
Outcome(err, db) == [err |-> err, db |-> db]

Then(out, F(_)) == IF out.err = "none" THEN F(out.db) ELSE out

Execute(db, new) == IF Constraints(new) THEN Outcome("none", new) ELSE Outcome("sql", db)

Insert(db, t, id, row) ==
    IF id \in Present(db, t) THEN Outcome("sql", db)
                             ELSE Execute(db, [db EXCEPT ![t][id] = row])

\* One INSERT of several rows, the k-th with identifier ids[k].
InsertAll(db, t, ids, rows) ==
    IF \E k \in DOMAIN ids : ids[k] \in Present(db, t) \/ \E j \in DOMAIN ids \ {k} : ids[j] = ids[k]
    THEN Outcome("sql", db)
    ELSE Execute(db, [db EXCEPT ![t] = [id \in IDs[t] |->
             IF \E k \in DOMAIN ids : ids[k] = id
             THEN rows[CHOOSE k \in DOMAIN ids : ids[k] = id] ELSE @[id]]])

Delete(db, t, ids) ==
    Execute(db, [db EXCEPT ![t] = [id \in IDs[t] |-> IF id \in ids THEN Nil ELSE @[id]]])

\* The columns an UPDATE sets, adds to and sets to NULL.
Assigns(spec) == <<{c \in DOMAIN spec.set : spec.set[c] # Nil},
                   {c \in DOMAIN spec.add : spec.add[c] # Nil}, spec.clear>>

Assigned(row, spec) ==
    [c \in DOMAIN row |-> CASE c \in Assigns(spec)[1] -> spec.set[c]
                            [] c \in Assigns(spec)[2] -> row[c] + spec.add[c]
                            [] c \in Assigns(spec)[3] -> Nil
                            [] OTHER -> row[c]]

\* PostgreSQL refuses an UPDATE that assigns one column twice.
UpdateRows(db, t, ids, spec) ==
    IF \E i, j \in 1..3 : i # j /\ Assigns(spec)[i] \cap Assigns(spec)[j] # {}
    THEN Outcome("sql", db)
    ELSE Execute(db, [db EXCEPT ![t] = [id \in IDs[t] |-> IF id \in ids
                                                          THEN Assigned(@[id], spec)
                                                          ELSE @[id]]])

WithOrder(db, items, o) ==
    [db EXCEPT !.order_items = [i \in ItemIDs |-> IF i \in items
                                                  THEN [@[i] EXCEPT !.order_items = o]
                                                  ELSE @[i]]]

\* The items of a set of orders.
ItemsOf(db, orders) ==
    {i \in Present(db, "order_items") : db.order_items[i].order_items \in orders}

\* UPDATE order_items SET order_items = NULL for those of the orders' items.
Unlink(db, orders, items) == Execute(db, WithOrder(db, ItemsOf(db, orders) \cap items, Nil))

\* UPDATE order_items SET order_items = o for items that have no order; fewer
\* rows than items is an error of the client.
Link(db, orders, items) ==
    LET free == {i \in items \cap Present(db, "order_items") :
                    db.order_items[i].order_items = Nil}
    IN  IF items = {} THEN Outcome("none", db)
        ELSE IF Cardinality(orders) # 1 THEN Outcome("link", db)
        ELSE Then(Execute(db, WithOrder(db, free, CHOOSE o \in orders : TRUE)),
                  LAMBDA d : Outcome(IF free = items THEN "none" ELSE "link", d))

----------------------------------------------------------------------------
(***************************************************************************)
(* Conditions of a WHERE clause, [op, col, val], under SQL's three-valued  *)
(* logic: Nil is "unknown".                                                *)
(***************************************************************************)
Compare(op, x, v) ==
    CASE op = "IsNil"  -> x = Nil
      [] op = "NotNil" -> x # Nil
      [] x = Nil /\ op \notin {"IsNil", "NotNil"} -> Nil
      [] op = "EQ"     -> x = v
      [] op = "NEQ"    -> x # v
      [] op = "In"     -> x \in v
      [] op = "NotIn"  -> x \notin v
      [] op = "GT"     -> x > v
      [] op = "GTE"    -> x >= v
      [] op = "LT"     -> x < v
      [] op = "LTE"    -> x <= v

SqlNot(x) == IF x = Nil THEN Nil ELSE ~x
SqlAnd(x, y) == IF x = FALSE \/ y = FALSE THEN FALSE
                ELSE IF x = Nil \/ y = Nil THEN Nil ELSE TRUE
SqlOr(x, y)  == SqlNot(SqlAnd(SqlNot(x), SqlNot(y)))

----------------------------------------------------------------------------
(***************************************************************************)
(* A mutation: what a builder has been told so far.                        *)
(*   set, add, cleared   a column's new value, its increment, its clearing *)
(*   edges, removed, edgeCleared   the ids linked and unlinked             *)
(*   where   the conditions that narrow an update or a deletion            *)
(*   loaded, old   whether the old row has been asked for, and the row     *)
(*   done    the mutation has been executed                                *)
(***************************************************************************)
NewMutation(columns, numeric, op, id) ==
    [op |-> op, id |-> id,
     set |-> [c \in columns |-> Nil], add |-> [c \in numeric |-> Nil], cleared |-> {},
     edges |-> {}, removed |-> {}, edgeCleared |-> FALSE,
     where |-> <<>>, loaded |-> FALSE, old |-> Nil, done |-> FALSE]

SetColumns(m) == {c \in DOMAIN m.set : m.set[c] # Nil}

UpdateSpec(m, columns) == [set |-> [c \in columns |-> m.set[c]], add |-> m.add, clear |-> m.cleared]
=============================================================================
