------------------------------ MODULE EntQuery ------------------------------
(***************************************************************************)
(* The query builders.  Executing a query changes the builder: First and   *)
(* Only leave their limit on it, IDs its selection, and eager loading the  *)
(* identifiers it loaded for, as a further condition of the edge's query.  *)
(*                                                                         *)
(*   limit, offset   Nil when not given                                    *)
(*   order    Nil, "asc" or "desc", by created_at                          *)
(*   fields   the columns selected, {} for all                             *)
(*   eager    Nil, or the identifiers the edge's query is still open to    *)
(*   path     Nil, or the order query whose items are asked for            *)
(***************************************************************************)
EXTENDS EntOrder, EntOrderItem, EntOutboxEvent

NewQuery == [where |-> <<>>, limit |-> Nil, offset |-> Nil, order |-> Nil,
             fields |-> {}, eager |-> Nil, path |-> Nil]

OrderQuerySetter(q, call) ==
    CASE call.op = "where"  -> [q EXCEPT !.where = Append(@, call.val)]
      [] call.op = "limit"  -> [q EXCEPT !.limit = call.val]
      [] call.op = "offset" -> [q EXCEPT !.offset = call.val]
      [] call.op = "order"  -> [q EXCEPT !.order = call.val]

OrderWithItems(q) == [q EXCEPT !.eager = OrderIDs]

ItemWithOrder(q) == [q EXCEPT !.eager = OrderIDs]

OrderQueryItems(q) == [NewQuery EXCEPT !.path = q]

----------------------------------------------------------------------------
\* The answers PostgreSQL may give: the rows in any order the ORDER BY allows.
Arrangements(db, t, ids, order) ==
    {s \in [1..Cardinality(ids) -> ids] :
        \A i, j \in DOMAIN s : i < j =>
            /\ s[i] # s[j]
            /\ order = "asc"  => db[t][s[i]].created_at <= db[t][s[j]].created_at
            /\ order = "desc" => db[t][s[i]].created_at >= db[t][s[j]].created_at}

Skipped(s, offset) == SubSeq(s, (IF offset = Nil THEN 0 ELSE offset) + 1, Len(s))
Limited(s, limit)  == IF limit = Nil \/ limit >= Len(s) THEN s ELSE SubSeq(s, 1, limit)

\* QueryNodes takes a limit of zero for none.
Selected(db, t, ids, q) ==
    {Limited(Skipped(s, q.offset), IF q.limit = 0 THEN Nil ELSE q.limit) :
        s \in Arrangements(db, t, ids, q.order)}

OrderQuerySpec(db, q) == Selected(db, "orders", OrdersWhere(db, q.where), q)

\* The selector of a traversal or a selection of columns: zero is a limit here.
OrderSqlQuery(db, q) ==
    {Limited(Skipped(s, q.offset), q.limit) :
        s \in Arrangements(db, "orders", OrdersWhere(db, q.where), q.order)}

ItemQuerySpec(db, q) ==
    IF q.path = Nil THEN Selected(db, "order_items", ItemsWhere(db, q.where), q)
    ELSE UNION {Selected(db, "order_items",
                         ItemsWhere(db, q.where) \cap ItemsOf(db, {s[i] : i \in DOMAIN s}), q) :
                    s \in OrderSqlQuery(db, q.path)}

EventQuerySpec(db, q) == Selected(db, "outbox_events", EventsWhere(db, q.where), q)

----------------------------------------------------------------------------
\* What the program holds of a row: NULL reads as the empty string, and a
\* column that was not selected keeps its zero value.
OrderScan(row, fields) ==
    [c \in OrderColumns |-> IF fields # {} /\ c \notin fields THEN Nil
                            ELSE IF row[c] = Nil THEN "" ELSE row[c]]

ItemScan(row, fields) ==
    [c \in ItemColumns |-> IF fields # {} /\ c \notin fields THEN Nil
                           ELSE IF row[c] = Nil THEN "" ELSE row[c]]

EventScan(row, fields) ==
    [c \in EventColumns |-> IF fields # {} /\ c \notin fields THEN Nil ELSE row[c]]

IdsIn(s) == {s[i] : i \in DOMAIN s}

Found(q, nodes) == [q |-> q, err |-> "none", nodes |-> nodes, count |-> Nil]

\* Mutant: only the first order's items are loaded.
OrderLoadItemsFirst(db, q, s) == [q EXCEPT !.eager = @ \cap {s[1]}]

\* Eager loading narrows the edge's query to the orders just read.
OrderLoadItems(db, q, s) == [q EXCEPT !.eager = @ \cap IdsIn(s)]

OrderAll(db, q) ==
    {LET after == IF q.eager = Nil \/ s = <<>> THEN q ELSE OrderLoadItems(db, q, s)
     IN  Found(after, [k \in DOMAIN s |->
             [id |-> s[k], row |-> OrderScan(db.orders[s[k]], q.fields),
              edge |-> IF q.eager = Nil THEN Nil
                       ELSE ItemsOf(db, {s[k]} \cap after.eager)]]) :
        s \in OrderQuerySpec(db, q)}

ItemLoadOrder(db, q, s) ==
    [q EXCEPT !.eager = @ \cap {db.order_items[i].order_items : i \in IdsIn(s)}]

ItemAll(db, q) ==
    {LET after == IF q.eager = Nil \/ s = <<>> THEN q ELSE ItemLoadOrder(db, q, s)
     IN  Found(after, [k \in DOMAIN s |->
             [id |-> s[k], row |-> ItemScan(db.order_items[s[k]], q.fields),
              edge |-> IF q.eager = Nil THEN Nil
                       ELSE {db.order_items[s[k]].order_items} \cap after.eager]]) :
        s \in ItemQuerySpec(db, q)}

EventAll(db, q) ==
    {Found(q, [k \in DOMAIN s |->
         [id |-> s[k], row |-> EventScan(db.outbox_events[s[k]], q.fields), edge |-> Nil]]) :
        s \in EventQuerySpec(db, q)}

\* First and Only limit the query, for good, to one and to two rows.
OrderFirst(db, q) ==
    {IF r.nodes = <<>> THEN [r EXCEPT !.err = "not_found"] ELSE r :
        r \in OrderAll(db, [q EXCEPT !.limit = 1])}

OrderOnly(db, q) ==
    {CASE Len(r.nodes) = 0 -> [r EXCEPT !.err = "not_found"]
       [] Len(r.nodes) = 1 -> r
       [] OTHER            -> [r EXCEPT !.err = "not_singular", !.nodes = <<>>] :
        r \in OrderAll(db, [q EXCEPT !.limit = 2])}

OrderGet(db, id) == OrderOnly(db, [NewQuery EXCEPT !.where = <<[op |-> "EQ", col |-> "id", val |-> id]>>])

\* IDs adds the identifier to the selected columns and reads nothing else.
OrderQueryIDs(db, q) ==
    {Found([q EXCEPT !.fields = @ \cup {"id"}],
           [k \in DOMAIN s |-> [id |-> s[k], row |-> Nil, edge |-> Nil]]) :
        s \in OrderSqlQuery(db, q)}

OrderFirstID(db, q) == OrderQueryIDs(db, [q EXCEPT !.limit = 1])

OrderExist(db, q) ==
    {[r EXCEPT !.count = IF r.nodes = <<>> THEN 0 ELSE 1, !.nodes = <<>>] : r \in OrderFirstID(db, q)}

\* COUNT ignores limit and order; with an offset there is no row to scan.
OrderCount(db, q) ==
    {[Found(q, <<>>) EXCEPT !.count = Cardinality(OrdersWhere(db, q.where)),
                            !.err   = IF q.offset \in {Nil, 0} THEN "none" ELSE "scan"]}

\* Clone copies conditions, limits and the edge's query: executing the clone
\* leaves the original as it is.
OrderClone(q) == q
=============================================================================
