--------------------------- MODULE MCEntBuilders ---------------------------
(***************************************************************************)
(* Two orders with an item each, an outbox row and room for one more order,*)
(* two items and an event.  The calls reach every kind of column: plain,   *)
(* numeric, nullable, immutable, and the edges.                            *)
(***************************************************************************)
EXTENDS EntBuilders, TLC

CONSTANTS o1, o2, o3, i1, i2, i3, i4, e1, e2

OrderRow(time, total, message) ==
    [created_at |-> time, updated_at |-> time, customer_id |-> "c", status |-> "created",
     subtotal |-> total, tax |-> 0, shipping_cost |-> 0, total |-> total,
     shipping_address |-> "a", billing_address |-> "a", error_message |-> message]

ItemRow(o) ==
    [created_at |-> 1, updated_at |-> 1, product_id |-> "p", variant_id |-> "v",
     product_name |-> "n", variant_description |-> "d", unit_price |-> 1, quantity |-> 1,
     total_price |-> 1, image_url |-> Nil, order_items |-> o]

MCInitDB ==
    [orders        |-> (o1 :> OrderRow(1, 1, "m") @@ o2 :> OrderRow(2, 2, Nil) @@ o3 :> Nil),
     order_items   |-> (i1 :> ItemRow(o1) @@ i2 :> ItemRow(o2) @@ i3 :> Nil @@ i4 :> Nil),
     outbox_events |-> (e1 :> [created_at |-> 1, updated_at |-> 1, aggregate_type |-> "order",
                               aggregate_id |-> "o", event_type |-> "order.created",
                               payload |-> "p", processed |-> FALSE] @@ e2 :> Nil)]

Call(op, col, val) == [op |-> op, col |-> col, val |-> val]
Is(op, col, val)   == [op |-> op, col |-> col, val |-> val]

OrderCreateCalls ==
    <<Call("set", "subtotal", -1), Call("set", "subtotal", 2), Call("set", "status", "bogus"),
      Call("set", "error_message", Nil), Call("add", "items", {i1})>>

OrderUpdateCalls ==
    <<Call("set", "status", "completed"), Call("set", "status", "bogus"),
      Call("set", "subtotal", 2), Call("set", "subtotal", -1), Call("add", "subtotal", -2),
      Call("set", "error_message", "x"), Call("set", "error_message", Nil),
      Call("clear", "error_message", TRUE), Call("add", "items", {i2}),
      Call("remove", "items", {i1, i2}), Call("clear", "items", TRUE)>>

ItemCreateCalls ==
    <<Call("set", "quantity", 0), Call("set", "quantity", 2), Call("set", "product_name", ""),
      Call("set", "order", o3), Call("set", "image_url", "u"), Call("setID", "id", i1)>>

ItemUpdateCalls ==
    <<Call("set", "quantity", 0), Call("set", "quantity", 2), Call("add", "quantity", -1),
      Call("set", "image_url", "u"), Call("clear", "variant_description", TRUE),
      Call("set", "variant_description", "x"), Call("set", "order", o2),
      Call("set", "order", o3), Call("clear", "order", TRUE)>>

EventCreateCalls == <<Call("set", "processed", TRUE), Call("set", "processed", Nil)>>
EventUpdateCalls == <<Call("set", "processed", TRUE), Call("set", "payload", "q")>>

\* Every creation starts from a builder whose required columns are set.
OrderFilled ==
    <<Call("set", "customer_id", "c"), Call("set", "shipping_address", "a"),
      Call("set", "billing_address", "a")>>
ItemFilled ==
    <<Call("set", "product_id", "p"), Call("set", "variant_id", "v"),
      Call("set", "product_name", "n"), Call("set", "unit_price", 1),
      Call("set", "quantity", 1), Call("set", "total_price", 1), Call("set", "order", o1)>>
EventFilled ==
    <<Call("set", "aggregate_type", "order"), Call("set", "aggregate_id", "o"),
      Call("set", "event_type", "order.created"), Call("set", "payload", "p")>>

MCFilled == [order |-> OrderFilled, item |-> ItemFilled, event |-> EventFilled]

MCSetterCalls ==
    [order |-> [create |-> OrderCreateCalls, bulk |-> OrderCreateCalls,
                update |-> OrderUpdateCalls \o
                    <<Call("where", "", [op |-> "Not", of |-> Is("EQ", "error_message", "x")]),
                      Call("where", "", Is("EQ", "id", o2))>>,
                updateOne |-> Append(OrderUpdateCalls, Call("where", "", Is("EQ", "status", "completed")))],
     item  |-> [create |-> ItemCreateCalls, bulk |-> ItemCreateCalls,
                update |-> Append(ItemUpdateCalls, Call("where", "", [op |-> "HasOrder", col |-> ""])),
                updateOne |-> ItemUpdateCalls],
     event |-> [create |-> EventCreateCalls, bulk |-> EventCreateCalls,
                update |-> Append(EventUpdateCalls, Call("where", "", Is("EQ", "processed", TRUE))),
                updateOne |-> EventUpdateCalls]]

MCNamedCalls ==
    [order |-> <<Call("set", "created_at", 9), Call("set", "status", Mistyped),
                 Call("add", "subtotal", 1), Call("add", "status", 1),
                 Call("clear", "error_message", TRUE), Call("reset", "subtotal", TRUE),
                 Call("reset", "error_message", TRUE), Call("reset", "items", TRUE)>>,
     item  |-> <<Call("set", "created_at", 9), Call("add", "quantity", 1),
                 Call("clear", "variant_description", TRUE), Call("reset", "variant_description", TRUE),
                 Call("reset", "quantity", TRUE), Call("clear", "order", TRUE),
                 Call("reset", "order", TRUE)>>,
     event |-> <<Call("set", "created_at", 9), Call("add", "payload", 1),
                 Call("reset", "payload", TRUE), Call("clear", "order", TRUE)>>]

MCQueryCalls ==
    [order |-> <<Call("where", "", [op |-> "Or", p |-> Is("NEQ", "error_message", "x"),
                                    q |-> Is("EQ", "id", o2)]),
                 Call("where", "", Is("GT", "created_at", 1)),
                 Call("where", "", [op |-> "HasItems", col |-> ""]),
                 Call("limit", "", 1), Call("limit", "", 0), Call("offset", "", 1),
                 Call("order", "", "desc"), Call("with", "", TRUE)>>,
     item  |-> <<Call("where", "", Is("IsNil", "image_url", Nil)), Call("with", "", TRUE),
                 Call("of", "", Call("where", "", Is("EQ", "id", o1)))>>,
     event |-> <<Call("where", "", Is("EQ", "processed", FALSE)), Call("order", "", "asc"),
                 Call("limit", "", 1)>>]
=============================================================================
