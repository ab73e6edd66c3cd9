---------------------------- MODULE EntOrderItem ----------------------------
(***************************************************************************)
(* The generated client of the order_items table, laid out as EntOrder is. *)
(* An item has a required, unique edge to its order: the column            *)
(* order_items, which no field of the entity stands for.                   *)
(***************************************************************************)
EXTENDS Ent

ItemNumbers == {"unit_price", "quantity", "total_price"}
ItemTexts   == {"variant_description", "image_url"}

NewItemMutation(op, id) == NewMutation(ItemColumns, ItemNumbers, op, id)

----------------------------------------------------------------------------
\* created_at, updated_at, product_id, variant_id and product_name.
ItemScalar(m, call) ==
    CASE call.op = "set"   -> [m EXCEPT !.set[call.col] = call.val]
      [] call.op = "reset" -> [m EXCEPT !.set[call.col] = Nil]

\* variant_description.
ItemText(m, call) ==
    CASE call.op = "set"   -> [m EXCEPT !.set[call.col] = call.val]
      [] call.op = "clear" -> [m EXCEPT !.set[call.col] = Nil, !.cleared = @ \cup {call.col}]
      [] call.op = "reset" -> [m EXCEPT !.set[call.col] = Nil, !.cleared = @ \ {call.col}]

\* image_url is a text of the same kind.
ItemImageURL(m, call) == ItemText(m, call)

\* unit_price, quantity and total_price.
ItemNumber(m, call) ==
    CASE call.op = "set"   -> [m EXCEPT !.set[call.col] = call.val, !.add[call.col] = Nil]
      [] call.op = "add"   -> [m EXCEPT !.add[call.col] = IF @ = Nil THEN call.val ELSE @ + call.val]
      [] call.op = "reset" -> [m EXCEPT !.set[call.col] = Nil, !.add[call.col] = Nil]

\* The edge to the order.
ItemOrder(m, call) ==
    CASE call.op = "set"   -> [m EXCEPT !.edges = {call.val}]
      [] call.op = "clear" -> [m EXCEPT !.edgeCleared = TRUE]
      [] call.op = "reset" -> [m EXCEPT !.edges = {}, !.edgeCleared = FALSE]

ItemField(m, call) ==
    CASE call.col \in ItemColumns \ (ItemNumbers \cup ItemTexts) -> ItemScalar(m, call)
      [] call.col = "variant_description" -> ItemText(m, call)
      [] call.col = "image_url"   -> ItemImageURL(m, call)
      [] call.col \in ItemNumbers -> ItemNumber(m, call)

ItemOld(db, m) ==
    IF m.loaded THEN m
    ELSE [m EXCEPT !.loaded = TRUE,
                   !.old = IF m.done \/ m.id = Nil THEN Nil ELSE db.order_items[m.id]]

ItemOldField(db, m, col) ==
    LET row == ItemOld(db, m).old
    IN  IF m.op # "updateOne" \/ m.id = Nil \/ row = Nil THEN Nil ELSE row[col]

\* Methods that take the column by name; Nil is an error.
ItemFields(m) == SetColumns(m)

ItemSetField(m, call) ==
    IF call.col \in ItemColumns /\ call.val # Mistyped THEN ItemField(m, call) ELSE Nil

ItemAddedFields(m) == {c \in ItemNumbers : m.add[c] # Nil}

ItemAddField(m, call) ==
    IF call.col \in ItemNumbers /\ call.val # Mistyped THEN ItemNumber(m, call) ELSE Nil

ItemClearField(m, call) == IF call.col \in ItemTexts THEN ItemField(m, call) ELSE Nil

ItemResetField(m, call) == IF call.col \in ItemColumns THEN ItemField(m, call) ELSE Nil

ItemEdge(m, call) == IF call.op \in {"clear", "reset"} THEN ItemOrder(m, call) ELSE Nil

----------------------------------------------------------------------------
ItemValid(c, v) ==
    /\ c = "product_name" => v # ""
    /\ c \in {"unit_price", "total_price"} => v >= 0
    /\ c = "quantity" => v > 0

ItemCreateSetter(m, call) ==
    CASE call.op = "set" /\ call.val = Nil -> m
      [] call.col = "order" /\ call.val # Nil -> ItemOrder(m, call)
      [] call.op = "setID" -> [m EXCEPT !.id = call.val]
      [] call.op = "set" /\ call.val # Nil /\ call.col # "order" -> ItemField(m, call)

ItemCreateDefaults(m, now, id) ==
    [m EXCEPT !.set = [c \in ItemColumns |-> IF @[c] = Nil /\ c \in {"created_at", "updated_at"}
                                             THEN now ELSE @[c]],
              !.id  = IF @ = Nil THEN id ELSE @]

\* Mutant: the validators are not called.
ItemCreateCheckLoose(m) == (\A c \in ItemColumns \ ItemTexts : m.set[c] # Nil) /\ m.edges # {}

ItemCreateCheck(m) ==
    /\ \A c \in ItemColumns \ ItemTexts : m.set[c] # Nil /\ ItemValid(c, m.set[c])
    /\ m.edges # {}

ItemCreateSpec(m) ==
    [c \in ItemColumns \cup {"order_items"} |->
        IF c = "order_items" THEN CHOOSE o \in m.edges : TRUE ELSE m.set[c]]

ItemCreateSave(db, m) ==
    IF ~ItemCreateCheck(m) THEN Outcome("check", db)
                           ELSE Insert(db, "order_items", m.id, ItemCreateSpec(m))

ItemCreateBulkSave(db, ms) ==
    IF \E n \in DOMAIN ms : ~ItemCreateCheck(ms[n]) THEN Outcome("check", db)
    ELSE InsertAll(db, "order_items", [k \in DOMAIN ms |-> ms[k].id],
                   [k \in DOMAIN ms |-> ItemCreateSpec(ms[k])])

----------------------------------------------------------------------------
ItemColumnHolds(db, id, p) ==
    IF p.col = "id" THEN Compare(p.op, id, p.val)
                    ELSE Compare(p.op, db.order_items[id][p.col], p.val)

\* HasOrder: the item's foreign key is not NULL.
ItemHasOrder(db, id) == db.order_items[id].order_items # Nil

ItemHolds(db, id, p) ==
    CASE p.op = "HasOrder" -> ItemHasOrder(db, id)
      [] p.op = "Not"      -> SqlNot(ItemColumnHolds(db, id, p.of))
      [] p.op = "And"      -> SqlAnd(ItemColumnHolds(db, id, p.p), ItemColumnHolds(db, id, p.q))
      [] p.op = "Or"       -> SqlOr(ItemColumnHolds(db, id, p.p), ItemColumnHolds(db, id, p.q))
      [] OTHER             -> ItemColumnHolds(db, id, p)

ItemsWhere(db, ps) ==
    {id \in Present(db, "order_items") : \A k \in DOMAIN ps : ItemHolds(db, id, ps[k]) = TRUE}

----------------------------------------------------------------------------
ItemUpdateSetter(m, call) ==
    CASE call.op = "set" /\ call.val = Nil -> m
      [] call.op = "where" -> [m EXCEPT !.where = Append(@, call.val)]
      [] call.col = "order" /\ call.op # "where" /\ call.val # Nil -> ItemOrder(m, call)
      [] call.op = "set" /\ call.val # Nil /\ call.col # "order" ->
             ItemField(IF call.col \in ItemNumbers
                       THEN ItemNumber(m, [call EXCEPT !.op = "reset"]) ELSE m, call)
      [] call.op \in {"add", "clear"} /\ call.col # "order" -> ItemField(m, call)

ItemUpdateOneSetter(m, call) == ItemUpdateSetter(m, call)

ItemUpdateDefaults(m, now) ==
    [m EXCEPT !.set["updated_at"] = IF @ = Nil THEN now ELSE @]

ItemUpdateCheck(m) ==
    /\ \A c \in ItemFields(m) : ItemValid(c, m.set[c])
    /\ ~(m.edgeCleared /\ m.edges # {})

ItemUpdateOneCheck(m) ==
    /\ \A c \in ItemFields(m) : ItemValid(c, m.set[c])
    /\ ~(m.edgeCleared /\ m.edges # {})

\* The edge is a column of the item's own row.
ItemUpdateSpec(m) ==
    LET spec == UpdateSpec(m, ItemColumns \ {"created_at"})
    IN  [set   |-> [c \in DOMAIN spec.set \cup {"order_items"} |->
                       IF c # "order_items" THEN spec.set[c]
                       ELSE IF m.edges = {} THEN Nil ELSE CHOOSE o \in m.edges : TRUE],
         add   |-> spec.add,
         clear |-> spec.clear \cup (IF m.edgeCleared THEN {"order_items"} ELSE {})]

ItemUpdateSave(db, m) ==
    IF ~ItemUpdateCheck(m) THEN Outcome("check", db)
    ELSE UpdateRows(db, "order_items", ItemsWhere(db, m.where), ItemUpdateSpec(m))

ItemUpdateOneSave(db, m) ==
    LET ids == {m.id} \cap ItemsWhere(db, m.where)
    IN  IF ~ItemUpdateOneCheck(m) \/ m.id = Nil THEN Outcome("check", db)
        ELSE IF ids = {} THEN Outcome("not_found", db)
        ELSE UpdateRows(db, "order_items", ids, ItemUpdateSpec(m))

ItemDeleteExec(db, m) == Delete(db, "order_items", ItemsWhere(db, m.where))

ItemDeleteOneExec(db, m) ==
    IF ItemsWhere(db, m.where) = {} THEN Outcome("not_found", db) ELSE ItemDeleteExec(db, m)
=============================================================================
