--------------------------- MODULE EntOutboxEvent ---------------------------
(***************************************************************************)
(* The generated client of the outbox_events table, laid out as EntOrder   *)
(* is.  Every column is required and plain: nothing can be added to or     *)
(* cleared, there are no edges and no validators.                          *)
(***************************************************************************)
EXTENDS Ent

NewEventMutation(op, id) == NewMutation(EventColumns, {}, op, id)

----------------------------------------------------------------------------
\* created_at, updated_at and aggregate_type.
EventHeader(m, call) ==
    CASE call.op = "set"   -> [m EXCEPT !.set[call.col] = call.val]
      [] call.op = "reset" -> [m EXCEPT !.set[call.col] = Nil]

\* aggregate_id, event_type, payload and processed.
EventBody(m, call) ==
    CASE call.op = "set"   -> [m EXCEPT !.set[call.col] = call.val]
      [] call.op = "reset" -> [m EXCEPT !.set[call.col] = Nil]

EventField(m, call) ==
    IF call.col \in {"created_at", "updated_at", "aggregate_type"}
    THEN EventHeader(m, call) ELSE EventBody(m, call)

EventOld(db, m) ==
    IF m.loaded THEN m
    ELSE [m EXCEPT !.loaded = TRUE,
                   !.old = IF m.done \/ m.id = Nil THEN Nil ELSE db.outbox_events[m.id]]

EventOldField(db, m, col) ==
    LET row == EventOld(db, m).old
    IN  IF m.op # "updateOne" \/ m.id = Nil \/ row = Nil THEN Nil ELSE row[col]

\* Methods that take the column by name; Nil is an error.
EventSetField(m, call) ==
    IF call.col \in EventColumns /\ call.val # Mistyped THEN EventField(m, call) ELSE Nil

EventResetField(m, call) == IF call.col \in EventColumns THEN EventField(m, call) ELSE Nil

\* AddField and ClearField: no column is numeric or nullable.
EventAddOrClearField(m, call) == Nil

EventEdge(m, call) == Nil

----------------------------------------------------------------------------
EventCreateSetter(m, call) ==
    CASE call.op = "set" /\ call.val = Nil -> m
      [] call.op = "setID"                 -> [m EXCEPT !.id = call.val]
      [] call.op = "set" /\ call.val # Nil -> EventField(m, call)

EventCreateDefaults(m, now, id) ==
    [m EXCEPT !.set = [c \in EventColumns |->
                          CASE @[c] = Nil /\ c \in {"created_at", "updated_at"} -> now
                            [] @[c] = Nil /\ c = "processed" -> FALSE
                            [] OTHER -> @[c]],
              !.id  = IF @ = Nil THEN id ELSE @]

EventCreateCheck(m) == \A c \in EventColumns : m.set[c] # Nil

EventCreateSpec(m) == m.set

EventCreateSave(db, m) ==
    IF ~EventCreateCheck(m) THEN Outcome("check", db)
                            ELSE Insert(db, "outbox_events", m.id, EventCreateSpec(m))

EventCreateBulkSave(db, ms) ==
    IF \E n \in DOMAIN ms : ~EventCreateCheck(ms[n]) THEN Outcome("check", db)
    ELSE InsertAll(db, "outbox_events", [k \in DOMAIN ms |-> ms[k].id],
                   [k \in DOMAIN ms |-> EventCreateSpec(ms[k])])

----------------------------------------------------------------------------
EventHolds(db, id, p) ==
    IF p.col = "id" THEN Compare(p.op, id, p.val)
                    ELSE Compare(p.op, db.outbox_events[id][p.col], p.val)

EventsWhere(db, ps) ==
    {id \in Present(db, "outbox_events") : \A k \in DOMAIN ps : EventHolds(db, id, ps[k]) = TRUE}

EventUpdateSetter(m, call) ==
    CASE call.op = "set" /\ call.val = Nil -> m
      [] call.op = "where"                 -> [m EXCEPT !.where = Append(@, call.val)]
      [] call.op = "set" /\ call.val # Nil -> EventField(m, call)

EventUpdateOneSetter(m, call) == EventUpdateSetter(m, call)

EventUpdateDefaults(m, now) ==
    [m EXCEPT !.set["updated_at"] = IF @ = Nil THEN now ELSE @]

EventUpdateSpec(m) == UpdateSpec(m, EventColumns \ {"created_at"})

EventUpdateSave(db, m) ==
    UpdateRows(db, "outbox_events", EventsWhere(db, m.where), EventUpdateSpec(m))

EventUpdateOneSave(db, m) ==
    LET ids == {m.id} \cap EventsWhere(db, m.where)
    IN  IF m.id = Nil THEN Outcome("check", db)
        ELSE IF ids = {} THEN Outcome("not_found", db)
        ELSE UpdateRows(db, "outbox_events", ids, EventUpdateSpec(m))

EventDeleteExec(db, m) == Delete(db, "outbox_events", EventsWhere(db, m.where))

EventDeleteOneExec(db, m) ==
    IF EventsWhere(db, m.where) = {} THEN Outcome("not_found", db) ELSE EventDeleteExec(db, m)
=============================================================================
