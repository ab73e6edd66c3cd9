-------------------------------- MODULE Avro --------------------------------
(***************************************************************************)
(* The Avro codec generated for the order service.  The encoding carries   *)
(* no field names: a record is its fields' values one after the other, and *)
(* the reader gives the i-th value to the field its Get(i) names.  A value *)
(* is one element of the encoded sequence; an array is its length, its     *)
(* elements and a closing 0.                                               *)
(***************************************************************************)
EXTENDS Integers, Sequences

CONSTANT Short   \* the answer to reading past the end of the bytes

\* The fields in the order of a record's Get.
Read(fields, bytes) ==
    IF Len(bytes) < Len(fields) THEN Short
    ELSE [f \in {fields[k] : k \in DOMAIN fields} |->
             bytes[CHOOSE k \in DOMAIN fields : fields[k] = f]]

----------------------------------------------------------------------------
writeItem(r) == <<r.variant_id, r.quantity, r.unit_price>>

ItemGet == <<"variant_id", "quantity", "unit_price">>

width == Len(ItemGet)

\* The values of the elements, one element after the other.
Elements(r) ==
    [j \in 1..width * Len(r) |-> writeItem(r[((j - 1) \div width) + 1])[((j - 1) % width) + 1]]

writeArrayItem(r) ==
    IF r = <<>> THEN <<0>> ELSE <<Len(r)>> \o Elements(r) \o <<0>>

\* The n elements of the block at p.
Block(bytes, p, n) ==
    [k \in 1..n |-> Read(ItemGet, SubSeq(bytes, p + 1 + width * (k - 1), Len(bytes)))]

\* The vm reads blocks of elements until an empty one, and appends each
\* element to the array; whole says that the bytes did not end before.
ReadArrayItem(bytes) ==
    LET cut == [whole |-> FALSE, items |-> <<>>]
        from[p \in 1..Len(bytes) + 1] ==
            IF p > Len(bytes) THEN cut
            ELSE IF bytes[p] = 0 THEN [whole |-> TRUE, items |-> <<>>]
            ELSE LET next == p + 1 + width * bytes[p]
                 IN  IF next \notin p + 1..Len(bytes) THEN cut
                     ELSE [from[next] EXCEPT !.items = Block(bytes, p, bytes[p]) \o @]
    IN  from[1]

\* Mutant: the customer is written where the reader looks for the order.
writeOrderCreatedEventSwapped(r) ==
    <<r.customer_id, r.status, r.temporary_price, r.order_id>> \o writeArrayItem(r.items)

writeOrderCreatedEvent(r) ==
    <<r.order_id, r.status, r.temporary_price, r.customer_id>> \o writeArrayItem(r.items)

OrderCreatedEventGet == <<"order_id", "status", "temporary_price", "customer_id", "items">>

DeserializeOrderCreatedEvent(bytes) ==
    LET plain == Read(OrderCreatedEventGet, bytes)
        items == ReadArrayItem(SubSeq(bytes, Len(OrderCreatedEventGet), Len(bytes)))
    IN  IF Len(bytes) < Len(OrderCreatedEventGet) \/ ~items.whole THEN Short
        ELSE [plain EXCEPT !.items = items.items]

----------------------------------------------------------------------------
writeStockReductionFailedEvent(r)  == <<r.order_id, r.message>>
writeStockReductionSuccessEvent(r) == <<r.order_id, r.price>>
writePaymentFailedEvent(r)         == <<r.order_id, r.fail_reason>>
writePaymentSuccessEvent(r)        == <<r.order_id>>

DeserializeStockReductionFailedEvent(bytes)  == Read(<<"order_id", "message">>, bytes)
DeserializeStockReductionSuccessEvent(bytes) == Read(<<"order_id", "price">>, bytes)
DeserializePaymentFailedEvent(bytes)         == Read(<<"order_id", "fail_reason">>, bytes)
DeserializePaymentSuccessEvent(bytes)        == Read(<<"order_id">>, bytes)
=============================================================================
