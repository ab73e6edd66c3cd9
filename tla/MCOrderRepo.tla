---------------------------- MODULE MCOrderRepo ----------------------------
(***************************************************************************)
(* Two earlier orders, and a call while they are read and updated: one     *)
(* that asks for a variant in two lines, or for a quantity of zero, which  *)
(* only the item's validator refuses, when the order is already inserted,  *)
(* or at a stale price.                                                    *)
(***************************************************************************)
EXTENDS OrderRepo, TLC

CONSTANTS o0, o1, o2, i0, i1, i2, i3, e0, e1, e2

Line(quantity, price) == [variant |-> "v1", quantity |-> quantity, price |-> price]
Asking(customer, items) == [customer |-> customer, address |-> "a", items |-> items]

MCRequests == [c0 |-> {Asking("c1", <<Line(3, 10)>>)},
               c1 |-> {Asking("c1", <<Line(1, 10)>>)},
               c2 |-> {Asking("c1", <<Line(1, 10), Line(2, 10)>>), Asking("c1", <<Line(0, 10)>>),
                       Asking("c1", <<Line(1, 20)>>)}]
MCFilters == {[customer |-> "c1", status |-> "CREATED", after |-> 0],
              [customer |-> "", status |-> "INVENTORY_RESERVED", after |-> Nil]}
MCSalePrice == [v1 |-> 10]
MCNewOrder == [c0 |-> o0, c1 |-> o1, c2 |-> o2]
MCNewItems == [c0 |-> <<i0>>, c1 |-> <<i1>>, c2 |-> <<i2, i3>>]
MCNewEvent == [c0 |-> e0, c1 |-> e1, c2 |-> e2]

\* Each earlier call undisturbed.
Created(c, view) ==
    LET now == Cardinality(Present(view, "orders")) + 1
        r   == FirstRequest(c)
    IN  SaveEvent(SaveItems(SaveOrder(view, c, r, now).db, c, r, now).db, c, r, now).db

MCInitDB == FoldSet(Created, EmptyDB, Earlier)
=============================================================================
