--------------------------- MODULE MCOrderService ---------------------------
(***************************************************************************)
(* OrderService on its own: the valid and interchangeable orders o1 and o2 *)
(* and one, "o3", whose price is wrong and which is refused, in an         *)
(* environment that answers orders in every possible way.                  *)
(***************************************************************************)
EXTENDS OrderService, TLC

CONSTANTS o1, o2

MCCart ==
    [o \in Orders |-> <<[variant |-> "v1", quantity |-> 1,
                         unitPrice |-> IF o = "o3" THEN 9 ELSE 1]>>]
MCCustomer == [o \in Orders |-> "u1"]
MCPrice == [v \in Variants |-> 1]
MCSymmetry == Permutations({o1, o2})
=============================================================================
