-------------------------- MODULE MCProductService --------------------------
(***************************************************************************)
(* ProductService on its own.  "o1", "o3" and "o4" compete for a variant:  *)
(* "o3" asks for it twice, "o4" for all of its units; "o5" comes at a sale *)
(* price that differs from the list price.                                 *)
(***************************************************************************)
EXTENDS ProductService, TLC

MCItem(v, n, p) == [variant |-> v, quantity |-> n, unitPrice |-> p]

MCCart ==
    ("o1" :> <<MCItem("v1", 2, 1), MCItem("v2", 1, 1)>>)
        @@ ("o3" :> <<MCItem("v1", 1, 1), MCItem("v1", 1, 1)>>)
        @@ ("o4" :> <<MCItem("v1", 3, 1)>>)
        @@ ("o5" :> <<MCItem("v3", 1, 1)>>)

MCCustomer == [o \in Orders |-> "u1"]
MCStock == ("v1" :> 3) @@ ("v2" :> 3) @@ ("v3" :> 3)
MCSalePrice == [v \in Variants |-> 1]
MCPrice == ("v1" :> 1) @@ ("v2" :> 1) @@ ("v3" :> 2)
=============================================================================
