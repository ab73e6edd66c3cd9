---------------------------- MODULE MCUserService ----------------------------
(***************************************************************************)
(* UserService on its own: "u1" can pay for "o1" or "o2" but not for both, *)
(* and for "o1" and "o4"; "u2" has yet to register and asks for "o3".      *)
(***************************************************************************)
EXTENDS UserService, TLC

MCCart ==
    ("o1" :> <<[variant |-> "v1", quantity |-> 1, unitPrice |-> 1]>>)
        @@ ("o2" :> <<[variant |-> "v1", quantity |-> 2, unitPrice |-> 1]>>)
        @@ ("o3" :> <<[variant |-> "v1", quantity |-> 1, unitPrice |-> 1]>>)
        @@ ("o4" :> <<[variant |-> "v1", quantity |-> 1, unitPrice |-> 1]>>)

MCCustomer == [o \in Orders |-> IF o = "o3" THEN "u2" ELSE "u1"]
MCPrice == [v \in Variants |-> 1]
MCWallet == [u \in Registered |-> 25]
=============================================================================
