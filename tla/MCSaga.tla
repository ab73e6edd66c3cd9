------------------------------- MODULE MCSaga -------------------------------
(***************************************************************************)
(* The saga on a small shop.  "o1" and "o2" compete for the stock of two   *)
(* variants: after "o1" the second would take the last unit of "v1", after *)
(* "o2" there is too little of "v2" for the first.  The customer of "o2"   *)
(* can pay and that of "o1" cannot.                                        *)
(***************************************************************************)
EXTENDS Saga, TLC

MCItem(v, n) == [variant |-> v, quantity |-> n, unitPrice |-> 1]

MCCart == [o \in Orders |-> IF o = "o1" THEN <<MCItem("v2", 2), MCItem("v1", 2)>>
                                       ELSE <<MCItem("v1", 1), MCItem("v2", 2)>>]
MCCustomer == [o \in Orders |-> IF o = "o1" THEN "poor" ELSE "rich"]
MCPrice == [v \in Variants |-> 1]
MCStock == [v \in Variants |-> 3]
MCWallet == [u \in Registered |-> IF u = "rich" THEN 40 ELSE 5]
=============================================================================
