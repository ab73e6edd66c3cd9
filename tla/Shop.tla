-------------------------------- MODULE Shop --------------------------------
(***************************************************************************)
(* What an order is, shared by the services: an order names a customer's   *)
(* request, whose cart never changes once it has been made.  Prices and    *)
(* quantities are naturals; amounts of money are counted in tenths of a    *)
(* price unit so that the ten percent tax stays whole.                     *)
(***************************************************************************)
EXTENDS Kafka

CONSTANTS
    Users,        \* customers
    Variants,     \* product variants of the catalogue
    Cart,         \* Cart[o]: the items an order asks for, a sequence of records
    Customer,     \* Customer[o]: the customer who asks
    SalePrice,    \* SalePrice[v]: the price the order service checks
    Price         \* Price[v]: the price the product service checks

\* Subtotal plus ten percent, in tenths.
Total(o) ==
    LET subtotal[n \in 0..Len(Cart[o])] ==
            IF n = 0 THEN 0
            ELSE subtotal[n - 1] + Cart[o][n].quantity * Cart[o][n].unitPrice
    IN  11 * subtotal[Len(Cart[o])]

ASSUME ShopAssumption ==
    /\ \A o \in Orders : Len(Cart[o]) \in Nat /\ DOMAIN Cart[o] = 1..Len(Cart[o])
    /\ \A o \in Orders : Customer[o] \in Users
    /\ \A o \in Orders : Total(o) \in Nat
    /\ \A v \in Variants : SalePrice[v] \in Nat /\ Price[v] \in Nat
=============================================================================
