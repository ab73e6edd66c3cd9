--------------------------- MODULE OrderLifecycle ---------------------------
(***************************************************************************)
(* What the order service promises about the status of an order, whatever  *)
(* events reach it and in whatever order: an order is placed once, its     *)
(* stock outcome is decided once, and only an order whose stock is         *)
(* reserved gets a payment outcome.  The three outcomes are final.         *)
(***************************************************************************)
CONSTANT Orders

VARIABLE status

Settled == {"inventory_reserved_failed", "payment_completed", "payment_failed"}

LifecycleInit == status = [o \in Orders |-> "none"]

Move(o, from, to) ==
    /\ status[o] = from
    /\ status' = [status EXCEPT ![o] = to]

LifecycleNext == \E o \in Orders :
    \/ Move(o, "none", "created")
    \/ Move(o, "created", "inventory_reserved")
    \/ Move(o, "created", "inventory_reserved_failed")
    \/ Move(o, "inventory_reserved", "payment_completed")
    \/ Move(o, "inventory_reserved", "payment_failed")

LifecycleSpec == LifecycleInit /\ [][LifecycleNext]_status
=============================================================================
