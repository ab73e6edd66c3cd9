----------------------------- MODULE Fulfilment -----------------------------
(***************************************************************************)
(* What the services together promise about the goods and the money of an  *)
(* order, without messages, outboxes or processes: goods are held before   *)
(* the customer is asked to pay, the customer pays or is declined once,    *)
(* and the goods of a declined order - and of no other - go back.          *)
(***************************************************************************)
CONSTANT Orders

VARIABLE phase

Phases == {"open", "held", "paid", "declined", "released"}

Progress == {<<"open", "held">>, <<"held", "paid">>,
             <<"held", "declined">>, <<"declined", "released">>}

FulfilmentInit == phase = [o \in Orders |-> "open"]

FulfilmentNext ==
    \E o \in Orders, to \in Phases :
        /\ <<phase[o], to>> \in Progress
        /\ phase' = [phase EXCEPT ![o] = to]

FulfilmentSpec == FulfilmentInit /\ [][FulfilmentNext]_phase
=============================================================================
