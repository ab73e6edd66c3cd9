------------------------------- MODULE Kafka -------------------------------
(***************************************************************************)
(* The broker as the services use it: one append-only log per topic (one   *)
(* partition each, the broker's default), and for every subscription of a  *)
(* consumer group the position its consumer has read to and the offset     *)
(* the group has committed.  A record is an order: every event of the saga *)
(* is keyed by the order and its consumers look nothing else up in it that *)
(* could differ between two events of the same order.                      *)
(*                                                                         *)
(* The broker is not part of the repository; the operators below state     *)
(* what the consumers and producers in it observe.                         *)
(*                                                                         *)
(* Faults are explicit: every departure from the fault-free path consumes  *)
(* one of MaxFaults faults and must be of a kind the instance enables.     *)
(***************************************************************************)
EXTENDS Naturals, Sequences, FiniteSets

CONSTANTS
    Orders,       \* order identifiers
    Faults,       \* the kinds of fault that may happen, a subset of FaultKinds
    MaxFaults,    \* bound: how many faults may happen in one behaviour
    LatestReset   \* groups whose auto.offset.reset is latest, as configured or by default

VARIABLES
    log,          \* log[t]: the records of topic t, oldest first
    position,     \* position[s]: records read so far by subscription s
    committed,    \* committed[s]: the committed offset; 0 is "none yet"
    faults        \* faults so far

kafkaVars == <<log, position, committed, faults>>

Topics == {"order.created", "stock.reduction.success", "stock.reduction.fail",
           "payment.success", "payment.fail"}

Groups == {"order-service-group", "stock-consumer-group", "asp-user-group"}

OrderTopics == Topics \ {"order.created"}
StockTopics == {"order.created", "payment.fail"}
UserTopics  == {"stock.reduction.success"}

Subscriptions == ({"order-service-group"} \X OrderTopics)
                     \cup ({"stock-consumer-group"} \X StockTopics)
                     \cup ({"asp-user-group"} \X UserTopics)

FaultKinds == {
    "commit_lost",      \* the handler finished, its offset commit did not
    "handler_error",    \* a database or gRPC error stops a handler before it changes anything
    "restart",          \* a process dies and starts again
    "publish_error",    \* the broker does not take a record
    "ack_lost",         \* the broker takes a record, the producer or the row's update fails
    "mark_error",       \* the outbox row cannot be updated at all
    "slow_publisher",   \* a publisher holds claimed rows longer than the stale limit
    "save_error",       \* Entity Framework's SaveChanges fails
    "tx_commit_error"}  \* SaveChanges succeeds, the database commit after it fails

ASSUME FaultsAssumption ==
    /\ Faults \subseteq FaultKinds
    /\ MaxFaults \in Nat
    /\ LatestReset \subseteq Groups

KafkaTypeOK ==
    /\ log \in [Topics -> Seq(Orders)]
    /\ position \in [Subscriptions -> Nat]
    /\ committed \in [Subscriptions -> Nat]
    /\ faults \in 0..MaxFaults

KafkaInit ==
    /\ log = [t \in Topics |-> <<>>]
    /\ position = [s \in Subscriptions |-> 0]
    /\ committed = [s \in Subscriptions |-> 0]
    /\ faults = 0

----------------------------------------------------------------------------
NoFault == faults' = faults

Fault(kind) ==
    /\ kind \in Faults
    /\ faults < MaxFaults
    /\ faults' = faults + 1

Publish(t, o) == log' = [log EXCEPT ![t] = Append(@, o)]

\* The orders that topic t carries a record of.
Published(t) == {log[t][i] : i \in DOMAIN log[t]}

HasRecord(s) == position[s] < Len(log[s[2]])
Record(s)    == log[s[2]][position[s] + 1]

\* The handler returned and the consumer committed the record's offset.
Ack(s) ==
    /\ position'  = [position EXCEPT ![s] = @ + 1]
    /\ committed' = [committed EXCEPT ![s] = position[s] + 1]

\* The consumer goes on to the next record without committing this one.
Skip(s) ==
    /\ position' = [position EXCEPT ![s] = @ + 1]
    /\ UNCHANGED committed

\* A handler that finished: its commit normally follows, but may fail.
Done(s) ==
    \/ NoFault /\ Ack(s)
    \/ Fault("commit_lost") /\ Skip(s)

\* Where subscription s resumes when its group's process starts again.
ResumeAt(s) ==
    IF committed[s] = 0 /\ s[1] \in LatestReset THEN Len(log[s[2]])
                                                ELSE committed[s]

Restart(g) ==
    /\ Fault("restart")
    /\ position' = [s \in Subscriptions |-> IF s[1] = g THEN ResumeAt(s)
                                                        ELSE position[s]]
    /\ UNCHANGED <<log, committed>>

\* The least row of a non-empty set of outbox rows: the oldest one.
Oldest(rows) == CHOOSE i \in rows : \A j \in rows : i <= j

\* The (at most) n oldest rows of a set: ORDER BY created_at LIMIT n.
OldestRows(rows, n) == {i \in rows : Cardinality({j \in rows : j < i}) < n}
=============================================================================
