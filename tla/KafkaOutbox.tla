----------------------------- MODULE KafkaOutbox -----------------------------
(***************************************************************************)
(* The product service's outbox: the kafka_outbox table and the scheduled  *)
(* publishers that empty it.  A publisher claims a batch of PENDING rows   *)
(* by making them PROCESSING, then sends them one by one.  Any number of   *)
(* instances may poll the same table.                                      *)
(*                                                                         *)
(* Time is abstract: a row that no publisher is working on any more may be *)
(* stale at any later tick; a row some publisher still works on is stale   *)
(* only if that publisher is slower than the limit.                        *)
(***************************************************************************)
EXTENDS Shop

CONSTANTS
    Publishers,   \* instances that run the publisher
    BatchSize,    \* rows one tick claims at most
    MaxAttempts   \* MAX_ATTEMPTS

VARIABLES
    outbox,       \* kafka_outbox, oldest row first
    claimed       \* claimed[p]: rows instance p has claimed and not yet worked through

outboxVars == <<outbox, claimed>>

ASSUME OutboxAssumption == BatchSize \in Nat /\ MaxAttempts \in Nat \ {0}

OutboxRows == [order : Orders, topic : {"stock.reduction.success", "stock.reduction.fail"},
               status : {"PENDING", "PROCESSING", "PUBLISHED", "FAILED"}, attempts : Nat]

OutboxTypeOK ==
    /\ outbox \in Seq(OutboxRows)
    /\ claimed \in [Publishers -> SUBSET (DOMAIN outbox)]

OutboxInit ==
    /\ outbox = <<>>
    /\ claimed = [p \in Publishers |-> {}]

----------------------------------------------------------------------------
\* Mutant: the event goes to a topic nobody reads.
EnqueueElsewhere(t, o) ==
    outbox' = Append(outbox, [order |-> o, topic |-> "stock.reduction",
                              status |-> "PENDING", attempts |-> 0])

Enqueue(t, o) ==
    outbox' = Append(outbox, [order |-> o, topic |-> t, status |-> "PENDING", attempts |-> 0])

RowsIn(status) == {i \in DOMAIN outbox : outbox[i].status = status}

InProgress == UNION {claimed[p] : p \in Publishers}

\* Mutant: rows left in PROCESSING are never put back.
PublisherTickForgets(p) ==
    /\ claimed[p] = {}
    /\ LET batch == OldestRows(RowsIn("PENDING"), BatchSize)
       IN  /\ batch # {}
           /\ claimed' = [claimed EXCEPT ![p] = batch]
           /\ outbox' = [i \in DOMAIN outbox |->
                 IF i \in batch THEN [outbox[i] EXCEPT !.status = "PROCESSING"] ELSE outbox[i]]
    /\ NoFault
    /\ UNCHANGED <<log, position, committed>>

\* Mutant: a claim is a plain SELECT.
PublisherTickReads(p) ==
    /\ claimed[p] = {}
    /\ RowsIn("PENDING") # {}
    /\ claimed' = [claimed EXCEPT ![p] = OldestRows(RowsIn("PENDING"), BatchSize)]
    /\ NoFault
    /\ UNCHANGED <<outbox, log, position, committed>>

\* One tick up to its claim: requeueStaleProcessing, then claimNextBatch.
PublisherTick(p) ==
    /\ claimed[p] = {}
    /\ \E stale \in SUBSET RowsIn("PROCESSING") :
        /\ IF stale \cap InProgress = {} THEN NoFault ELSE Fault("slow_publisher")
        /\ LET batch == OldestRows(RowsIn("PENDING") \cup stale, BatchSize)
           IN  /\ stale \cup batch # {}
               /\ claimed' = [claimed EXCEPT ![p] = batch]
               /\ outbox' = [i \in DOMAIN outbox |->
                     IF i \in batch THEN [outbox[i] EXCEPT !.status = "PROCESSING"]
                     ELSE IF i \in stale THEN [outbox[i] EXCEPT !.status = "PENDING"]
                     ELSE outbox[i]]
    /\ UNCHANGED <<log, position, committed>>

MarkPublished(i) == outbox' = [outbox EXCEPT ![i].status = "PUBLISHED"]

\* Mutant: a row whose send failed counts as done.
MarkRetryNever(i) ==
    outbox' = [outbox EXCEPT ![i].attempts = @ + 1, ![i].status = "PUBLISHED"]

MarkRetry(i) ==
    LET nextAttempts == outbox[i].attempts + 1
    IN  outbox' = [outbox EXCEPT ![i].attempts = nextAttempts,
                                 ![i].status = IF nextAttempts >= MaxAttempts
                                               THEN "FAILED" ELSE "PENDING"]

\* One message of the batch.  A send that fails, or that succeeds but is not
\* confirmed in time or cannot be recorded, counts as an attempt; when even
\* that cannot be recorded the rest of the batch is abandoned.
PublishRow(p) ==
    /\ claimed[p] # {}
    /\ LET i == Oldest(claimed[p])
           send == Publish(outbox[i].topic, outbox[i].order)
           rest == claimed' = [claimed EXCEPT ![p] = @ \ {i}]
       IN  \/ NoFault /\ send /\ MarkPublished(i) /\ rest
           \/ Fault("publish_error") /\ UNCHANGED log /\ MarkRetry(i) /\ rest
           \/ Fault("ack_lost") /\ send /\ MarkRetry(i) /\ rest
           \/ /\ Fault("mark_error")
              /\ (send \/ UNCHANGED log)
              /\ claimed' = [claimed EXCEPT ![p] = {}]
              /\ UNCHANGED outbox
    /\ UNCHANGED <<position, committed>>

OutboxStep == \E p \in Publishers : PublisherTick(p) \/ PublishRow(p)

----------------------------------------------------------------------------
\* A row is PUBLISHED only once its event is on the topic (markPublished
\* after the broker's confirmation), whatever the publishers do to it.
OutboxPublishedIsOnTopic ==
    \A i \in RowsIn("PUBLISHED") : outbox[i].order \in Published(outbox[i].topic)

\* A PUBLISHED row stays so: no publisher sends it again or retries it.
\* markRetry and markPublished write by id, whatever the row's status, so
\* this rests on the claims alone, and holds while no publisher is slower
\* than the limit after which its rows count as stale.
PublishedIsFinal ==
    [][\A i \in RowsIn("PUBLISHED") : outbox'[i].status = "PUBLISHED"]_outboxVars
=============================================================================
