---------------------------- MODULE Kafka_proofs ----------------------------
(***************************************************************************)
(* Facts about the broker that the proofs about every service rest on.     *)
(***************************************************************************)
EXTENDS Kafka, TLAPS, WellFoundedInduction, SequenceTheorems, FiniteSetTheorems

\* A fault is counted and never exceeds the bound.
LEMMA FaultCounted ==
    ASSUME faults \in 0..MaxFaults, NEW kind, NoFault \/ Fault(kind)
    PROVE  faults' \in 0..MaxFaults
BY FaultsAssumption DEF NoFault, Fault

\* Publishing adds a record to one log and takes none away from any.
LEMMA PublishGrows ==
    ASSUME log \in [Topics -> Seq(Orders)],
           NEW t \in Topics, NEW o \in Orders, Publish(t, o)
    PROVE  /\ log' \in [Topics -> Seq(Orders)]
           /\ \A x \in Topics : Published(x) \subseteq Published(x)'
           /\ o \in Published(t)'
           /\ \A x \in Topics : Published(x)' \subseteq Published(x) \cup {o}
           /\ \A x \in Topics \ {t} : log'[x] = log[x]
<1>1. log' \in [Topics -> Seq(Orders)] /\ \A x \in Topics \ {t} : log'[x] = log[x]
  BY DEF Publish
<1>2. log'[t] = Append(log[t], o)
  BY DEF Publish
<1>3. log[t] \in Seq(Orders)
  OBVIOUS
<1>4. /\ DOMAIN log'[t] = 1..(Len(log[t]) + 1)
      /\ \A i \in 1..Len(log[t]) : log'[t][i] = log[t][i]
      /\ log'[t][Len(log[t]) + 1] = o
  BY <1>2, <1>3
<1>5. DOMAIN log[t] = 1..Len(log[t])
  BY <1>3
<1>6. Published(t) \subseteq Published(t)' /\ o \in Published(t)'
  BY <1>3, <1>4, <1>5 DEF Published
<1>7. Published(t)' \subseteq Published(t) \cup {o}
  BY <1>3, <1>4, <1>5 DEF Published
<1>8. \A x \in Topics \ {t} : Published(x)' = Published(x)
  BY <1>1 DEF Published
<1> QED
  BY <1>1, <1>6, <1>7, <1>8

\* The records of a topic keep their offsets.
LogsGrow ==
    \A t \in Topics :
        /\ Len(log[t]) <= Len(log'[t])
        /\ \A i \in 1..Len(log[t]) : log'[t][i] = log[t][i]

\* A step that publishes at most one event leaves every topic a prefix of what it becomes.
LEMMA OffsetsStay ==
    ASSUME log \in [Topics -> Seq(Orders)],
           log' = log \/ \E t \in Topics, o \in Orders : Publish(t, o)
    PROVE  LogsGrow
<1>1. \A t \in Topics : log[t] \in Seq(Orders) /\ Len(log[t]) \in Nat
  OBVIOUS
<1>2. ASSUME NEW t \in Topics, NEW o \in Orders, Publish(t, o)
      PROVE  LogsGrow
  <2>1. log'[t] = Append(log[t], o) /\ \A x \in Topics \ {t} : log'[x] = log[x]
    BY <1>2 DEF Publish
  <2>2. /\ Len(log[t]) <= Len(log'[t])
        /\ \A i \in 1..Len(log[t]) : log'[t][i] = log[t][i]
    BY <1>1, <2>1
  <2>3. ASSUME NEW x \in Topics \ {t}
        PROVE  /\ Len(log[x]) <= Len(log'[x])
               /\ \A i \in 1..Len(log[x]) : log'[x][i] = log[x][i]
    <3>1. Len(log[x]) \in Nat /\ log'[x] = log[x]
      BY <1>1, <2>1
    <3> QED
      BY <3>1
  <2> QED
    BY <2>2, <2>3, Zenon DEF LogsGrow
<1>3. log' = log => LogsGrow
  BY <1>1 DEF LogsGrow
<1> QED
  BY <1>2, <1>3

\* The record a subscription is about to handle is on its topic.
LEMMA RecordIsPublished ==
    ASSUME KafkaTypeOK, NEW s \in Subscriptions, s[2] \in Topics, HasRecord(s)
    PROVE  Record(s) \in Orders /\ Record(s) \in Published(s[2])
<1>1. log[s[2]] \in Seq(Orders) /\ position[s] \in Nat
  BY DEF KafkaTypeOK
<1>2. position[s] + 1 \in 1..Len(log[s[2]])
  BY <1>1 DEF HasRecord
<1> QED
  BY <1>1, <1>2 DEF Record, Published

\* Moving on, with or without a commit, keeps offsets natural numbers.
LEMMA DoneKeepsTypes ==
    ASSUME KafkaTypeOK, NEW s \in Subscriptions, log' = log,
           Done(s) \/ (NoFault /\ Skip(s)) \/ (\E k \in FaultKinds : Fault(k) /\ Skip(s))
    PROVE  KafkaTypeOK'
<1>1. faults' \in 0..MaxFaults
  BY FaultsAssumption DEF Done, NoFault, Fault, KafkaTypeOK
<1>2. Ack(s) \/ Skip(s)
  BY DEF Done
<1>3. position[s] + 1 \in Nat
  BY DEF KafkaTypeOK
<1>4. position' \in [Subscriptions -> Nat] /\ committed' \in [Subscriptions -> Nat]
  BY <1>2, <1>3 DEF Ack, Skip, KafkaTypeOK
<1> QED
  BY <1>1, <1>4 DEF KafkaTypeOK

\* So does a restart, which leaves the logs alone.
LEMMA RestartKeepsTypes ==
    ASSUME KafkaTypeOK, NEW g, Restart(g)
    PROVE  KafkaTypeOK' /\ log' = log
<1>1. \A s \in Subscriptions : s[2] \in Topics
  BY DEF Subscriptions, OrderTopics, StockTopics, UserTopics, Topics
<1>2. \A s \in Subscriptions : Len(log[s[2]]) \in Nat
  BY <1>1 DEF KafkaTypeOK
<1>3. \A s \in Subscriptions : ResumeAt(s) \in Nat
  BY <1>2 DEF ResumeAt, KafkaTypeOK
<1>4. position' \in [Subscriptions -> Nat]
  BY <1>3 DEF Restart, KafkaTypeOK
<1> QED
  BY <1>4, FaultsAssumption DEF Restart, Fault, KafkaTypeOK

\* The oldest rows of a set are among its rows, and there is an oldest one.
LEMMA OldestIsMember ==
    ASSUME NEW rows, rows \subseteq Nat, rows # {}
    PROVE  Oldest(rows) \in rows
<1> DEFINE Less == {ss \in Nat \X Nat : ss[1] < ss[2]}
<1>1. IsWellFoundedOn(Less, Nat)
  BY NatLessThanWellFounded DEF OpToRel
<1> HIDE DEF Less
<1>2. PICK i \in rows : \A j \in rows : ~(<<j, i>> \in Less)
  BY <1>1, WFMin
<1>3. \A j \in rows : i <= j
  <2>1. TAKE j \in rows
  <2>2. <<j, i>> \notin Less /\ i \in Nat /\ j \in Nat
    BY <1>2
  <2>3. ~(j < i)
    BY <2>2 DEF Less
  <2> QED
    BY <2>2, <2>3
<1> QED
  BY <1>3 DEF Oldest

\* A table of rows: what an element is, and what an update and an insert do.
LEMMA RowOfTable ==
    ASSUME NEW S, NEW rows \in Seq(S), NEW i \in DOMAIN rows
    PROVE  rows[i] \in S /\ i \in Nat
OBVIOUS

\* An update of one row keeps the table's type and its row numbers.
LEMMA UpdateRow ==
    ASSUME NEW S, NEW rows \in Seq(S), NEW i \in DOMAIN rows, NEW r \in S
    PROVE  /\ [rows EXCEPT ![i] = r] \in Seq(S)
           /\ DOMAIN [rows EXCEPT ![i] = r] = DOMAIN rows
BY ExceptSeq

\* An insert adds the next row number and leaves every other row as it was.
LEMMA InsertRow ==
    ASSUME NEW S, NEW rows \in Seq(S), NEW r \in S
    PROVE  /\ Append(rows, r) \in Seq(S)
           /\ DOMAIN rows \subseteq DOMAIN Append(rows, r)
           /\ DOMAIN Append(rows, r) = DOMAIN rows \cup {Len(rows) + 1}
           /\ Len(rows) + 1 \notin DOMAIN rows
           /\ \A i \in DOMAIN rows : Append(rows, r)[i] = rows[i]
           /\ Append(rows, r)[Len(rows) + 1] = r
OBVIOUS

\* An update of many rows at once keeps the table's row numbers.
LEMMA RewriteRows ==
    ASSUME NEW S, NEW rows \in Seq(S), NEW new \in [DOMAIN rows -> S]
    PROVE  new \in Seq(S) /\ DOMAIN new = DOMAIN rows
<1>1. Len(rows) \in Nat /\ DOMAIN rows = 1..Len(rows)
  OBVIOUS
<1> QED
  BY <1>1, SeqDef

----------------------------------------------------------------------------
(***************************************************************************)
(* Counting: units of stock and coins are counted one by one, each paired  *)
(* with the order that holds it.                                           *)
(***************************************************************************)
\* An order's n units are n.
LEMMA CountedUnits ==
    ASSUME NEW x, NEW n \in Nat
    PROVE  IsFiniteSet({x} \X (1..n)) /\ Cardinality({x} \X (1..n)) = n
<1>1. IsFiniteSet({x}) /\ Cardinality({x}) = 1
  BY FS_Singleton
<1>2. IsFiniteSet(1..n) /\ Cardinality(1..n) = n
  <2>1. Cardinality(1..n) = IF 1 > n THEN 0 ELSE n - 1 + 1
    BY FS_Interval
  <2> QED
    BY <2>1, FS_Interval
<1>3. /\ IsFiniteSet({x} \X (1..n))
      /\ Cardinality({x} \X (1..n)) = Cardinality({x}) * Cardinality(1..n)
  BY <1>1, <1>2, FS_Product
<1> QED
  BY <1>1, <1>2, <1>3

\* Counting a set with something new in it.
LEMMA CountDisjoint ==
    ASSUME NEW S, NEW T, IsFiniteSet(S), IsFiniteSet(T), S \cap T = {}
    PROVE  /\ IsFiniteSet(S \cup T)
           /\ Cardinality(S \cup T) = Cardinality(S) + Cardinality(T)
           /\ Cardinality(S) \in Nat /\ Cardinality(T) \in Nat
<1>1. /\ IsFiniteSet(S \cup T)
      /\ Cardinality(S \cup T) = Cardinality(S) + Cardinality(T) - Cardinality(S \cap T)
  BY FS_Union
<1>2. Cardinality(S \cap T) = 0
  BY FS_EmptySet
<1>3. Cardinality(S) \in Nat /\ Cardinality(T) \in Nat
  BY FS_CardinalityType
<1> QED
  BY <1>1, <1>2, <1>3
=============================================================================
