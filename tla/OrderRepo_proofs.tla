-------------------------- MODULE OrderRepo_proofs --------------------------
(***************************************************************************)
(* The order service at the grain of its SQL statements, for every value   *)
(* of the constants: RepoInv is inductive and implies the properties.      *)
(***************************************************************************)
EXTENDS OrderRepo, TLAPS, WellFoundedInduction, SequenceTheorems, FiniteSetTheorems

----------------------------------------------------------------------------
(***************************************************************************)
(* The codec: what is written is read back.                                *)
(***************************************************************************)
\* Induction over numbers, for a set of them.
LEMMA NatInduct ==
    ASSUME NEW P \in SUBSET Nat, 0 \in P, \A n \in P : n + 1 \in P
    PROVE  P = Nat
<1> DEFINE Less == {ss \in Nat \X Nat : ss[1] < ss[2]}
<1>1. IsWellFoundedOn(Less, Nat)
  BY NatLessThanWellFounded DEF OpToRel
<1> HIDE DEF Less
<1> SUFFICES ASSUME Nat \ P # {} PROVE FALSE
  OBVIOUS
<1>2. PICK i \in Nat \ P : \A j \in Nat \ P : ~(<<j, i>> \in Less)
  <2> DEFINE T == Nat \ P
  <2>1. T \subseteq Nat /\ T # {}
    OBVIOUS
  <2> HIDE DEF T
  <2>2. \E x \in T : \A y \in T : ~(<<y, x>> \in Less)
    BY <1>1, <2>1, WFMin
  <2> QED
    BY <2>2 DEF T
<1>3. i # 0 /\ i - 1 \in Nat
  OBVIOUS
<1>4. <<i - 1, i>> \in Less
  BY <1>3 DEF Less
<1>5. i - 1 \in P
  BY <1>2, <1>3, <1>4
<1>6. (i - 1) + 1 \in P
  BY <1>5
<1> QED
  BY <1>6

ArrayBody(bytes, f, p) ==
    IF p > Len(bytes) THEN [whole |-> FALSE, items |-> <<>>]
    ELSE IF bytes[p] = 0 THEN [whole |-> TRUE, items |-> <<>>]
    ELSE LET next == p + 1 + width * bytes[p]
         IN  IF next \notin p + 1..Len(bytes) THEN [whole |-> FALSE, items |-> <<>>]
             ELSE [f[next] EXCEPT !.items = Block(bytes, p, bytes[p]) \o @]

\* Reading from byte p uses what is read from later bytes only.
LEMMA ArrayBodyLocal ==
    ASSUME NEW bytes, Len(bytes) \in Nat, NEW p \in Nat, NEW f, NEW g,
           \A q \in p + 1..Len(bytes) : f[q] = g[q]
    PROVE  ArrayBody(bytes, f, p) = ArrayBody(bytes, g, p)
BY DEF ArrayBody

\* There is a function that reads an array from every byte of it.
LEMMA ArrayReadable ==
    ASSUME NEW bytes, Len(bytes) \in Nat
    PROVE  \E f : f = [p \in 1..Len(bytes) + 1 |-> ArrayBody(bytes, f, p)]
<1> DEFINE N == Len(bytes) + 1
           P == {n \in Nat : \E f : f = [p \in N - n..N |-> ArrayBody(bytes, f, p)] \/ n > N}
<1>1. 0 \in P
  <2> DEFINE g == [p \in N..N |-> ArrayBody(bytes, <<>>, p)]
  <2>0. \A p \in N..N : p > Len(bytes)
    OBVIOUS
  <2> HIDE DEF g, N
  <2>1. \A p \in N..N : ArrayBody(bytes, <<>>, p) = ArrayBody(bytes, g, p)
    BY <2>0 DEF ArrayBody
  <2> USE DEF g, N
  <2>2. g = [p \in N - 0..N |-> ArrayBody(bytes, g, p)]
    BY <2>1
  <2> QED
    BY <2>2
<1>2. ASSUME NEW n \in P PROVE n + 1 \in P
  <2>1. CASE n + 1 > N
    BY <2>1
  <2>2. CASE n + 1 <= N
    <3>1. PICK f : f = [p \in N - n..N |-> ArrayBody(bytes, f, p)]
      BY <2>2
    <3> DEFINE k == N - (n + 1)
               g == [p \in k..N |-> IF p = k THEN ArrayBody(bytes, f, p) ELSE f[p]]
    <3>2. k \in Nat /\ k + 1 = N - n
      BY <2>2
    <3>3. ASSUME NEW p \in k..N PROVE g[p] = ArrayBody(bytes, g, p)
      <4>1. \A q \in p + 1..Len(bytes) : f[q] = g[q]
        BY <3>2
      <4>0. p \in Nat
        BY <3>2
      <4> HIDE DEF g, N, k
      <4>2. ArrayBody(bytes, f, p) = ArrayBody(bytes, g, p)
        BY <4>0, <4>1, ArrayBodyLocal
      <4> USE DEF g, N, k
      <4>3. g[p] = ArrayBody(bytes, f, p)
        BY <3>1, <3>2
      <4> QED
        BY <4>2, <4>3
    <3>4. g = [p \in N - (n + 1)..N |-> ArrayBody(bytes, g, p)]
      BY <3>3
    <3> HIDE DEF g
    <3> QED
      BY <3>4
  <2> QED
    BY <2>1, <2>2
<1>3. P = Nat
  <2> HIDE DEF P
  <2>1. P \in SUBSET Nat
    BY DEF P
  <2> QED
    BY <1>1, <1>2, <2>1, NatInduct
<1>4. Len(bytes) \in P
  BY <1>3
<1> QED
  BY <1>4

\* ReadArrayItem is such a function at the first byte.
LEMMA ArrayIsRead ==
    ASSUME NEW bytes, Len(bytes) \in Nat
    PROVE  \E f : /\ f = [p \in 1..Len(bytes) + 1 |-> ArrayBody(bytes, f, p)]
                  /\ ReadArrayItem(bytes) = f[1]
<1> DEFINE f == CHOOSE f : f = [p \in 1..Len(bytes) + 1 |-> ArrayBody(bytes, f, p)]
<1>1. f = [p \in 1..Len(bytes) + 1 |-> ArrayBody(bytes, f, p)]
  BY ArrayReadable
<1>2. ReadArrayItem(bytes) = f[1]
  BY DEF ReadArrayItem, ArrayBody
<1> QED
  BY <1>1, <1>2

IsItem(x) == x = [variant_id |-> x.variant_id, quantity |-> x.quantity, unit_price |-> x.unit_price]

IsArray(items) == \E n \in Nat : /\ items = [k \in 1..n |-> items[k]]
                                 /\ \A k \in 1..n : IsItem(items[k])

\* A function on 1..m is a sequence.
LEMMA FunctionIsSeq ==
    ASSUME NEW m \in Nat, NEW f, DOMAIN f = 1..m, f = [j \in DOMAIN f |-> f[j]],
           NEW S, \A j \in 1..m : f[j] \in S
    PROVE  f \in Seq(S) /\ Len(f) = m
OBVIOUS

\* The three fields of an item are read in the order in which they were
\* written.
LEMMA ReadItem ==
    ASSUME NEW s, NEW a, NEW b, NEW c, Len(s) \in Nat, Len(s) >= 3, s[1] = a, s[2] = b, s[3] = c
    PROVE  Read(ItemGet, s) = [variant_id |-> a, quantity |-> b, unit_price |-> c]
<1> DEFINE get == <<"variant_id", "quantity", "unit_price">>
<1>1. Len(get) = 3 /\ DOMAIN get = 1..3 /\ get[1] = "variant_id" /\ get[2] = "quantity" /\ get[3] = "unit_price"
  OBVIOUS
<1> HIDE DEF get
<1>2. {get[k] : k \in DOMAIN get} = {"variant_id", "quantity", "unit_price"}
  BY <1>1
<1>3. ASSUME NEW k \in 1..3 PROVE (CHOOSE j \in DOMAIN get : get[j] = get[k]) = k
  BY <1>1
<1>4. Read(get, s) = [f \in {get[k] : k \in DOMAIN get} |->
             s[CHOOSE k \in DOMAIN get : get[k] = f]]
  BY <1>1 DEF Read
<1>5. /\ s[CHOOSE k \in DOMAIN get : get[k] = "variant_id"] = a
      /\ s[CHOOSE k \in DOMAIN get : get[k] = "quantity"] = b
      /\ s[CHOOSE k \in DOMAIN get : get[k] = "unit_price"] = c
  <2>1. (CHOOSE k \in DOMAIN get : get[k] = "variant_id") = 1
    BY <1>1
  <2>2. (CHOOSE k \in DOMAIN get : get[k] = "quantity") = 2
    BY <1>1
  <2>3. (CHOOSE k \in DOMAIN get : get[k] = "unit_price") = 3
    BY <1>1
  <2> QED
    BY <2>1, <2>2, <2>3
<1>6. Read(get, s) = [variant_id |-> a, quantity |-> b, unit_price |-> c]
  BY <1>2, <1>4, <1>5
<1> QED
  BY <1>6 DEF ItemGet, get

\* An array of items is read back as it was written: by induction on the items
\* still to be read, backwards from the end of the array.
LEMMA ArrayReadBack ==
    ASSUME NEW items, IsArray(items)
    PROVE  /\ ReadArrayItem(writeArrayItem(items)) = [whole |-> TRUE, items |-> items]
           /\ \E n \in Nat : Len(writeArrayItem(items)) = n + 1
           /\ writeArrayItem(items) = [k \in 1..Len(writeArrayItem(items)) |-> writeArrayItem(items)[k]]
<1>1. PICK n \in Nat : /\ items = [k \in 1..n |-> items[k]]
                       /\ \A k \in 1..n : IsItem(items[k])
  BY DEF IsArray
<1>2. Len(items) = n
  BY <1>1
<1>3. width = 3
  BY DEF width, ItemGet
<1> DEFINE bytes == writeArrayItem(items)
<1>4. CASE n = 0
  <2>1. items = <<>>
    BY <1>1, <1>4
  <2>2. bytes = <<0>>
    BY <2>1 DEF writeArrayItem
  <2>3. Len(bytes) = 1 /\ bytes[1] = 0
    BY <2>2
  <2> HIDE DEF bytes
  <2>4. PICK f : /\ f = [p \in 1..Len(bytes) + 1 |-> ArrayBody(bytes, f, p)]
                 /\ ReadArrayItem(bytes) = f[1]
    <3>1. Len(bytes) \in Nat
      BY <2>3
    <3> QED
      BY <3>1, ArrayIsRead
  <2>5. f[1] = ArrayBody(bytes, f, 1)
    BY <2>3, <2>4
  <2>6. f[1] = [whole |-> TRUE, items |-> <<>>]
    BY <2>3, <2>5 DEF ArrayBody
  <2>7. bytes = [k \in 1..Len(bytes) |-> bytes[k]] /\ Len(bytes) = 0 + 1
    BY <2>2, <2>3
  <2>8. ReadArrayItem(bytes) = [whole |-> TRUE, items |-> items]
    BY <2>1, <2>4, <2>6
  <2> QED
    BY <2>7, <2>8 DEF bytes
<1>5. CASE n > 0
  <2> DEFINE els == Elements(items)
  <2>1. els = [j \in 1..3 * n |-> writeItem(items[((j - 1) \div 3) + 1])[((j - 1) % 3) + 1]]
    BY <1>2, <1>3 DEF Elements
  <2> HIDE DEF els
  <2>2. Len(els) = 3 * n /\ els \in Seq({els[j] : j \in 1..3 * n})
    <3>1. 3 * n \in Nat /\ DOMAIN els = 1..3 * n /\ els = [j \in DOMAIN els |-> els[j]]
      BY <2>1
    <3> QED
      BY <3>1, FunctionIsSeq
  <2>3. ASSUME NEW k \in 1..n, NEW i \in 1..3
        PROVE  els[3 * (k - 1) + i] = writeItem(items[k])[i]
    <3> DEFINE j == 3 * (k - 1) + i
    <3>1. j \in 1..3 * n /\ ((j - 1) \div 3) + 1 = k /\ ((j - 1) % 3) + 1 = i
      <4>1. j \in 1..3 * n
        OBVIOUS
      <4>2. j - 1 = 3 * (k - 1) + (i - 1) /\ i - 1 \in 0..2 /\ k - 1 \in Nat
        OBVIOUS
      <4>3. (j - 1) \div 3 = k - 1 /\ (j - 1) % 3 = i - 1
        BY <4>2
      <4> QED
        BY <4>1, <4>3
    <3> QED
      BY <2>1, <3>1
  <2>4. items # <<>>
    BY <1>2, <1>5
  <2>5. bytes = <<n>> \o els \o <<0>>
    BY <1>2, <2>4 DEF writeArrayItem, els
  <2> HIDE DEF bytes
  <2>6. /\ Len(bytes) = 3 * n + 2 /\ bytes[1] = n /\ bytes[3 * n + 2] = 0
        /\ \A j \in 1..3 * n : bytes[j + 1] = els[j]
        /\ bytes = [k \in 1..Len(bytes) |-> bytes[k]]
    <3> DEFINE S == {els[j] : j \in 1..3 * n} \cup {0, n}
    <3>1. els \in Seq(S) /\ <<n>> \in Seq(S) /\ <<0>> \in Seq(S)
      BY <2>2
    <3> HIDE DEF S
    <3>2. <<n>> \o els \in Seq(S) /\ Len(<<n>> \o els) = 3 * n + 1 
      BY <3>1, <2>2
    <3>3. (<<n>> \o els)[1] = n /\ \A j \in 1..3 * n : (<<n>> \o els)[j + 1] = els[j]
      BY <3>1, <2>2
    <3>4. bytes \in Seq(S) /\ Len(bytes) = 3 * n + 2
      BY <3>1, <3>2, <2>5
    <3>5. \A k \in 1..3 * n + 1 : bytes[k] = (<<n>> \o els)[k]
      BY <3>1, <3>2, <2>5
    <3>6. bytes[3 * n + 2] = 0
      BY <3>1, <3>2, <2>5
    <3>7. bytes = [k \in 1..Len(bytes) |-> bytes[k]]
      BY <3>4
    <3>8. ASSUME NEW j \in 1..3 * n PROVE bytes[j + 1] = els[j]
      <4>1. j + 1 \in 1..3 * n + 1
        OBVIOUS
      <4> QED
        BY <4>1, <3>3, <3>5
    <3>9. bytes[1] = n
      BY <3>3, <3>5
    <3> QED
      BY <3>4, <3>6, <3>7, <3>8, <3>9
  <2>7. PICK f : /\ f = [p \in 1..Len(bytes) + 1 |-> ArrayBody(bytes, f, p)]
                 /\ ReadArrayItem(bytes) = f[1]
    BY <2>6, ArrayIsRead
  <2>8. f[3 * n + 2] = [whole |-> TRUE, items |-> <<>>]
    <3>0. 3 * n + 2 \in 1..Len(bytes) + 1 /\ ~(3 * n + 2 > Len(bytes))
      BY <2>6
    <3> DEFINE p == 3 * n + 2
    <3> HIDE DEF p
    <3>1. f[p] = ArrayBody(bytes, f, p)
      BY <3>0, <2>7 DEF p
    <3>2. bytes[p] = 0 /\ ~(p > Len(bytes))
      BY <3>0, <2>6 DEF p
    <3>3. f[p] = [whole |-> TRUE, items |-> <<>>]
      BY <3>1, <3>2 DEF ArrayBody
    <3> QED
      BY <3>3 DEF p
  <2>9. Block(bytes, 1, n) = items
    <3>1. ASSUME NEW k \in 1..n
          PROVE  Read(ItemGet, SubSeq(bytes, 2 + 3 * (k - 1), Len(bytes))) = items[k]
      <4> DEFINE p == 2 + 3 * (k - 1)
                 s == SubSeq(bytes, p, Len(bytes))
                 S == {bytes[j] : j \in 1..Len(bytes)}
      <4>0. p \in Nat /\ p >= 2 /\ p + 2 <= Len(bytes)
        BY <2>6
      <4>1. bytes \in Seq(S)
        BY <2>6
      <4>2. Len(s) = Len(bytes) - p + 1 /\ \A i \in 1..3 : s[i] = bytes[p + i - 1]
        <5> HIDE DEF p, S
        <5>1. p \in 1..Len(bytes) + 1 /\ Len(bytes) \in Nat
          BY <4>0, <2>6
        <5>2. Len(s) = Len(bytes) - p + 1
          BY <4>0, <4>1, <5>1, SubSeqProperties
        <5>3. ASSUME NEW i \in 1..3 PROVE s[i] = bytes[p + i - 1]
          BY <4>0, <4>1, <5>1, SubSeqProperties
        <5> QED
          BY <5>2, <5>3
      <4>3. ASSUME NEW i \in 1..3 PROVE s[i] = writeItem(items[k])[i]
        <5>1. s[i] = bytes[p + i - 1]
          BY <4>2
        <5>2. p + i - 1 = (3 * (k - 1) + i) + 1 /\ 3 * (k - 1) + i \in 1..3 * n
          OBVIOUS
        <5>3. s[i] = els[3 * (k - 1) + i]
          BY <5>1, <5>2, <2>6
        <5> QED
          BY <5>3, <2>3
      <4>b. Len(bytes) \in Nat
        BY <2>6
      <4> HIDE DEF s, p
      <4>4. s[1] = items[k].variant_id /\ s[2] = items[k].quantity /\ s[3] = items[k].unit_price
        BY <4>3 DEF writeItem
      <4>5. Len(s) \in Nat /\ Len(s) >= 3
        BY <4>0, <4>2, <4>b
      <4>6. Read(ItemGet, s) = [variant_id |-> items[k].variant_id, quantity |-> items[k].quantity,
                                unit_price |-> items[k].unit_price]
        BY <4>4, <4>5, ReadItem
      <4> QED
        BY <4>6, <1>1 DEF IsItem, s, p
    <3>2. Block(bytes, 1, n) = [k \in 1..n |-> Read(ItemGet, SubSeq(bytes, 2 + 3 * (k - 1), Len(bytes)))]
      BY <1>3 DEF Block
    <3> QED
      BY <3>1, <3>2, <1>1
  <2>10. f[1] = [whole |-> TRUE, items |-> items]
    <3>0. 1 \in 1..Len(bytes) + 1
      BY <2>6
    <3>1. f[1] = ArrayBody(bytes, f, 1)
      BY <3>0, <2>7
    <3>2. /\ 1 + 1 + width * bytes[1] = 3 * n + 2 /\ 3 * n + 2 \in 1 + 1..Len(bytes)
          /\ ~(1 > Len(bytes)) /\ bytes[1] # 0
      <4>1. bytes[1] = n /\ width = 3
        BY <2>6, <1>3, <1>5
      <4>2. 3 * n + 2 \in 1 + 1..Len(bytes) /\ ~(1 > Len(bytes)) /\ n # 0
        BY <2>6, <1>5
      <4>3. 1 + 1 + 3 * n = 3 * n + 2
        OBVIOUS
      <4> QED
        BY <4>1, <4>2, <4>3
    <3>3. f[1] = [f[3 * n + 2] EXCEPT !.items = Block(bytes, 1, n) \o @]
      BY <3>1, <3>2, <2>6 DEF ArrayBody
    <3>4. items \o <<>> = items
      <4>1. DOMAIN items = 1..n /\ items = [j \in DOMAIN items |-> items[j]]
        BY <1>1
      <4>2. items \in Seq({items[j] : j \in 1..n})
        BY <4>1, FunctionIsSeq
      <4> QED
        BY <4>2
    <3>5. f[1] = [[whole |-> TRUE, items |-> <<>>] EXCEPT !.items = items \o @]
      BY <3>3, <2>8, <2>9
    <3> QED
      BY <3>4, <3>5
  <2>11. Len(bytes) = (3 * n + 1) + 1 /\ 3 * n + 1 \in Nat
    BY <2>6
  <2>12. bytes = [k \in 1..Len(bytes) |-> bytes[k]]
    BY <2>6
  <2> QED
    BY <2>7, <2>10, <2>11, <2>12 DEF bytes
<1> QED
  BY <1>4, <1>5

IsEvent(e) ==
    /\ e = [order_id |-> e.order_id, status |-> e.status, temporary_price |-> e.temporary_price,
            customer_id |-> e.customer_id, items |-> e.items]
    /\ IsArray(e.items)

\* What the reader gets from the bytes of an order.created event is the event.
THEOREM EventReadBack ==
    ASSUME NEW e, IsEvent(e)
    PROVE  DeserializeOrderCreatedEvent(writeOrderCreatedEvent(e)) = e
<1> DEFINE array == writeArrayItem(e.items)
           head == <<e.order_id, e.status, e.temporary_price, e.customer_id>>
           bytes == head \o array
           get == OrderCreatedEventGet
<1>1. PICK n \in Nat : Len(array) = n + 1
  BY ArrayReadBack DEF IsEvent
<1>2. ReadArrayItem(array) = [whole |-> TRUE, items |-> e.items] /\ array = [k \in 1..Len(array) |-> array[k]]
  BY ArrayReadBack DEF IsEvent
<1>3. writeOrderCreatedEvent(e) = bytes
  BY DEF writeOrderCreatedEvent
<1>4. /\ Len(get) = 5 /\ DOMAIN get = 1..5 /\ get[1] = "order_id" /\ get[2] = "status"
      /\ get[3] = "temporary_price" /\ get[4] = "customer_id" /\ get[5] = "items"
  BY DEF OrderCreatedEventGet
<1> DEFINE S == {head[j] : j \in 1..4} \cup {array[j] : j \in 1..n + 1}
<1> HIDE DEF array, get
<1>5. head \in Seq(S) /\ Len(head) = 4
  OBVIOUS
<1>6. array \in Seq(S)
  <2>1. n + 1 \in Nat /\ DOMAIN array = 1..n + 1 /\ array = [j \in DOMAIN array |-> array[j]]
    BY <1>1, <1>2
  <2> HIDE DEF head
  <2>2. \A j \in 1..n + 1 : array[j] \in S
    OBVIOUS
  <2> QED
    BY <2>1, <2>2, FunctionIsSeq
<1>7. /\ head[1] = e.order_id /\ head[2] = e.status /\ head[3] = e.temporary_price
      /\ head[4] = e.customer_id
  OBVIOUS
<1> HIDE DEF head, S
<1>8. /\ bytes \in Seq(S) /\ Len(bytes) = n + 5
      /\ \A j \in 1..4 : bytes[j] = head[j]
      /\ \A j \in 1..n + 1 : bytes[j + 4] = array[j]
  <2>1. /\ bytes \in Seq(S) /\ Len(bytes) = Len(head) + Len(array)
        /\ \A i \in 1..Len(head) + Len(array) :
               bytes[i] = IF i <= Len(head) THEN head[i] ELSE array[i - Len(head)]
    BY <1>5, <1>6, ConcatProperties
  <2> HIDE DEF bytes
  <2>2. ASSUME NEW j \in 1..4 PROVE bytes[j] = head[j]
    BY <1>1, <1>5, <2>1
  <2>3. ASSUME NEW j \in 1..n + 1 PROVE bytes[j + 4] = array[j]
    <3>1. j + 4 \in 1..Len(head) + Len(array) /\ ~(j + 4 <= Len(head)) /\ j + 4 - Len(head) = j
      BY <1>1, <1>5
    <3> QED
      BY <3>1, <2>1
  <2>4. bytes \in Seq(S) /\ Len(bytes) = n + 5
    BY <1>1, <1>5, <2>1
  <2> QED
    BY <2>2, <2>3, <2>4
<1> HIDE DEF bytes
<1>9. SubSeq(bytes, 5, Len(bytes)) = array
  <2> DEFINE s == SubSeq(bytes, 5, Len(bytes))
  <2>0. Len(bytes) \in Int /\ \A i \in 5..Len(bytes) : bytes[i] \in S
    BY <1>8
  <2>1. s \in Seq(S) /\ Len(s) = Len(bytes) - 5 + 1 /\ \A i \in 1..Len(bytes) - 5 + 1 : s[i] = bytes[5 + i - 1]
    BY <1>8, <2>0, SubSeqProperties
  <2> HIDE DEF s
  <2>2. Len(s) = n + 1
    BY <2>1, <1>8
  <2>3. ASSUME NEW i \in 1..n + 1 PROVE s[i] = array[i]
    <3>1. i \in 1..Len(bytes) - 5 + 1 /\ 5 + i - 1 = i + 4
      BY <1>8
    <3> QED
      BY <3>1, <2>1, <1>8
  <2>4. s = array
    BY <2>1, <2>2, <2>3, <1>1, <1>6
  <2> QED
    BY <2>4 DEF s
<1>10. Read(get, bytes) = [order_id |-> e.order_id, status |-> e.status, temporary_price |-> e.temporary_price,
            customer_id |-> e.customer_id, items |-> bytes[5]]
  <2>1. {get[k] : k \in DOMAIN get} = {"order_id", "status", "temporary_price", "customer_id", "items"}
    BY <1>4
  <2>2. ~(Len(bytes) < Len(get))
    BY <1>4, <1>8
  <2>3. Read(get, bytes) = [f \in {get[k] : k \in DOMAIN get} |->
             bytes[CHOOSE k \in DOMAIN get : get[k] = f]]
    BY <2>2 DEF Read
  <2>4. (CHOOSE k \in DOMAIN get : get[k] = "order_id") = 1
    BY <1>4
  <2>5. (CHOOSE k \in DOMAIN get : get[k] = "status") = 2
    BY <1>4
  <2>6. (CHOOSE k \in DOMAIN get : get[k] = "temporary_price") = 3
    BY <1>4
  <2>7. (CHOOSE k \in DOMAIN get : get[k] = "customer_id") = 4
    BY <1>4
  <2>8. (CHOOSE k \in DOMAIN get : get[k] = "items") = 5
    BY <1>4
  <2>9. bytes[1] = e.order_id /\ bytes[2] = e.status /\ bytes[3] = e.temporary_price /\ bytes[4] = e.customer_id
    BY <1>7, <1>8
  <2> QED
    BY <2>1, <2>3, <2>4, <2>5, <2>6, <2>7, <2>8, <2>9
<1>11. DeserializeOrderCreatedEvent(bytes) = [Read(get, bytes) EXCEPT !.items = e.items]
  <2>1. Len(OrderCreatedEventGet) = 5 /\ ~(Len(bytes) < 5)
    BY <1>4, <1>8 DEF get
  <2>2. ReadArrayItem(SubSeq(bytes, Len(OrderCreatedEventGet), Len(bytes))) = [whole |-> TRUE, items |-> e.items]
    BY <1>2, <1>9, <2>1
  <2> QED
    BY <2>1, <2>2 DEF DeserializeOrderCreatedEvent, get
<1>12. DeserializeOrderCreatedEvent(bytes) = e
  BY <1>10, <1>11 DEF IsEvent
<1> QED
  BY <1>3, <1>12

----------------------------------------------------------------------------
(***************************************************************************)
(* The invariant.                                                          *)
(***************************************************************************)
\* No row of call c.
Absent(d, c) ==
    /\ d.orders[NewOrder[c]] = Nil /\ d.outbox_events[NewEvent[c]] = Nil
    /\ \A k \in DOMAIN NewItems[c] : d.order_items[NewItems[c][k]] = Nil

DatabaseInv == IsDatabase(db) /\ Constraints(db) /\ RowsOf(db, Calls)

\* What a database holds of call c in state pc with request r.
CommittedRows(d, c, pc, r) ==
    /\ pc \in {"get", "created"} => Stored(d, c, r)
    /\ pc = "failed" => Stored(d, c, r) \/ Absent(d, c)
    /\ pc \in {"new", "refused", "order", "items", "event", "commit"} => Absent(d, c)

\* What its transaction has written.
OwnRows(mine, c, pc, r) ==
    /\ IsDatabase(mine) /\ Constraints(mine) /\ RowsOf(mine, {c})
    /\ pc \notin {"items", "event", "commit"} => mine = NoRows
    /\ pc \in {"items", "event", "commit"} =>
           OrderStored(mine, c, r) /\ mine.orders[NewOrder[c]].status = "created"
    /\ pc = "items" => \A i \in ItemIDs : mine.order_items[i] = Nil
    /\ pc \in {"items", "event"} => mine.outbox_events[NewEvent[c]] = Nil
    /\ pc \in {"event", "commit"} => ItemsStored(mine, c, r)
    /\ pc = "commit" => EventStored(mine, c, r)

CallStates == {"new", "order", "items", "event", "commit", "get", "created", "refused", "failed"}

\* A call, k, in a state of its own: its rows are there, or none of them.
CallIn(d, c, k) ==
    /\ k.pc \in CallStates /\ k.request \in Requests[c]
    /\ CommittedRows(d, c, k.pc, k.request) /\ OwnRows(k.mine, c, k.pc, k.request)

CallInv ==
    /\ call = [c \in Calls |-> [pc |-> call[c].pc, mine |-> call[c].mine, request |-> call[c].request]]
    /\ \A c \in Calls : CallIn(db, c, call[c])

\* The order of call c, committed or not.
Row(d, k, c) == IF k.mine.orders[NewOrder[c]] # Nil THEN k.mine.orders[NewOrder[c]] ELSE d.orders[NewOrder[c]]

\* No two orders are created at the same time.
TimeInv ==
    /\ clock \in Nat
    /\ \A c \in Calls : Row(db, call[c], c) # Nil => Row(db, call[c], c).created_at \in 0..clock - 1
    /\ \A c, d \in Calls :
           /\ Row(db, call[c], c) # Nil /\ Row(db, call[d], d) # Nil
           /\ Row(db, call[c], c).created_at = Row(db, call[d], d).created_at
           => c = d

\* The orders a list with filter f holds, and those it shows before x.
Listed(d, f)   == OrdersWhere(d, buildListQuery(f))
NewerIn(d, ids, x) == {y \in ids : d.orders[y].created_at > d.orders[x].created_at}
Newer(d, f, x) == NewerIn(d, Listed(d, f), x)

IDsOf(nodes) == {nodes[k].id : k \in DOMAIN nodes}

Size == normalizedPageSize(PageSize)

\* What the reader holds of orders that are there, and what it was answered.
ReaderInv ==
    /\ reader = [pc |-> reader.pc, page |-> reader.page, filter |-> reader.filter, must |-> reader.must,
                 seen |-> reader.seen, total |-> reader.total, nodes |-> reader.nodes, shown |-> reader.shown]
    /\ reader.pc \in {"idle", "page", "load", "loadOne", "more", "listed", "got"}
    /\ \A k \in DOMAIN reader.nodes : /\ reader.nodes[k].id \in Present(db, "orders")
                                      /\ reader.nodes[k].row.status \in StatusValues
    /\ \A k \in DOMAIN reader.shown :
          LET v == reader.shown[k]
          IN  /\ v.id \in Present(db, "orders") /\ v.items = Asks(CallOf(v.id))
              /\ fromProtoOrderStatus(v.status) = v.was

\* An order that the reader must see and has not has a full page of newer
\* orders for every page that was read.
PagesIn(d, rd) ==
    /\ rd.page \in Nat
    /\ rd.pc \in {"page", "load", "more"} =>
           rd.must = {} \/ (rd.filter.status = "CREATED" /\ rd.must \subseteq Listed(d, rd.filter))
    /\ rd.pc \in {"page", "more"} => \A x \in rd.must \ rd.seen :
           Cardinality(Newer(d, rd.filter, x)) >= (normalizedPage(rd.page) - 1) * Size
    /\ rd.pc = "load" =>
           /\ \A x \in rd.must \ (rd.seen \cup IDsOf(rd.nodes)) :
                  Cardinality(Newer(d, rd.filter, x)) >= normalizedPage(rd.page) * Size
           /\ Len(rd.nodes) # Size => rd.must \subseteq rd.seen \cup IDsOf(rd.nodes)
    /\ rd.pc = "listed" => rd.must \subseteq rd.seen

PagingInv == PagesIn(db, reader)

Moves == {<<"created", "inventory_reserved">>, <<"created", "inventory_reserved_failed">>,
          <<"inventory_reserved", "payment_completed">>, <<"inventory_reserved", "payment_failed">>}

Messages == {"", "no stock", "no money"}

\* What the consumer is asked to do about order o.
IsAsk(ask, o) == ask.order = o /\ <<ask.expected, ask.status>> \in Moves /\ ask.message \in Messages

\* The topics hold events of their own, and the consumer commits what it read.
TopicsInv ==
    /\ DOMAIN topic = OrderTopics
    /\ \A t \in OrderTopics : topic[t] \in Seq({Encoded(t, o) : o \in Watched})
    /\ position \in [OrderTopics -> Nat] /\ committed \in [OrderTopics -> Nat]
    /\ \A t \in OrderTopics : committed[t] <= position[t] /\ position[t] <= Len(topic[t])

\* Between its two statements UpdateStatus has read the record it will
\* acknowledge, and the status it found is still that of the order.
UpdateInv ==
    update # Nil =>
        /\ update.topic \in OrderTopics /\ position[update.topic] < Len(topic[update.topic])
        /\ update.ask.order \in Present(db, "orders")
        /\ db.orders[update.ask.order].status = update.ask.expected
        /\ IsAsk(update.ask, update.ask.order)

ConsumerInv == TopicsInv /\ UpdateInv

FaultsInv == faults \in 0..MaxFaults

RepoInv == DatabaseInv /\ CallInv /\ TimeInv /\ ReaderInv /\ PagingInv /\ ConsumerInv /\ FaultsInv

----------------------------------------------------------------------------
(***************************************************************************)
(* What the generated builders are told, and the rows they send.           *)
(***************************************************************************)
\* A mutation a creation has begun to fill.
IsTold(m, columns) ==
    /\ {"set", "id", "edges"} \subseteq DOMAIN m
    /\ m.set = [c \in columns |-> m.set[c]]

\* n is m with one more column set.
Tells(m, n, col, val, columns) ==
    /\ IsTold(n, columns) /\ n.id = m.id /\ n.edges = m.edges
    /\ n.set[col] = val /\ \A c \in columns \ {col} : n.set[c] = m.set[c]

\* A new mutation has been told nothing.
LEMMA NewIsTold ==
    ASSUME NEW columns, NEW numeric, NEW op, NEW id
    PROVE  LET m == NewMutation(columns, numeric, op, id)
           IN  /\ IsTold(m, columns) /\ m.id = id /\ m.edges = {}
               /\ \A c \in columns : m.set[c] = Nil
BY DEF NewMutation, IsTold

\* The setters of an order builder skip a nil value.
LEMMA OrderSetterCases ==
    ASSUME NEW m, NEW set, set.op = "set", set.col # "items"
    PROVE  /\ set.val = Nil => OrderCreateSetter(m, set) = m
           /\ set.val # Nil => OrderCreateSetter(m, set) = OrderField(m, set)
<1>1. ASSUME set.val = Nil PROVE OrderCreateSetter(m, set) = m
  BY <1>1 DEF OrderCreateSetter
<1>2. ASSUME set.val # Nil PROVE OrderCreateSetter(m, set) = OrderField(m, set)
  BY <1>2 DEF OrderCreateSetter
<1> QED
  BY <1>1, <1>2

\* The same for an item builder.
LEMMA ItemSetterCases ==
    ASSUME NEW m, NEW set, set.op = "set", set.col # "order"
    PROVE  /\ set.val = Nil => ItemCreateSetter(m, set) = m
           /\ set.val # Nil => ItemCreateSetter(m, set) = ItemField(m, set)
<1>1. ASSUME set.val = Nil PROVE ItemCreateSetter(m, set) = m
  BY <1>1 DEF ItemCreateSetter
<1>2. ASSUME set.val # Nil PROVE ItemCreateSetter(m, set) = ItemField(m, set)
  BY <1>2 DEF ItemCreateSetter
<1> QED
  BY <1>1, <1>2

\* A setter of an order builder tells its column the value.
LEMMA OrderSetterTells ==
    ASSUME NEW m, IsTold(m, OrderColumns), NEW col \in OrderColumns, NEW val, m.set[col] = Nil
    PROVE  Tells(m, SetOrder(m, <<col, val>>), col, val, OrderColumns)
<1> DEFINE set == Call(<<col, val>>)
<1>1. set.op = "set" /\ set.col = col /\ set.val = val /\ col # "items"
  BY DEF Call, OrderColumns
<1> HIDE DEF set
<1>2. CASE val = Nil
  <2>0. set.op = "set" /\ set.col # "items" /\ set.val = Nil
    BY <1>1, <1>2
  <2>1. OrderCreateSetter(m, set) = m
    BY <2>0, OrderSetterCases
  <2> QED
    BY <1>2, <2>1 DEF Tells, set, SetOrder
<1>3. CASE val # Nil
  <2>0. set.op = "set" /\ set.col # "items" /\ set.val # Nil
    BY <1>1, <1>3
  <2>1. OrderCreateSetter(m, set) = OrderField(m, set)
    BY <2>0, OrderSetterCases
  <2>2. CASE col \in OrderAmounts
    <3>1. OrderField(m, set) = [m EXCEPT !.set[col] = val, !.add[col] = Nil]
      BY <1>1, <2>2 DEF OrderField, OrderAmount, OrderAmounts
    <3> DEFINE n == SetOrder(m, <<col, val>>)
    <3>2. n = OrderField(m, set)
      BY <2>1 DEF set, SetOrder
    <3> HIDE DEF n
    <3>3. Tells(m, n, col, val, OrderColumns)
      BY <3>1, <3>2 DEF Tells, IsTold
    <3> QED
      BY <3>3 DEF n
  <2>3. CASE col \notin OrderAmounts
    <3>1. OrderField(m, set) = [m EXCEPT !.set[col] = val]
      BY <1>1, <2>3 DEF OrderField, OrderScalar, OrderAddress, OrderErrorMessage, OrderAmounts, OrderColumns
    <3> DEFINE n == SetOrder(m, <<col, val>>)
    <3>2. n = OrderField(m, set)
      BY <2>1 DEF set, SetOrder
    <3> HIDE DEF n
    <3>3. Tells(m, n, col, val, OrderColumns)
      BY <3>1, <3>2 DEF Tells, IsTold
    <3> QED
      BY <3>3 DEF n
  <2> QED
    BY <2>2, <2>3
<1> QED
  BY <1>2, <1>3

\* The same for an item builder.
LEMMA ItemSetterTells ==
    ASSUME NEW m, IsTold(m, ItemColumns), NEW col \in ItemColumns, NEW val, m.set[col] = Nil
    PROVE  Tells(m, SetItem(m, <<col, val>>), col, val, ItemColumns)
<1> DEFINE set == Call(<<col, val>>)
<1>1. set.op = "set" /\ set.col = col /\ set.val = val /\ col # "order"
  BY DEF Call, ItemColumns
<1> HIDE DEF set
<1>2. CASE val = Nil
  <2>0. set.op = "set" /\ set.col # "order" /\ set.val = Nil
    BY <1>1, <1>2
  <2>1. ItemCreateSetter(m, set) = m
    BY <2>0, ItemSetterCases
  <2> QED
    BY <1>2, <2>1 DEF Tells, set, SetItem
<1>3. CASE val # Nil
  <2>0. set.op = "set" /\ set.col # "order" /\ set.val # Nil
    BY <1>1, <1>3
  <2>1. ItemCreateSetter(m, set) = ItemField(m, set)
    BY <2>0, ItemSetterCases
  <2>2. CASE col \in ItemNumbers
    <3>1. ItemField(m, set) = [m EXCEPT !.set[col] = val, !.add[col] = Nil]
      BY <1>1, <2>2 DEF ItemField, ItemNumber, ItemNumbers, ItemTexts
    <3> DEFINE n == SetItem(m, <<col, val>>)
    <3>2. n = ItemField(m, set)
      BY <2>1 DEF set, SetItem
    <3> HIDE DEF n
    <3>3. Tells(m, n, col, val, ItemColumns)
      BY <3>1, <3>2 DEF Tells, IsTold
    <3> QED
      BY <3>3 DEF n
  <2>3. CASE col \notin ItemNumbers
    <3>1. ItemField(m, set) = [m EXCEPT !.set[col] = val]
      BY <1>1, <2>3 DEF ItemField, ItemScalar, ItemText, ItemImageURL, ItemNumbers, ItemTexts, ItemColumns
    <3> DEFINE n == SetItem(m, <<col, val>>)
    <3>2. n = ItemField(m, set)
      BY <2>1 DEF set, SetItem
    <3> HIDE DEF n
    <3>3. Tells(m, n, col, val, ItemColumns)
      BY <3>1, <3>2 DEF Tells, IsTold
    <3> QED
      BY <3>3 DEF n
  <2> QED
    BY <2>2, <2>3
<1> QED
  BY <1>2, <1>3

\* The same for an event builder.
LEMMA EventSetterTells ==
    ASSUME NEW m, IsTold(m, EventColumns), NEW col \in EventColumns, NEW val, m.set[col] = Nil
    PROVE  Tells(m, SetEvent(m, <<col, val>>), col, val, EventColumns)
<1> DEFINE set == Call(<<col, val>>)
<1>1. set.op = "set" /\ set.col = col /\ set.val = val
  BY DEF Call
<1> HIDE DEF set
<1>2. CASE val = Nil
  <2>1. EventCreateSetter(m, set) = m
    BY <1>1, <1>2 DEF EventCreateSetter
  <2> QED
    BY <1>2, <2>1 DEF Tells, set, SetEvent
<1>3. CASE val # Nil
  <2>1. EventCreateSetter(m, set) = [m EXCEPT !.set[col] = val]
    BY <1>1, <1>3 DEF EventCreateSetter, EventField, EventHeader, EventBody
  <2> QED
    BY <2>1 DEF Tells, IsTold, set, SetEvent
<1> QED
  BY <1>2, <1>3

----------------------------------------------------------------------------
SumBody(r, f, n) == IF n = 0 THEN 0 ELSE f[n - 1] + LineTotal(r.items[n])

\* There is a function that adds up the lines of a request.
LEMMA SumReadable ==
    ASSUME NEW r, NEW N \in Nat
    PROVE  \E f : f = [n \in 0..N |-> SumBody(r, f, n)]
<1> DEFINE P == {k \in Nat : \E f : f = [n \in 0..k |-> SumBody(r, f, n)]}
<1>1. 0 \in P
  <2> DEFINE g == [n \in 0..0 |-> SumBody(r, <<>>, n)]
  <2>1. \A n \in 0..0 : SumBody(r, <<>>, n) = SumBody(r, g, n)
    <3> HIDE DEF g
    <3> QED
      BY DEF SumBody
  <2>2. g = [n \in 0..0 |-> SumBody(r, g, n)]
    BY <2>1
  <2> QED
    BY <2>2
<1>2. ASSUME NEW k \in P PROVE k + 1 \in P
  <2>1. PICK f : f = [n \in 0..k |-> SumBody(r, f, n)]
    OBVIOUS
  <2> DEFINE g == [n \in 0..k + 1 |-> IF n = k + 1 THEN SumBody(r, f, n) ELSE f[n]]
  <2>2. k \in Nat
    OBVIOUS
  <2>3. ASSUME NEW n \in 0..k + 1 PROVE g[n] = SumBody(r, g, n)
    <3>1. n # 0 => n - 1 \in 0..k
      BY <2>2
    <3>2. n # 0 => f[n - 1] = g[n - 1]
      BY <2>2, <3>1
    <3>3. SumBody(r, f, n) = SumBody(r, g, n)
      <4> HIDE DEF g
      <4> QED
        BY <3>2 DEF SumBody
    <3>4. g[n] = SumBody(r, f, n)
      <4>1. CASE n = k + 1
        BY <4>1
      <4>2. CASE n # k + 1
        <5>1. n \in 0..k
          BY <2>2, <4>2
        <5>2. f[n] = SumBody(r, f, n)
          BY <2>1, <5>1
        <5> QED
          BY <4>2, <5>2
      <4> QED
        BY <4>1, <4>2
    <3> QED
      BY <3>3, <3>4
  <2>4. g = [n \in 0..k + 1 |-> SumBody(r, g, n)]
    BY <2>3
  <2> HIDE DEF g
  <2> QED
    BY <2>4, <2>2
<1>3. P = Nat
  <2> HIDE DEF P
  <2>1. P \in SUBSET Nat
    BY DEF P
  <2> QED
    BY <1>1, <1>2, <2>1, NatInduct
<1> QED
  BY <1>3

\* The amounts of a request are whole numbers.
LEMMA AmountsAreWhole ==
    ASSUME NEW c \in Calls, NEW r \in Requests[c]
    PROVE  Subtotal(r) \in Int /\ Tax(r) \in Int /\ OrderTotal(r) \in Int
<1>0. PICK N \in Nat : DOMAIN r.items = 1..N
  BY RequestsAssumption DEF RequestsAssumption
<1>1. Len(r.items) = N
  BY <1>0
<1> DEFINE f == CHOOSE f : f = [n \in 0..N |-> SumBody(r, f, n)]
<1>2. f = [n \in 0..N |-> SumBody(r, f, n)]
  BY SumReadable
<1>3. Subtotal(r) = f[N]
  BY <1>1 DEF Subtotal, SumBody
<1> HIDE DEF f
<1> DEFINE P == {k \in Nat : k <= N => f[k] \in Int}
<1>4. 0 \in P
  BY <1>2 DEF SumBody
<1>5. ASSUME NEW k \in P PROVE k + 1 \in P
  <2>1. SUFFICES ASSUME k + 1 <= N PROVE f[k + 1] \in Int
    OBVIOUS
  <2>2. k \in Nat /\ f[k] \in Int /\ k + 1 \in DOMAIN r.items
    BY <2>1, <1>0
  <2>3. f[k + 1] = SumBody(r, f, k + 1)
    BY <1>2, <2>1, <2>2
  <2>4. LineTotal(r.items[k + 1]) \in Int
    BY <2>2, RequestsAssumption DEF RequestsAssumption, LineTotal
  <2>5. (k + 1) - 1 = k /\ k + 1 # 0
    BY <2>2
  <2>6. f[k + 1] = f[k] + LineTotal(r.items[k + 1])
    BY <2>3, <2>5 DEF SumBody
  <2> QED
    BY <2>2, <2>4, <2>6
<1>6. P = Nat
  <2> HIDE DEF P
  <2>1. P \in SUBSET Nat
    BY DEF P
  <2> QED
    BY <1>4, <1>5, <2>1, NatInduct
<1>7. Subtotal(r) \in Int
  BY <1>3, <1>6
<1> QED
  BY <1>7 DEF Tax, OrderTotal

\* The rows a call of CreateOrder saves.
SavedOrder(r, now) ==
    [created_at |-> now, updated_at |-> now, customer_id |-> r.customer, status |-> "created",
     subtotal |-> Subtotal(r), tax |-> Tax(r), shipping_cost |-> 0, total |-> OrderTotal(r),
     shipping_address |-> r.address, billing_address |-> r.address, error_message |-> Nil]

SavedItem(c, line, now) ==
    [created_at |-> now, updated_at |-> now, product_id |-> line.variant, variant_id |-> line.variant,
     product_name |-> line.variant, variant_description |-> line.variant, unit_price |-> line.price,
     quantity |-> line.quantity, total_price |-> LineTotal(line), image_url |-> line.variant,
     order_items |-> NewOrder[c]]

SavedEvent(c, r, status, now) ==
    [created_at |-> now, updated_at |-> now, aggregate_type |-> "order", aggregate_id |-> NewOrder[c],
     event_type |-> "order.created", processed |-> FALSE,
     payload |-> writeOrderCreatedEvent(CreatedEvent(c, r, status))]

\* OrderRepo.Create sends this row for the order.
LEMMA SaveOrderSends ==
    ASSUME NEW view, NEW c, NEW r, NEW now,
           Subtotal(r) \in Int, Tax(r) \in Int, OrderTotal(r) \in Int
    PROVE  \E m : /\ SaveOrder(view, c, r, now) = OrderCreateSave(view, m)
                  /\ m.set = SavedOrder(r, now) /\ m.id = NewOrder[c] /\ m.edges = {}
<1> DEFINE m0 == NewOrderMutation("create", Nil)
           m1 == SetOrder(m0, <<"customer_id", r.customer>>)
           m2 == SetOrder(m1, <<"status", "created">>)
           m3 == SetOrder(m2, <<"subtotal", Subtotal(r)>>)
           m4 == SetOrder(m3, <<"tax", Tax(r)>>)
           m5 == SetOrder(m4, <<"shipping_cost", 0>>)
           m6 == SetOrder(m5, <<"total", OrderTotal(r)>>)
           m7 == SetOrder(m6, <<"shipping_address", r.address>>)
           m8 == SetOrder(m7, <<"billing_address", r.address>>)
           d == OrderCreateDefaults(m8, now, NewOrder[c])
<1>a. SaveOrder(view, c, r, now) = OrderCreateSave(view, d)
  BY DEF SaveOrder
<1> USE DEF OrderColumns
<1> HIDE DEF m1, m2, m3, m4, m5, m6, m7, m8
<1>0. IsTold(m0, OrderColumns) /\ m0.id = Nil /\ m0.edges = {} /\ \A col \in OrderColumns : m0.set[col] = Nil
  BY NewIsTold DEF NewOrderMutation
<1> HIDE DEF m0
<1>1. /\ Tells(m0, m1, "customer_id", r.customer, OrderColumns)
      /\ \A col \in OrderColumns \ {"customer_id"} : m1.set[col] = Nil
  <2>1. IsTold(m0, OrderColumns) /\ m0.set["customer_id"] = Nil
    BY <1>0 DEF Tells
  <2>2. Tells(m0, m1, "customer_id", r.customer, OrderColumns)
    BY <2>1, OrderSetterTells DEF m1
  <2> QED
    BY <2>2, <1>0 DEF Tells
<1>2. /\ Tells(m1, m2, "status", "created", OrderColumns)
      /\ \A col \in OrderColumns \ {"customer_id", "status"} : m2.set[col] = Nil
  <2>1. IsTold(m1, OrderColumns) /\ m1.set["status"] = Nil
    BY <1>1 DEF Tells
  <2>2. Tells(m1, m2, "status", "created", OrderColumns)
    BY <2>1, OrderSetterTells DEF m2
  <2> QED
    BY <2>2, <1>1 DEF Tells
<1>3. /\ Tells(m2, m3, "subtotal", Subtotal(r), OrderColumns)
      /\ \A col \in OrderColumns \ {"customer_id", "status", "subtotal"} : m3.set[col] = Nil
  <2>1. IsTold(m2, OrderColumns) /\ m2.set["subtotal"] = Nil
    BY <1>2 DEF Tells
  <2>2. Tells(m2, m3, "subtotal", Subtotal(r), OrderColumns)
    BY <2>1, OrderSetterTells DEF m3
  <2> QED
    BY <2>2, <1>2 DEF Tells
<1>4. /\ Tells(m3, m4, "tax", Tax(r), OrderColumns)
      /\ \A col \in OrderColumns \ {"customer_id", "status", "subtotal", "tax"} : m4.set[col] = Nil
  <2>1. IsTold(m3, OrderColumns) /\ m3.set["tax"] = Nil
    BY <1>3 DEF Tells
  <2>2. Tells(m3, m4, "tax", Tax(r), OrderColumns)
    BY <2>1, OrderSetterTells DEF m4
  <2> QED
    BY <2>2, <1>3 DEF Tells
<1>5. /\ Tells(m4, m5, "shipping_cost", 0, OrderColumns)
      /\ \A col \in OrderColumns \ {"customer_id", "status", "subtotal", "tax", "shipping_cost"} : m5.set[col] = Nil
  <2>1. IsTold(m4, OrderColumns) /\ m4.set["shipping_cost"] = Nil
    BY <1>4 DEF Tells
  <2>2. Tells(m4, m5, "shipping_cost", 0, OrderColumns)
    BY <2>1, OrderSetterTells DEF m5
  <2> QED
    BY <2>2, <1>4 DEF Tells
<1>6. /\ Tells(m5, m6, "total", OrderTotal(r), OrderColumns)
      /\ \A col \in OrderColumns \ {"customer_id", "status", "subtotal", "tax",
                                    "shipping_cost", "total"} : m6.set[col] = Nil
  <2>1. IsTold(m5, OrderColumns) /\ m5.set["total"] = Nil
    BY <1>5 DEF Tells
  <2>2. Tells(m5, m6, "total", OrderTotal(r), OrderColumns)
    BY <2>1, OrderSetterTells DEF m6
  <2> QED
    BY <2>2, <1>5 DEF Tells
<1>7. /\ Tells(m6, m7, "shipping_address", r.address, OrderColumns)
      /\ \A col \in OrderColumns \ {"customer_id", "status", "subtotal", "tax",
                                    "shipping_cost", "total", "shipping_address"} : m7.set[col] = Nil
  <2>1. IsTold(m6, OrderColumns) /\ m6.set["shipping_address"] = Nil
    BY <1>6 DEF Tells
  <2>2. Tells(m6, m7, "shipping_address", r.address, OrderColumns)
    BY <2>1, OrderSetterTells DEF m7
  <2> QED
    BY <2>2, <1>6 DEF Tells
<1>8. /\ Tells(m7, m8, "billing_address", r.address, OrderColumns)
      /\ \A col \in OrderColumns \ {"customer_id", "status", "subtotal", "tax",
                                    "shipping_cost", "total", "shipping_address", "billing_address"} : m8.set[col] = Nil
  <2>1. IsTold(m7, OrderColumns) /\ m7.set["billing_address"] = Nil
    BY <1>7 DEF Tells
  <2>2. Tells(m7, m8, "billing_address", r.address, OrderColumns)
    BY <2>1, OrderSetterTells DEF m8
  <2> QED
    BY <2>2, <1>7 DEF Tells
<1>9. /\ IsTold(m8, OrderColumns) /\ m8.id = Nil /\ m8.edges = {}
      /\ m8.set["created_at"] = Nil /\ m8.set["updated_at"] = Nil /\ m8.set["error_message"] = Nil
      /\ m8.set["customer_id"] = r.customer /\ m8.set["status"] = "created" /\ m8.set["subtotal"] = Subtotal(r)
      /\ m8.set["tax"] = Tax(r) /\ m8.set["shipping_cost"] = 0 /\ m8.set["total"] = OrderTotal(r)
      /\ m8.set["shipping_address"] = r.address /\ m8.set["billing_address"] = r.address
  BY <1>0, <1>1, <1>2, <1>3, <1>4, <1>5, <1>6, <1>7, <1>8 DEF Tells
<1>10. d.id = NewOrder[c] /\ d.edges = {}
  BY <1>9 DEF OrderCreateDefaults, IsTold
<1>11. d.set = [col \in OrderColumns |->
                  IF m8.set[col] = Nil /\ col \notin {"customer_id", "shipping_address",
                                                     "billing_address", "error_message"}
                  THEN OrderDefault(col, now) ELSE m8.set[col]]
  BY <1>9 DEF OrderCreateDefaults, IsTold
<1>12. Subtotal(r) # Nil /\ Tax(r) # Nil /\ OrderTotal(r) # Nil /\ 0 # Nil
  BY NilAssumption DEF NilAssumption
<1> HIDE DEF d
<1>13. DOMAIN d.set = OrderColumns /\ d.set = [col \in OrderColumns |-> d.set[col]]
  BY <1>11
<1>14. /\ d.set["created_at"] = now /\ d.set["updated_at"] = now /\ d.set["status"] = "created"
       /\ d.set["error_message"] = Nil /\ d.set["customer_id"] = r.customer
       /\ d.set["shipping_address"] = r.address /\ d.set["billing_address"] = r.address
  BY <1>9, <1>11 DEF OrderDefault, OrderAmounts
<1>15. /\ d.set["subtotal"] = Subtotal(r) /\ d.set["tax"] = Tax(r) /\ d.set["shipping_cost"] = 0
       /\ d.set["total"] = OrderTotal(r)
  BY <1>9, <1>11, <1>12 
<1>16. d.set = SavedOrder(r, now)
  BY <1>13, <1>14, <1>15 DEF SavedOrder
<1> QED
  BY <1>a, <1>10, <1>16

\* The edge to the order is the first thing an item's creation is told.
LEMMA ItemOrderTells ==
    ASSUME NEW m, IsTold(m, ItemColumns), NEW o, o # Nil
    PROVE  LET n == SetItem(m, <<"order", o>>)
           IN  IsTold(n, ItemColumns) /\ n.id = m.id /\ n.edges = {o} /\ n.set = m.set
<1> DEFINE set == Call(<<"order", o>>)
           n == SetItem(m, <<"order", o>>)
<1>1. set.op = "set" /\ set.col = "order" /\ set.val = o
  BY DEF Call
<1>2. n = ItemCreateSetter(m, set)
  BY DEF SetItem
<1> HIDE DEF set, n
<1>3. ItemCreateSetter(m, set) = ItemOrder(m, set)
  BY <1>1 DEF ItemCreateSetter
<1>4. ItemOrder(m, set) = [m EXCEPT !.edges = {o}]
  BY <1>1 DEF ItemOrder
<1>5. IsTold(n, ItemColumns) /\ n.id = m.id /\ n.edges = {o} /\ n.set = m.set
  BY <1>2, <1>3, <1>4 DEF IsTold
<1> QED
  BY <1>5 DEF n

\* The row sent for a line.
LEMMA ItemSends ==
    ASSUME NEW c, NewOrder[c] # Nil, NEW line, NEW now, NEW id
    PROVE  LET m == ItemCreateDefaults(ItemCreate(c, line), now, id)
           IN  ItemCreateSpec(m) = SavedItem(c, line, now) /\ m.id = id
<1> DEFINE new == NewItemMutation("create", Nil)
           m0 == SetItem(new, <<"order", NewOrder[c]>>)
           m1 == SetItem(m0, <<"product_id", line.variant>>)
           m2 == SetItem(m1, <<"variant_id", line.variant>>)
           m3 == SetItem(m2, <<"product_name", line.variant>>)
           m4 == SetItem(m3, <<"variant_description", line.variant>>)
           m5 == SetItem(m4, <<"unit_price", line.price>>)
           m6 == SetItem(m5, <<"quantity", line.quantity>>)
           m7 == SetItem(m6, <<"total_price", LineTotal(line)>>)
           m8 == SetItem(m7, <<"image_url", line.variant>>)
           d == ItemCreateDefaults(m8, now, id)
<1>a. ItemCreateDefaults(ItemCreate(c, line), now, id) = d
  BY DEF ItemCreate
<1> USE DEF ItemColumns
<1> HIDE DEF m0, m1, m2, m3, m4, m5, m6, m7, m8
<1>b. IsTold(new, ItemColumns) /\ new.id = Nil /\ \A col \in ItemColumns : new.set[col] = Nil
  BY NewIsTold DEF NewItemMutation
<1> HIDE DEF new
<1>0. IsTold(m0, ItemColumns) /\ m0.id = Nil /\ m0.edges = {NewOrder[c]} /\ \A col \in ItemColumns : m0.set[col] = Nil
  BY <1>b, ItemOrderTells DEF m0
<1>1. /\ Tells(m0, m1, "product_id", line.variant, ItemColumns)
      /\ \A col \in ItemColumns \ {"product_id"} : m1.set[col] = Nil
  <2>1. IsTold(m0, ItemColumns) /\ m0.set["product_id"] = Nil
    BY <1>0 DEF Tells
  <2>2. Tells(m0, m1, "product_id", line.variant, ItemColumns)
    BY <2>1, ItemSetterTells DEF m1
  <2> QED
    BY <2>2, <1>0 DEF Tells
<1>2. /\ Tells(m1, m2, "variant_id", line.variant, ItemColumns)
      /\ \A col \in ItemColumns \ {"product_id", "variant_id"} : m2.set[col] = Nil
  <2>1. IsTold(m1, ItemColumns) /\ m1.set["variant_id"] = Nil
    BY <1>1 DEF Tells
  <2>2. Tells(m1, m2, "variant_id", line.variant, ItemColumns)
    BY <2>1, ItemSetterTells DEF m2
  <2> QED
    BY <2>2, <1>1 DEF Tells
<1>3. /\ Tells(m2, m3, "product_name", line.variant, ItemColumns)
      /\ \A col \in ItemColumns \ {"product_id", "variant_id", "product_name"} : m3.set[col] = Nil
  <2>1. IsTold(m2, ItemColumns) /\ m2.set["product_name"] = Nil
    BY <1>2 DEF Tells
  <2>2. Tells(m2, m3, "product_name", line.variant, ItemColumns)
    BY <2>1, ItemSetterTells DEF m3
  <2> QED
    BY <2>2, <1>2 DEF Tells
<1>4. /\ Tells(m3, m4, "variant_description", line.variant, ItemColumns)
      /\ \A col \in ItemColumns \ {"product_id", "variant_id", "product_name",
                                   "variant_description"} : m4.set[col] = Nil
  <2>1. IsTold(m3, ItemColumns) /\ m3.set["variant_description"] = Nil
    BY <1>3 DEF Tells
  <2>2. Tells(m3, m4, "variant_description", line.variant, ItemColumns)
    BY <2>1, ItemSetterTells DEF m4
  <2> QED
    BY <2>2, <1>3 DEF Tells
<1>5. /\ Tells(m4, m5, "unit_price", line.price, ItemColumns)
      /\ \A col \in ItemColumns \ {"product_id", "variant_id", "product_name",
                                   "variant_description", "unit_price"} : m5.set[col] = Nil
  <2>1. IsTold(m4, ItemColumns) /\ m4.set["unit_price"] = Nil
    BY <1>4 DEF Tells
  <2>2. Tells(m4, m5, "unit_price", line.price, ItemColumns)
    BY <2>1, ItemSetterTells DEF m5
  <2> QED
    BY <2>2, <1>4 DEF Tells
<1>6. /\ Tells(m5, m6, "quantity", line.quantity, ItemColumns)
      /\ \A col \in ItemColumns \ {"product_id", "variant_id", "product_name",
                                   "variant_description", "unit_price", "quantity"} : m6.set[col] = Nil
  <2>1. IsTold(m5, ItemColumns) /\ m5.set["quantity"] = Nil
    BY <1>5 DEF Tells
  <2>2. Tells(m5, m6, "quantity", line.quantity, ItemColumns)
    BY <2>1, ItemSetterTells DEF m6
  <2> QED
    BY <2>2, <1>5 DEF Tells
<1>7. /\ Tells(m6, m7, "total_price", LineTotal(line), ItemColumns)
      /\ \A col \in ItemColumns \ {"product_id", "variant_id", "product_name",
                                   "variant_description", "unit_price", "quantity", "total_price"} : m7.set[col] = Nil
  <2>1. IsTold(m6, ItemColumns) /\ m6.set["total_price"] = Nil
    BY <1>6 DEF Tells
  <2>2. Tells(m6, m7, "total_price", LineTotal(line), ItemColumns)
    BY <2>1, ItemSetterTells DEF m7
  <2> QED
    BY <2>2, <1>6 DEF Tells
<1>8. /\ Tells(m7, m8, "image_url", line.variant, ItemColumns)
      /\ \A col \in ItemColumns \ {"product_id", "variant_id", "product_name",
                                   "variant_description", "unit_price", "quantity", "total_price", "image_url"} : m8.set[col] = Nil
  <2>1. IsTold(m7, ItemColumns) /\ m7.set["image_url"] = Nil
    BY <1>7 DEF Tells
  <2>2. Tells(m7, m8, "image_url", line.variant, ItemColumns)
    BY <2>1, ItemSetterTells DEF m8
  <2> QED
    BY <2>2, <1>7 DEF Tells
<1>9. /\ IsTold(m8, ItemColumns) /\ m8.id = Nil /\ m8.edges = {NewOrder[c]}
      /\ m8.set["created_at"] = Nil /\ m8.set["updated_at"] = Nil
      /\ m8.set["product_id"] = line.variant /\ m8.set["variant_id"] = line.variant
      /\ m8.set["product_name"] = line.variant /\ m8.set["variant_description"] = line.variant
      /\ m8.set["unit_price"] = line.price /\ m8.set["quantity"] = line.quantity
      /\ m8.set["total_price"] = LineTotal(line) /\ m8.set["image_url"] = line.variant
  BY <1>0, <1>1, <1>2, <1>3, <1>4, <1>5, <1>6, <1>7, <1>8 DEF Tells
<1>10. d.id = id /\ d.edges = {NewOrder[c]}
  BY <1>9 DEF ItemCreateDefaults, IsTold
<1>11. d.set = [col \in ItemColumns |->
                  IF m8.set[col] = Nil /\ col \in {"created_at", "updated_at"}
                  THEN now ELSE m8.set[col]]
  BY <1>9 DEF ItemCreateDefaults, IsTold
<1> HIDE DEF d
<1>12. \A col \in ItemColumns : d.set[col] = SavedItem(c, line, now)[col]
  BY <1>9, <1>11 DEF SavedItem
<1>13. (CHOOSE o \in d.edges : TRUE) = NewOrder[c]
  BY <1>10
<1>14. ItemCreateSpec(d) = [col \in ItemColumns \cup {"order_items"} |->
           IF col = "order_items" THEN NewOrder[c] ELSE d.set[col]]
  BY <1>13 DEF ItemCreateSpec
<1>15. ItemCreateSpec(d) = SavedItem(c, line, now)
  BY <1>12, <1>14 DEF SavedItem
<1> QED
  BY <1>a, <1>10, <1>15

\* The row sent for the outbox event.
LEMMA SaveEventSends ==
    ASSUME NEW view, NEW c, NEW r, NEW now
    PROVE  \E m : /\ SaveEvent(view, c, r, now) = EventCreateSave(view, m)
                  /\ m.set = SavedEvent(c, r, view.orders[NewOrder[c]].status, now)
                  /\ m.id = NewEvent[c]
<1> DEFINE event == CreatedEvent(c, r, view.orders[NewOrder[c]].status)
           m0 == NewEventMutation("create", Nil)
           m1 == SetEvent(m0, <<"aggregate_type", "order">>)
           m2 == SetEvent(m1, <<"aggregate_id", NewOrder[c]>>)
           m3 == SetEvent(m2, <<"event_type", "order.created">>)
           m4 == SetEvent(m3, <<"payload", writeOrderCreatedEvent(event)>>)
           d == EventCreateDefaults(m4, now, NewEvent[c])
<1>a. SaveEvent(view, c, r, now) = EventCreateSave(view, d)
  BY DEF SaveEvent
<1> USE DEF EventColumns
<1> HIDE DEF m1, m2, m3, m4, event
<1>0. IsTold(m0, EventColumns) /\ m0.id = Nil /\ \A col \in EventColumns : m0.set[col] = Nil
  BY NewIsTold DEF NewEventMutation
<1> HIDE DEF m0
<1>1. /\ Tells(m0, m1, "aggregate_type", "order", EventColumns)
      /\ \A col \in EventColumns \ {"aggregate_type"} : m1.set[col] = Nil
  <2>1. IsTold(m0, EventColumns) /\ m0.set["aggregate_type"] = Nil
    BY <1>0 DEF Tells
  <2>2. Tells(m0, m1, "aggregate_type", "order", EventColumns)
    BY <2>1, EventSetterTells DEF m1
  <2> QED
    BY <2>2, <1>0 DEF Tells
<1>2. /\ Tells(m1, m2, "aggregate_id", NewOrder[c], EventColumns)
      /\ \A col \in EventColumns \ {"aggregate_type", "aggregate_id"} : m2.set[col] = Nil
  <2>1. IsTold(m1, EventColumns) /\ m1.set["aggregate_id"] = Nil
    BY <1>1 DEF Tells
  <2>2. Tells(m1, m2, "aggregate_id", NewOrder[c], EventColumns)
    BY <2>1, EventSetterTells DEF m2
  <2> QED
    BY <2>2, <1>1 DEF Tells
<1>3. /\ Tells(m2, m3, "event_type", "order.created", EventColumns)
      /\ \A col \in EventColumns \ {"aggregate_type", "aggregate_id", "event_type"} : m3.set[col] = Nil
  <2>1. IsTold(m2, EventColumns) /\ m2.set["event_type"] = Nil
    BY <1>2 DEF Tells
  <2>2. Tells(m2, m3, "event_type", "order.created", EventColumns)
    BY <2>1, EventSetterTells DEF m3
  <2> QED
    BY <2>2, <1>2 DEF Tells
<1>4. /\ Tells(m3, m4, "payload", writeOrderCreatedEvent(event), EventColumns)
      /\ \A col \in EventColumns \ {"aggregate_type", "aggregate_id", "event_type", "payload"} : m4.set[col] = Nil
  <2>1. IsTold(m3, EventColumns) /\ m3.set["payload"] = Nil
    BY <1>3 DEF Tells
  <2>2. Tells(m3, m4, "payload", writeOrderCreatedEvent(event), EventColumns)
    BY <2>1, EventSetterTells DEF m4
  <2> QED
    BY <2>2, <1>3 DEF Tells
<1>9. /\ IsTold(m4, EventColumns) /\ m4.id = Nil
      /\ m4.set["created_at"] = Nil /\ m4.set["updated_at"] = Nil /\ m4.set["processed"] = Nil
      /\ m4.set["aggregate_type"] = "order" /\ m4.set["aggregate_id"] = NewOrder[c]
      /\ m4.set["event_type"] = "order.created" /\ m4.set["payload"] = writeOrderCreatedEvent(event)
  BY <1>0, <1>1, <1>2, <1>3, <1>4 DEF Tells
<1>10. d.id = NewEvent[c]
  BY <1>9 DEF EventCreateDefaults, IsTold
<1>11. d.set = [col \in EventColumns |->
                  CASE m4.set[col] = Nil /\ col \in {"created_at", "updated_at"} -> now
                    [] m4.set[col] = Nil /\ col = "processed" -> FALSE
                    [] OTHER -> m4.set[col]]
  BY <1>9 DEF EventCreateDefaults, IsTold
<1> HIDE DEF d
<1>12. /\ d.set["created_at"] = now /\ d.set["updated_at"] = now
       /\ d.set["aggregate_type"] = "order" /\ d.set["aggregate_id"] = NewOrder[c]
       /\ d.set["event_type"] = "order.created" /\ d.set["payload"] = writeOrderCreatedEvent(event)
  BY <1>9, <1>11
<1>13. d.set["processed"] = FALSE
  BY <1>9, <1>11
<1>14. d.set = [col \in EventColumns |-> d.set[col]]
  BY <1>11
<1>15. d.set = SavedEvent(c, r, view.orders[NewOrder[c]].status, now)
  BY <1>12, <1>13, <1>14 DEF SavedEvent, event
<1> QED
  BY <1>a, <1>10, <1>15

----------------------------------------------------------------------------
(***************************************************************************)
(* What the three inserts of OrderRepo.Create do.                          *)
(***************************************************************************)
\* A view of the three tables.
IsView(v) == /\ v = [t \in Tables |-> v[t]]
             /\ \A t \in Tables : v[t] = [id \in IDs[t] |-> v[t][id]]

\* The tables and their identifiers.
LEMMA TheTables ==
    /\ Tables = {"orders", "order_items", "outbox_events"}
    /\ IDs["orders"] = OrderIDs /\ IDs["order_items"] = ItemIDs /\ IDs["outbox_events"] = EventIDs
BY DEF Tables, TableColumns, IDs

\* An INSERT that succeeds adds its row and nothing else.
LEMMA InsertAdds ==
    ASSUME NEW view, NEW t, NEW id, NEW row, Insert(view, t, id, row).err = "none"
    PROVE  Insert(view, t, id, row).db = [view EXCEPT ![t][id] = row] /\ Constraints([view EXCEPT ![t][id] = row])
<1> DEFINE new == [view EXCEPT ![t][id] = row]
<1> HIDE DEF new
<1>1. Insert(view, t, id, row) = IF id \in Present(view, t) THEN Outcome("sql", view) ELSE Execute(view, new)
  BY DEF Insert, new
<1>2. Constraints(new) /\ Insert(view, t, id, row) = Outcome("none", new)
  BY <1>1 DEF Execute, Outcome
<1> QED
  BY <1>2 DEF Outcome, new

\* An insert of the order that succeeds adds its row and keeps the constraints.
LEMMA SaveOrderDoes ==
    ASSUME NEW view, NEW c \in Calls, NEW r \in Requests[c], NEW now \in Nat,
           SaveOrder(view, c, r, now).err = "none"
    PROVE  LET new == [view EXCEPT !["orders"][NewOrder[c]] = SavedOrder(r, now)]
           IN  SaveOrder(view, c, r, now).db = new /\ Constraints(new)
<1>0. Subtotal(r) \in Int /\ Tax(r) \in Int /\ OrderTotal(r) \in Int
  BY AmountsAreWhole
<1>1. PICK m : /\ SaveOrder(view, c, r, now) = OrderCreateSave(view, m)
               /\ m.set = SavedOrder(r, now) /\ m.id = NewOrder[c] /\ m.edges = {}
  BY <1>0, SaveOrderSends
<1> DEFINE out == Insert(view, "orders", m.id, m.set)
<1> HIDE DEF out
<1>2. OrderCreateSave(view, m) = IF ~OrderCreateCheck(m) THEN Outcome("check", view)
                                 ELSE IF out.err = "none" THEN Link(out.db, {m.id}, m.edges) ELSE out
  BY DEF OrderCreateSave, Then, OrderCreateSpec, out
<1>3. Link(out.db, {m.id}, m.edges) = Outcome("none", out.db)
  BY <1>1 DEF Link
<1>4. OrderCreateSave(view, m) = Outcome("none", out.db) /\ out.err = "none"
  BY <1>1, <1>2, <1>3 DEF Outcome
<1>5. out.db = [view EXCEPT !["orders"][m.id] = m.set] /\ Constraints([view EXCEPT !["orders"][m.id] = m.set])
  BY <1>4, InsertAdds DEF out
<1> QED
  BY <1>1, <1>4, <1>5 DEF Outcome

\* An insert of the event that succeeds adds its row and keeps the constraints.
LEMMA SaveEventDoes ==
    ASSUME NEW view, NEW c \in Calls, NEW r, NEW now \in Nat,
           SaveEvent(view, c, r, now).err = "none"
    PROVE  LET new == [view EXCEPT !["outbox_events"][NewEvent[c]] =
                          SavedEvent(c, r, view.orders[NewOrder[c]].status, now)]
           IN  SaveEvent(view, c, r, now).db = new /\ Constraints(new)
<1>1. PICK m : /\ SaveEvent(view, c, r, now) = EventCreateSave(view, m)
               /\ m.set = SavedEvent(c, r, view.orders[NewOrder[c]].status, now) /\ m.id = NewEvent[c]
  BY SaveEventSends
<1> DEFINE out == Insert(view, "outbox_events", m.id, m.set)
<1> HIDE DEF out
<1>2. EventCreateSave(view, m) = IF ~EventCreateCheck(m) THEN Outcome("check", view) ELSE out
  BY DEF EventCreateSave, EventCreateSpec, out
<1>3. EventCreateSave(view, m) = out /\ out.err = "none"
  BY <1>1, <1>2 DEF Outcome
<1>4. out.db = [view EXCEPT !["outbox_events"][m.id] = m.set]
      /\ Constraints([view EXCEPT !["outbox_events"][m.id] = m.set])
  BY <1>3, InsertAdds DEF out
<1> QED
  BY <1>1, <1>3, <1>4

\* The bulk insert, when it succeeds, adds a row for each line and no other.
LEMMA SaveItemsDoes ==
    ASSUME NEW view, IsView(view), NEW c \in Calls, NEW r \in Requests[c], NEW now \in Nat,
           SaveItems(view, c, r, now).err = "none"
    PROVE  LET new == SaveItems(view, c, r, now).db
           IN  /\ IsView(new) /\ Constraints(new)
               /\ new.orders = view.orders /\ new.outbox_events = view.outbox_events
               /\ \A k \in DOMAIN r.items : new.order_items[NewItems[c][k]] = SavedItem(c, r.items[k], now)
               /\ \A id \in ItemIDs : (\A k \in DOMAIN r.items : id # NewItems[c][k]) =>
                      new.order_items[id] = view.order_items[id]
<1> DEFINE ms == [k \in DOMAIN r.items |->
                     ItemCreateDefaults(ItemCreate(c, r.items[k]), now, NewItems[c][k])]
           ids == [k \in DOMAIN ms |-> ms[k].id]
           rows == [k \in DOMAIN ms |-> ItemCreateSpec(ms[k])]
           table == [id \in ItemIDs |-> IF \E k \in DOMAIN ids : ids[k] = id
                                        THEN rows[CHOOSE k \in DOMAIN ids : ids[k] = id]
                                        ELSE view.order_items[id]]
           new == [view EXCEPT !["order_items"] = table]
           out == SaveItems(view, c, r, now)
<1>0. NewOrder[c] # Nil
  BY IdentifiersAssumption, NilAssumption DEF IdentifiersAssumption, NilAssumption
<1>1. DOMAIN ids = DOMAIN r.items /\ \A k \in DOMAIN r.items : ids[k] = NewItems[c][k]
  <2>1. ASSUME NEW k \in DOMAIN r.items PROVE ms[k].id = NewItems[c][k]
    <3> DEFINE line == r.items[k]
               id == NewItems[c][k]
    <3>1. ms[k] = ItemCreateDefaults(ItemCreate(c, line), now, id)
      OBVIOUS
    <3> HIDE DEF ms, line, id
    <3>2. ItemCreateSpec(ms[k]) = SavedItem(c, line, now) /\ ms[k].id = id
      BY <1>0, <3>1, ItemSends
    <3> QED
      BY <3>2 DEF id
  <2> QED
    BY <2>1
<1>2. \A k \in DOMAIN r.items : rows[k] = SavedItem(c, r.items[k], now)
  BY <1>0, ItemSends
<1>3. PICK n \in 0..Len(NewItems[c]) : DOMAIN r.items = 1..n
  BY RequestsAssumption DEF RequestsAssumption
<1>4. \A k \in DOMAIN r.items : NewItems[c][k] \in ItemIDs /\ k \in DOMAIN NewItems[c]
  BY <1>3, IdentifiersAssumption DEF IdentifiersAssumption
<1>5. \A j, k \in DOMAIN r.items : NewItems[c][j] = NewItems[c][k] => j = k
  BY <1>4, IdentifiersAssumption DEF IdentifiersAssumption
<1>6. out = IF \E n1 \in DOMAIN ms : ~ItemCreateCheck(ms[n1]) THEN Outcome("check", view)
            ELSE InsertAll(view, "order_items", ids, rows)
  BY DEF SaveItems, ItemCreateBulkSave
<1>7. InsertAll(view, "order_items", ids, rows) =
        IF \E k \in DOMAIN ids : ids[k] \in Present(view, "order_items") \/ \E j \in DOMAIN ids \ {k} : ids[j] = ids[k]
        THEN Outcome("sql", view) ELSE Execute(view, new)
  <2> HIDE DEF ids, rows
  <2>1. IDs["order_items"] = ItemIDs
    BY TheTables
  <2>2. [view EXCEPT !["order_items"] = [id \in IDs["order_items"] |->
             IF \E k \in DOMAIN ids : ids[k] = id
             THEN rows[CHOOSE k \in DOMAIN ids : ids[k] = id] ELSE @[id]]] = new
    BY <2>1
  <2> HIDE DEF new
  <2> QED
    BY <2>2 DEF InsertAll
<1> HIDE DEF ms, ids, rows, table, new, out
<1>8. out = Outcome("none", new) /\ Constraints(new)
  <2>1. out.err = "none"
    BY DEF out
  <2> QED
    BY <1>6, <1>7, <2>1 DEF Execute, Outcome
<1>9. out.db = new
  BY <1>8 DEF Outcome
<1>10. /\ new = [t \in Tables |-> new[t]] /\ new.order_items = table
       /\ new.orders = view.orders /\ new.outbox_events = view.outbox_events
  BY TheTables DEF new, IsView
<1>11. table = [id \in ItemIDs |-> table[id]]
  BY DEF table
<1>12. IsView(new)
  BY <1>10, <1>11, TheTables DEF IsView
<1>13. ASSUME NEW k \in DOMAIN r.items PROVE table[NewItems[c][k]] = SavedItem(c, r.items[k], now)
  <2>1. (CHOOSE j \in DOMAIN ids : ids[j] = NewItems[c][k]) = k
    BY <1>1, <1>5
  <2>2. table[NewItems[c][k]] = rows[CHOOSE j \in DOMAIN ids : ids[j] = NewItems[c][k]]
    BY <1>1, <1>4 DEF table
  <2> QED
    BY <1>2, <2>1, <2>2
<1>14. ASSUME NEW id \in ItemIDs, \A k \in DOMAIN r.items : id # NewItems[c][k]
       PROVE  table[id] = view.order_items[id]
  BY <1>1, <1>14 DEF table
<1> QED
  BY <1>8, <1>9, <1>10, <1>12, <1>13, <1>14 DEF out

\* The rows of a database by table.
LEMMA DatabaseIsView ==
    ASSUME NEW d, IsDatabase(d)
    PROVE  IsView(d)
<1>1. /\ d.orders = [id \in OrderIDs |-> d.orders[id]]
      /\ d.order_items = [id \in ItemIDs |-> d.order_items[id]]
      /\ d.outbox_events = [id \in EventIDs |-> d.outbox_events[id]]
  BY DEF IsDatabase
<1> QED
  BY <1>1, TheTables DEF IsDatabase, IsView

\* The rows of each table.
LEMMA PresentIs ==
    ASSUME NEW d
    PROVE  /\ Present(d, "orders") = {o \in OrderIDs : d.orders[o] # Nil}
           /\ Present(d, "order_items") = {i \in ItemIDs : d.order_items[i] # Nil}
           /\ Present(d, "outbox_events") = {e \in EventIDs : d.outbox_events[e] # Nil}
BY TheTables DEF Present

\* A transaction that has written nothing.
LEMMA NoRowsIs ==
    /\ NoRows.orders = [id \in OrderIDs |-> Nil] /\ NoRows.order_items = [id \in ItemIDs |-> Nil]
    /\ NoRows.outbox_events = [id \in EventIDs |-> Nil]
    /\ IsDatabase(NoRows) /\ Constraints(NoRows)
    /\ \A t \in Tables : \A id \in IDs[t] : NoRows[t][id] = Nil
<1>1. NoRows = [t \in Tables |-> [id \in IDs[t] |-> Nil]]
  BY DEF NoRows, EmptyDB
<1>2. /\ NoRows.orders = [id \in OrderIDs |-> Nil] /\ NoRows.order_items = [id \in ItemIDs |-> Nil]
      /\ NoRows.outbox_events = [id \in EventIDs |-> Nil]
  BY <1>1, TheTables
<1>3. NoRows = [t \in Tables |-> NoRows[t]]
  BY <1>1
<1>4. \A t \in Tables : \A id \in IDs[t] : NoRows[t][id] = Nil
  BY <1>1
<1> HIDE DEF NoRows
<1>5. IsDatabase(NoRows)
  BY <1>2, <1>3 DEF IsDatabase
<1>6. Constraints(NoRows)
  BY <1>4, TheTables DEF Constraints, Present
<1> QED
  BY <1>2, <1>4, <1>5, <1>6

\* A call's identifiers.
LEMMA CallIDs ==
    ASSUME NEW c \in Calls
    PROVE  /\ NewOrder[c] \in OrderIDs /\ NewEvent[c] \in EventIDs
           /\ \A k \in DOMAIN NewItems[c] : NewItems[c][k] \in ItemIDs
BY IdentifiersAssumption DEF IdentifiersAssumption

\* Each line of a request has an identifier for its item.
LEMMA LinesHaveIDs ==
    ASSUME NEW c \in Calls, NEW r \in Requests[c]
    PROVE  \A k \in DOMAIN r.items : k \in DOMAIN NewItems[c] /\ NewItems[c][k] \in ItemIDs
<1>1. PICK n \in 0..Len(NewItems[c]) : DOMAIN r.items = 1..n
  BY RequestsAssumption DEF RequestsAssumption
<1> QED
  BY <1>1, IdentifiersAssumption DEF IdentifiersAssumption

\* Calls have different identifiers.
LEMMA NewRowsDiffer ==
    ASSUME NEW c \in Calls, NEW d \in Calls
    PROVE  /\ NewOrder[c] = NewOrder[d] => c = d
           /\ NewEvent[c] = NewEvent[d] => c = d
           /\ \A j \in DOMAIN NewItems[c], k \in DOMAIN NewItems[d] :
                 NewItems[c][j] = NewItems[d][k] => c = d /\ j = k
BY IdentifiersAssumption DEF IdentifiersAssumption

\* A call has no row where another has one.
LEMMA MineApart ==
    ASSUME NEW c \in Calls, NEW d, NEW mine, Absent(d, c), RowsOf(mine, {c}),
           NEW t \in Tables, NEW id \in IDs[t], mine[t][id] # Nil
    PROVE  d[t][id] = Nil
<1>1. CASE t = "orders"
  <2>1. id = NewOrder[c]
    BY <1>1, PresentIs, TheTables DEF RowsOf
  <2> QED
    BY <1>1, <2>1 DEF Absent
<1>2. CASE t = "order_items"
  <2>1. \E k \in DOMAIN NewItems[c] : id = NewItems[c][k]
    BY <1>2, PresentIs, TheTables DEF RowsOf
  <2> QED
    BY <1>2, <2>1 DEF Absent
<1>3. CASE t = "outbox_events"
  <2>1. id = NewEvent[c]
    BY <1>3, PresentIs, TheTables DEF RowsOf
  <2> QED
    BY <1>3, <2>1 DEF Absent
<1> QED
  BY <1>1, <1>2, <1>3, TheTables

\* What a statement leaves in the transaction.
LEMMA InsertedIs ==
    ASSUME NEW new, NEW c \in Calls, Absent(db, c)
    PROVE  /\ IsView(Inserted(new))
           /\ Inserted(new).orders[NewOrder[c]] = new.orders[NewOrder[c]]
           /\ Inserted(new).outbox_events[NewEvent[c]] = new.outbox_events[NewEvent[c]]
           /\ \A k \in DOMAIN NewItems[c] : Inserted(new).order_items[NewItems[c][k]] = new.order_items[NewItems[c][k]]
           /\ \A t \in Tables : \A id \in IDs[t] :
                  Inserted(new)[t][id] = IF db[t][id] = Nil THEN new[t][id] ELSE Nil
<1> DEFINE M == Inserted(new)
<1>1. M = [t \in Tables |-> [id \in IDs[t] |-> IF db[t][id] = Nil THEN new[t][id] ELSE Nil]]
  BY DEF Inserted
<1> HIDE DEF M
<1>2. \A t \in Tables : \A id \in IDs[t] : M[t][id] = IF db[t][id] = Nil THEN new[t][id] ELSE Nil
  BY <1>1
<1>3. IsView(M)
  BY <1>1 DEF IsView
<1>4. M.orders[NewOrder[c]] = new.orders[NewOrder[c]]
  BY <1>2, CallIDs, TheTables DEF Absent
<1>5. M.outbox_events[NewEvent[c]] = new.outbox_events[NewEvent[c]]
  BY <1>2, CallIDs, TheTables DEF Absent
<1>6. \A k \in DOMAIN NewItems[c] : M.order_items[NewItems[c][k]] = new.order_items[NewItems[c][k]]
  BY <1>2, CallIDs, TheTables DEF Absent
<1> QED
  BY <1>2, <1>3, <1>4, <1>5, <1>6 DEF M

\* The transaction sees the committed rows and its own.
LEMMA OwnIs ==
    ASSUME NEW c \in Calls, IsDatabase(db), IsDatabase(call[c].mine)
    PROVE  /\ IsView(Own(c)) /\ IsDatabase(Own(c))
           /\ \A t \in Tables : \A id \in IDs[t] :
                  Own(c)[t][id] = IF call[c].mine[t][id] # Nil THEN call[c].mine[t][id] ELSE db[t][id]
<1> DEFINE V == Own(c)
           mine == call[c].mine
<1>1. V = [t \in Tables |-> [id \in IDs[t] |-> IF mine[t][id] # Nil THEN mine[t][id] ELSE db[t][id]]]
  BY DEF Own
<1> HIDE DEF V, mine
<1>2. \A t \in Tables : \A id \in IDs[t] : V[t][id] = IF mine[t][id] # Nil THEN mine[t][id] ELSE db[t][id]
  BY <1>1
<1>3. IsView(V)
  BY <1>1 DEF IsView
<1>4. IsDatabase(V)
  <2>1. V = [t \in Tables |-> V[t]]
    BY <1>1
  <2>a. \A t \in Tables : V[t] = [id \in IDs[t] |-> IF mine[t][id] # Nil THEN mine[t][id] ELSE db[t][id]]
    BY <1>1
  <2>b. /\ "orders" \in Tables /\ "order_items" \in Tables /\ "outbox_events" \in Tables
        /\ IDs["orders"] = OrderIDs /\ IDs["order_items"] = ItemIDs /\ IDs["outbox_events"] = EventIDs
    BY TheTables
  <2>2. V.orders = [id \in OrderIDs |-> IF mine.orders[id] # Nil THEN mine.orders[id] ELSE db.orders[id]]
    BY <2>a, <2>b, ZenonT(30)
  <2>3. V.order_items = [id \in ItemIDs |->
            IF mine.order_items[id] # Nil THEN mine.order_items[id] ELSE db.order_items[id]]
    BY <2>a, <2>b, ZenonT(30)
  <2>4. V.outbox_events = [id \in EventIDs |->
            IF mine.outbox_events[id] # Nil THEN mine.outbox_events[id] ELSE db.outbox_events[id]]
    BY <2>a, <2>b, ZenonT(30)
  <2>5. /\ mine.orders \in [OrderIDs -> OrderRows \cup {Nil}]
        /\ mine.order_items \in [ItemIDs -> ItemRows \cup {Nil}]
        /\ mine.outbox_events \in [EventIDs -> EventRows \cup {Nil}]
    BY DEF IsDatabase, mine
  <2>c. /\ db.orders \in [OrderIDs -> OrderRows \cup {Nil}]
        /\ db.order_items \in [ItemIDs -> ItemRows \cup {Nil}]
        /\ db.outbox_events \in [EventIDs -> EventRows \cup {Nil}]
    BY DEF IsDatabase
  <2>d. ASSUME NEW I, NEW R, NEW f \in [I -> R], NEW g \in [I -> R]
        PROVE  [id \in I |-> IF f[id] # Nil THEN f[id] ELSE g[id]] \in [I -> R]
    OBVIOUS
  <2>6. V.orders \in [OrderIDs -> OrderRows \cup {Nil}]
    BY <2>2, <2>5, <2>c, <2>d
  <2>7. V.order_items \in [ItemIDs -> ItemRows \cup {Nil}]
    BY <2>3, <2>5, <2>c, <2>d
  <2>8. V.outbox_events \in [EventIDs -> EventRows \cup {Nil}]
    BY <2>4, <2>5, <2>c, <2>d
  <2> QED
    BY <2>1, <2>6, <2>7, <2>8 DEF IsDatabase
<1> QED
  BY <1>2, <1>3, <1>4 DEF V, mine

\* What a request is made of.
LEMMA AskedOf ==
    ASSUME NEW c \in Calls, NEW r \in Requests[c]
    PROVE  /\ r \in AllRequests /\ r.customer \in {q.customer : q \in AllRequests}
           /\ r.address \in {q.address : q \in AllRequests}
           /\ \A k \in DOMAIN r.items : r.items[k].variant \in Variants
<1>1. r \in AllRequests
  BY DEF AllRequests
<1>2. \A k \in DOMAIN r.items : r.items[k].variant \in Variants
  <2>1. TAKE k \in DOMAIN r.items
  <2> DEFINE V == {r.items[j].variant : j \in DOMAIN r.items}
  <2>2. r.items[k].variant \in V
    OBVIOUS
  <2>3. V \in {{q.items[j].variant : j \in DOMAIN q.items} : q \in AllRequests}
    BY <1>1
  <2> QED
    BY <2>2, <2>3 DEF Variants
<1> QED
  BY <1>1, <1>2

\* The order sent is a row.
LEMMA SavedOrderRow ==
    ASSUME NEW c \in Calls, NEW r \in Requests[c], NEW now \in Nat
    PROVE  SavedOrder(r, now) \in OrderRows /\ SavedOrder(r, now) # Nil
<1>1. Subtotal(r) \in Int /\ Tax(r) \in Int /\ OrderTotal(r) \in Int
  BY AmountsAreWhole
<1>2. /\ r.customer \in {q.customer : q \in AllRequests}
      /\ r.address \in {q.address : q \in AllRequests}
  BY AskedOf
<1>3. SavedOrder(r, now) \in OrderRows
  BY <1>1, <1>2 DEF SavedOrder, OrderRows, StatusValues
<1> QED
  BY <1>3, NilAssumption DEF NilAssumption

\* An item sent is a row.
LEMMA SavedItemRow ==
    ASSUME NEW c \in Calls, NEW r \in Requests[c], NEW now \in Nat, NEW k \in DOMAIN r.items
    PROVE  SavedItem(c, r.items[k], now) \in ItemRows /\ SavedItem(c, r.items[k], now) # Nil
<1> DEFINE line == r.items[k]
<1>1. line.quantity \in Int /\ line.price \in Int
  BY RequestsAssumption DEF RequestsAssumption
<1>2. line.variant \in Variants
  BY AskedOf
<1>3. NewOrder[c] \in OrderIDs
  BY CallIDs
<1> HIDE DEF line
<1>4. LineTotal(line) \in Int
  BY <1>1 DEF LineTotal
<1>5. SavedItem(c, line, now) \in ItemRows
  BY <1>1, <1>2, <1>3, <1>4 DEF SavedItem, ItemRows
<1> QED
  BY <1>5, NilAssumption DEF NilAssumption, line

\* The event sent is a row.
LEMMA SavedEventRow ==
    ASSUME NEW c \in Calls, NEW r \in Requests[c], NEW now \in Nat
    PROVE  SavedEvent(c, r, "created", now) \in EventRows /\ SavedEvent(c, r, "created", now) # Nil
<1> DEFINE P == {Payload(c, q) : q \in Requests[c]}
<1>1. Payload(c, r) \in P /\ P \in {{Payload(d, q) : q \in Requests[d]} : d \in Calls}
  OBVIOUS
<1>2. Payload(c, r) \in UNION {{Payload(d, q) : q \in Requests[d]} : d \in Calls}
  BY <1>1
<1>3. NewOrder[c] \in OrderIDs
  BY CallIDs
<1> DEFINE Payloads == UNION {{Payload(d, q) : q \in Requests[d]} : d \in Calls}
           no == FALSE
           yesno == BOOLEAN
<1>4. SavedEvent(c, r, "created", now) = [created_at |-> now, updated_at |-> now, aggregate_type |-> "order",
          aggregate_id |-> NewOrder[c], event_type |-> "order.created", processed |-> no,
          payload |-> Payload(c, r)]
  BY DEF SavedEvent, Payload
<1>5. Payload(c, r) \in Payloads /\ no \in yesno
  <2>1. no \in yesno
    BY Zenon
  <2> QED
    BY <1>2, <2>1
<1>6. EventRows = [created_at : Nat, updated_at : Nat, aggregate_type : {"order"}, aggregate_id : OrderIDs,
                   event_type : {"order.created"}, processed : yesno, payload : Payloads]
  BY DEF EventRows
<1> HIDE DEF Payloads, no, yesno
<1>7. SavedEvent(c, r, "created", now) \in EventRows
  BY <1>3, <1>4, <1>5, <1>6
<1> QED
  BY <1>7, NilAssumption DEF NilAssumption

\* The rows a statement of call c leaves are rows of call c.
LEMMA InsertedRows ==
    ASSUME NEW c \in Calls, IsDatabase(db), Absent(db, c),
           IsDatabase(call[c].mine), RowsOf(call[c].mine, {c}), NEW new, Constraints(new),
           \A o \in OrderIDs : o # NewOrder[c] => new.orders[o] = Own(c).orders[o],
           \A i \in ItemIDs : (\A k \in DOMAIN NewItems[c] : i # NewItems[c][k]) =>
                                  new.order_items[i] = Own(c).order_items[i],
           \A e \in EventIDs : e # NewEvent[c] => new.outbox_events[e] = Own(c).outbox_events[e],
           new.orders[NewOrder[c]] \in OrderRows,
           \A k \in DOMAIN NewItems[c] : /\ new.order_items[NewItems[c][k]] \in ItemRows \cup {Nil}
                                         /\ \/ new.order_items[NewItems[c][k]] = Nil
                                            \/ new.order_items[NewItems[c][k]].order_items = NewOrder[c],
           new.outbox_events[NewEvent[c]] \in EventRows \cup {Nil}
    PROVE  LET M == Inserted(new)
           IN  /\ IsDatabase(M) /\ Constraints(M) /\ RowsOf(M, {c})
               /\ M.orders[NewOrder[c]] = new.orders[NewOrder[c]]
               /\ M.outbox_events[NewEvent[c]] = new.outbox_events[NewEvent[c]]
               /\ \A k \in DOMAIN NewItems[c] : M.order_items[NewItems[c][k]] = new.order_items[NewItems[c][k]]
<1> DEFINE M == Inserted(new)
           mine == call[c].mine
<1>1. /\ IsView(M) /\ M.orders[NewOrder[c]] = new.orders[NewOrder[c]]
      /\ M.outbox_events[NewEvent[c]] = new.outbox_events[NewEvent[c]]
      /\ \A k \in DOMAIN NewItems[c] : M.order_items[NewItems[c][k]] = new.order_items[NewItems[c][k]]
      /\ \A t \in Tables : \A id \in IDs[t] : M[t][id] = IF db[t][id] = Nil THEN new[t][id] ELSE Nil
  BY InsertedIs
<1>2. \A t \in Tables : \A id \in IDs[t] : Own(c)[t][id] = IF mine[t][id] # Nil THEN mine[t][id] ELSE db[t][id]
  BY OwnIs
<1> HIDE DEF M
<1>3. ASSUME NEW o \in OrderIDs, o # NewOrder[c] PROVE M.orders[o] = Nil
  <2>1. mine.orders[o] = Nil
    BY <1>3, PresentIs DEF RowsOf
  <2>2. Own(c).orders[o] = db.orders[o]
    BY <1>2, <2>1, TheTables
  <2>3. M.orders[o] = IF db.orders[o] = Nil THEN new.orders[o] ELSE Nil
    BY <1>1, TheTables
  <2> QED
    BY <1>3, <2>2, <2>3
<1>4. ASSUME NEW i \in ItemIDs, \A k \in DOMAIN NewItems[c] : i # NewItems[c][k] PROVE M.order_items[i] = Nil
  <2>1. mine.order_items[i] = Nil
    BY <1>4, PresentIs DEF RowsOf
  <2>2. Own(c).order_items[i] = db.order_items[i]
    BY <1>2, <2>1, TheTables
  <2>3. M.order_items[i] = IF db.order_items[i] = Nil THEN new.order_items[i] ELSE Nil
    BY <1>1, TheTables
  <2> QED
    BY <1>4, <2>2, <2>3
<1>5. ASSUME NEW e \in EventIDs, e # NewEvent[c] PROVE M.outbox_events[e] = Nil
  <2>1. mine.outbox_events[e] = Nil
    BY <1>5, PresentIs DEF RowsOf
  <2>2. Own(c).outbox_events[e] = db.outbox_events[e]
    BY <1>2, <2>1, TheTables
  <2>3. M.outbox_events[e] = IF db.outbox_events[e] = Nil THEN new.outbox_events[e] ELSE Nil
    BY <1>1, TheTables
  <2> QED
    BY <1>5, <2>2, <2>3
<1>6. IsDatabase(M)
  <2>1. M.orders \in [OrderIDs -> OrderRows \cup {Nil}]
    <3>1. M.orders = [id \in OrderIDs |-> M.orders[id]]
      BY <1>1, TheTables DEF IsView
    <3>2. \A o \in OrderIDs : M.orders[o] \in OrderRows \cup {Nil}
      BY <1>1, <1>3
    <3> QED
      BY <3>1, <3>2
  <2>2. M.order_items \in [ItemIDs -> ItemRows \cup {Nil}]
    <3>1. M.order_items = [id \in ItemIDs |-> M.order_items[id]]
      BY <1>1, TheTables DEF IsView
    <3>2. \A i \in ItemIDs : M.order_items[i] \in ItemRows \cup {Nil}
      BY <1>1, <1>4
    <3> QED
      BY <3>1, <3>2
  <2>3. M.outbox_events \in [EventIDs -> EventRows \cup {Nil}]
    <3>1. M.outbox_events = [id \in EventIDs |-> M.outbox_events[id]]
      BY <1>1, TheTables DEF IsView
    <3>2. \A e \in EventIDs : M.outbox_events[e] \in EventRows \cup {Nil}
      BY <1>1, <1>5
    <3> QED
      BY <3>1, <3>2
  <2>4. M = [t \in Tables |-> M[t]]
    BY <1>1 DEF IsView
  <2> QED
    BY <2>1, <2>2, <2>3, <2>4 DEF IsDatabase
<1>7. RowsOf(M, {c})
  <2>1. \A o \in Present(M, "orders") : o = NewOrder[c]
    BY <1>3, PresentIs
  <2>2. \A i \in Present(M, "order_items") : \E k \in DOMAIN NewItems[c] : i = NewItems[c][k]
    BY <1>4, PresentIs
  <2>3. \A e \in Present(M, "outbox_events") : e = NewEvent[c]
    BY <1>5, PresentIs
  <2> QED
    BY <2>1, <2>2, <2>3 DEF RowsOf
<1>8. Constraints(M)
  <2>1. ASSUME NEW t \in Tables, NEW id \in Present(M, t), NEW col \in TableColumns[t] \ Nullable
        PROVE  M[t][id][col] # Nil
    <3>1. id \in IDs[t] /\ M[t][id] # Nil
      BY DEF Present
    <3>2. M[t][id] = new[t][id]
      BY <1>1, <3>1
    <3>3. id \in Present(new, t)
      BY <3>1, <3>2 DEF Present
    <3> QED
      BY <3>2, <3>3 DEF Constraints
  <2>2. ASSUME NEW i \in Present(M, "order_items")
        PROVE  M.order_items[i].order_items \in Present(M, "orders")
    <3>1. PICK k \in DOMAIN NewItems[c] : i = NewItems[c][k]
      BY <1>7 DEF RowsOf
    <3>2. M.order_items[i] # Nil
      BY PresentIs
    <3>3. M.order_items[i].order_items = NewOrder[c]
      BY <1>1, <3>1, <3>2
    <3>4. M.orders[NewOrder[c]] # Nil
      BY <1>1, NilAssumption DEF NilAssumption
    <3> QED
      BY <3>3, <3>4, PresentIs, CallIDs
  <2> QED
    BY <2>1, <2>2 DEF Constraints
<1> QED
  BY <1>1, <1>6, <1>7, <1>8 DEF M

----------------------------------------------------------------------------
(***************************************************************************)
(* The transaction's own rows, statement by statement.                     *)
(***************************************************************************)
\* After the first statement the transaction holds the order.
LEMMA OrderInserted ==
    ASSUME NEW c \in Calls, NEW r \in Requests[c], IsDatabase(db), Absent(db, c), clock \in Nat,
           OwnRows(call[c].mine, c, "order", r), SaveOrder(Own(c), c, r, clock).err = "none"
    PROVE  LET M == Inserted(SaveOrder(Own(c), c, r, clock).db)
           IN  OwnRows(M, c, "items", r) /\ M.orders[NewOrder[c]].created_at = clock
<1> DEFINE row == SavedOrder(r, clock)
           V == Own(c)
           o == NewOrder[c]
           new == [V EXCEPT !["orders"][o] = row]
           M == Inserted(new)
<1>1. SaveOrder(V, c, r, clock).db = new /\ Constraints(new)
  BY SaveOrderDoes
<1>2. call[c].mine = NoRows /\ IsDatabase(call[c].mine) /\ RowsOf(call[c].mine, {c})
  BY DEF OwnRows
<1>3. IsView(V) /\ \A t \in Tables : \A id \in IDs[t] : V[t][id] = db[t][id]
  <2>1. \A t \in Tables : \A id \in IDs[t] : call[c].mine[t][id] = Nil
    BY <1>2, NoRowsIs
  <2> QED
    BY <1>2, <2>1, OwnIs
<1>4. row \in OrderRows /\ row # Nil
  BY SavedOrderRow
<1>5. row.customer_id = r.customer /\ row.total = OrderTotal(r) /\ row.status = "created" /\ row.created_at = clock
  BY DEF SavedOrder
<1>6. o \in OrderIDs
  BY CallIDs
<1> HIDE DEF row, V, o
<1>7. /\ new.orders[o] = row /\ \A p \in OrderIDs : p # o => new.orders[p] = V.orders[p]
      /\ new.order_items = V.order_items /\ new.outbox_events = V.outbox_events
  BY <1>3, <1>6, TheTables DEF IsView
<1> HIDE DEF new
<1>8. \A k \in DOMAIN NewItems[c] : new.order_items[NewItems[c][k]] = Nil
  <2>1. \A k \in DOMAIN NewItems[c] : db.order_items[NewItems[c][k]] = Nil
    BY DEF Absent
  <2> QED
    BY <1>3, <1>7, <2>1, CallIDs, TheTables
<1>9. new.outbox_events[NewEvent[c]] = Nil
  <2>1. db.outbox_events[NewEvent[c]] = Nil
    BY DEF Absent
  <2> QED
    BY <1>3, <1>7, <2>1, CallIDs, TheTables
<1>10. /\ IsDatabase(M) /\ Constraints(M) /\ RowsOf(M, {c}) /\ M.orders[o] = new.orders[o]
       /\ M.outbox_events[NewEvent[c]] = new.outbox_events[NewEvent[c]]
       /\ \A k \in DOMAIN NewItems[c] : M.order_items[NewItems[c][k]] = new.order_items[NewItems[c][k]]
  BY <1>1, <1>2, <1>4, <1>7, <1>8, <1>9, InsertedRows DEF V, o
<1> HIDE DEF M
<1>11. \A i \in ItemIDs : M.order_items[i] = Nil
  BY <1>8, <1>10, PresentIs DEF RowsOf
<1>12. OrderStored(M, c, r) /\ M.orders[NewOrder[c]].status = "created" /\ M.orders[NewOrder[c]].created_at = clock
  BY <1>4, <1>5, <1>7, <1>10 DEF OrderStored, o
<1>13. OwnRows(M, c, "items", r)
  BY <1>9, <1>10, <1>11, <1>12 DEF OwnRows
<1> QED
  BY <1>1, <1>12, <1>13 DEF M, V

\* After the second it holds the items too, and the same order.
LEMMA ItemsInserted ==
    ASSUME NEW c \in Calls, NEW r \in Requests[c], IsDatabase(db), Absent(db, c), clock \in Nat,
           OwnRows(call[c].mine, c, "items", r), SaveItems(Own(c), c, r, clock).err = "none"
    PROVE  LET M == Inserted(SaveItems(Own(c), c, r, clock).db)
           IN  OwnRows(M, c, "event", r) /\ M.orders[NewOrder[c]] = call[c].mine.orders[NewOrder[c]]
<1> DEFINE V == Own(c)
           mine == call[c].mine
           o == NewOrder[c]
           new == SaveItems(V, c, r, clock).db
           M == Inserted(new)
<1>1. /\ IsDatabase(mine) /\ RowsOf(mine, {c}) /\ OrderStored(mine, c, r) /\ mine.orders[o].status = "created"
      /\ \A i \in ItemIDs : mine.order_items[i] = Nil
      /\ mine.outbox_events[NewEvent[c]] = Nil
  BY DEF OwnRows
<1>2. IsView(V) /\ \A t \in Tables : \A id \in IDs[t] : V[t][id] = IF mine[t][id] # Nil THEN mine[t][id] ELSE db[t][id]
  BY <1>1, OwnIs
<1> HIDE DEF V
<1>3. /\ IsView(new) /\ Constraints(new)
      /\ new.orders = V.orders /\ new.outbox_events = V.outbox_events
      /\ \A k \in DOMAIN r.items : new.order_items[NewItems[c][k]] = SavedItem(c, r.items[k], clock)
      /\ \A id \in ItemIDs : (\A k \in DOMAIN r.items : id # NewItems[c][k]) =>
             new.order_items[id] = V.order_items[id]
  BY <1>2, SaveItemsDoes DEF V
<1> HIDE DEF new, mine, o
<1>4. o \in OrderIDs /\ NewEvent[c] \in EventIDs /\ mine.orders[o] # Nil /\ mine.orders[o] \in OrderRows
  <2>1. o \in OrderIDs /\ NewEvent[c] \in EventIDs
    BY CallIDs DEF o
  <2>2. mine.orders[o] # Nil
    BY <1>1 DEF OrderStored, o
  <2> QED
    BY <1>1, <2>1, <2>2 DEF IsDatabase
<1>5. new.orders[o] = mine.orders[o]
  BY <1>2, <1>3, <1>4, TheTables
<1>6. new.outbox_events[NewEvent[c]] = Nil
  <2>1. db.outbox_events[NewEvent[c]] = Nil
    BY DEF Absent
  <2> QED
    BY <1>1, <1>2, <1>3, <1>4, <2>1, TheTables
<1>7. \A k \in DOMAIN r.items : k \in DOMAIN NewItems[c] /\ NewItems[c][k] \in ItemIDs
  BY LinesHaveIDs
<1>8. ASSUME NEW k \in DOMAIN NewItems[c], k \notin DOMAIN r.items PROVE new.order_items[NewItems[c][k]] = Nil
  <2>1. NewItems[c][k] \in ItemIDs
    BY CallIDs
  <2>2. \A j \in DOMAIN r.items : NewItems[c][k] # NewItems[c][j]
    BY <1>7, <1>8, NewRowsDiffer
  <2>3. db.order_items[NewItems[c][k]] = Nil
    BY DEF Absent
  <2> QED
    BY <1>1, <1>2, <1>3, <2>1, <2>2, <2>3, TheTables
<1>9. ASSUME NEW k \in DOMAIN r.items
      PROVE  LET row == new.order_items[NewItems[c][k]]
             IN  /\ row \in ItemRows /\ row # Nil /\ row.order_items = o
                 /\ row.variant_id = r.items[k].variant /\ row.quantity = r.items[k].quantity
  <2> DEFINE row == new.order_items[NewItems[c][k]]
  <2>1. row = SavedItem(c, r.items[k], clock)
    BY <1>3
  <2> HIDE DEF row
  <2>2. row \in ItemRows /\ row # Nil
    BY <2>1, SavedItemRow
  <2>3. row.order_items = o /\ row.variant_id = r.items[k].variant /\ row.quantity = r.items[k].quantity
    BY <2>1 DEF SavedItem, o
  <2> QED
    BY <2>2, <2>3 DEF row
<1>10. /\ \A p \in OrderIDs : p # o => new.orders[p] = V.orders[p]
       /\ \A i \in ItemIDs : (\A k \in DOMAIN NewItems[c] : i # NewItems[c][k]) => new.order_items[i] = V.order_items[i]
       /\ \A e \in EventIDs : e # NewEvent[c] => new.outbox_events[e] = V.outbox_events[e]
  BY <1>3, <1>7
<1>11. \A k \in DOMAIN NewItems[c] : /\ new.order_items[NewItems[c][k]] \in ItemRows \cup {Nil}
                                     /\ \/ new.order_items[NewItems[c][k]] = Nil
                                        \/ new.order_items[NewItems[c][k]].order_items = o
  BY <1>8, <1>9
<1>12. /\ IsDatabase(M) /\ Constraints(M) /\ RowsOf(M, {c}) /\ M.orders[o] = new.orders[o]
       /\ M.outbox_events[NewEvent[c]] = new.outbox_events[NewEvent[c]]
       /\ \A k \in DOMAIN NewItems[c] : M.order_items[NewItems[c][k]] = new.order_items[NewItems[c][k]]
  BY <1>1, <1>3, <1>4, <1>5, <1>6, <1>10, <1>11, InsertedRows DEF V, o, mine
<1> HIDE DEF M
<1>13. ItemsStored(M, c, r)
  BY <1>7, <1>8, <1>9, <1>12 DEF ItemsStored, o
<1>14. OrderStored(M, c, r) /\ M.orders[NewOrder[c]].status = "created"
  BY <1>1, <1>5, <1>12 DEF OrderStored, o
<1>15. OwnRows(M, c, "event", r)
  BY <1>6, <1>12, <1>13, <1>14 DEF OwnRows
<1> QED
  BY <1>5, <1>12, <1>15 DEF M, V, new, mine, o

\* After the third it is ready to commit.
LEMMA EventInserted ==
    ASSUME NEW c \in Calls, NEW r \in Requests[c], IsDatabase(db), Absent(db, c), clock \in Nat,
           OwnRows(call[c].mine, c, "event", r), SaveEvent(Own(c), c, r, clock).err = "none"
    PROVE  LET M == Inserted(SaveEvent(Own(c), c, r, clock).db)
           IN  OwnRows(M, c, "commit", r) /\ M.orders[NewOrder[c]] = call[c].mine.orders[NewOrder[c]]
<1> DEFINE V == Own(c)
           mine == call[c].mine
           o == NewOrder[c]
           e == NewEvent[c]
           row == SavedEvent(c, r, V.orders[NewOrder[c]].status, clock)
           new == [V EXCEPT !["outbox_events"][e] = row]
           M == Inserted(new)
<1>1. /\ IsDatabase(mine) /\ RowsOf(mine, {c}) /\ OrderStored(mine, c, r) /\ mine.orders[o].status = "created"
      /\ ItemsStored(mine, c, r)
  BY DEF OwnRows
<1>2. IsView(V) /\ \A t \in Tables : \A id \in IDs[t] : V[t][id] = IF mine[t][id] # Nil THEN mine[t][id] ELSE db[t][id]
  BY <1>1, OwnIs
<1>3. SaveEvent(V, c, r, clock).db = new /\ Constraints(new)
  BY SaveEventDoes
<1>4. o \in OrderIDs /\ e \in EventIDs /\ mine.orders[o] # Nil /\ mine.orders[o] \in OrderRows
  <2>1. o \in OrderIDs /\ e \in EventIDs
    BY CallIDs
  <2>2. mine.orders[o] # Nil
    BY <1>1 DEF OrderStored
  <2> QED
    BY <1>1, <2>1, <2>2 DEF IsDatabase
<1>5. V.orders[o] = mine.orders[o]
  BY <1>2, <1>4, TheTables
<1>6. row = SavedEvent(c, r, "created", clock)
  BY <1>1, <1>5
<1> HIDE DEF V, mine, row
<1>7. row \in EventRows /\ row # Nil
  BY <1>6, SavedEventRow
<1>8. row.aggregate_id = o /\ row.payload = Payload(c, r)
  BY <1>6 DEF SavedEvent, Payload
<1> HIDE DEF o, e
<1>9. /\ new.outbox_events[e] = row /\ \A p \in EventIDs : p # e => new.outbox_events[p] = V.outbox_events[p]
      /\ new.order_items = V.order_items /\ new.orders = V.orders
  BY <1>2, <1>4, TheTables DEF IsView
<1> HIDE DEF new
<1>10. ASSUME NEW k \in DOMAIN NewItems[c] PROVE new.order_items[NewItems[c][k]] = mine.order_items[NewItems[c][k]]
  <2>1. NewItems[c][k] \in ItemIDs
    BY CallIDs
  <2>2. db.order_items[NewItems[c][k]] = Nil
    BY DEF Absent
  <2> QED
    BY <1>2, <1>9, <2>1, <2>2, TheTables
<1>11. \A k \in DOMAIN NewItems[c] : /\ new.order_items[NewItems[c][k]] \in ItemRows \cup {Nil}
                                     /\ \/ new.order_items[NewItems[c][k]] = Nil
                                        \/ new.order_items[NewItems[c][k]].order_items = o
  <2>1. TAKE k \in DOMAIN NewItems[c]
  <2>2. NewItems[c][k] \in ItemIDs
    BY CallIDs
  <2>3. mine.order_items[NewItems[c][k]] \in ItemRows \cup {Nil}
    BY <1>1, <2>2 DEF IsDatabase
  <2>4. \/ mine.order_items[NewItems[c][k]] = Nil
        \/ mine.order_items[NewItems[c][k]].order_items = o
    BY <1>1 DEF ItemsStored, o
  <2> QED
    BY <1>10, <2>3, <2>4
<1>12. /\ IsDatabase(M) /\ Constraints(M) /\ RowsOf(M, {c}) /\ M.orders[o] = new.orders[o]
       /\ M.outbox_events[e] = new.outbox_events[e]
       /\ \A k \in DOMAIN NewItems[c] : M.order_items[NewItems[c][k]] = new.order_items[NewItems[c][k]]
  <2>1. \A p \in OrderIDs : p # o => new.orders[p] = V.orders[p]
    BY <1>9
  <2>2. \A i \in ItemIDs : (\A k \in DOMAIN NewItems[c] : i # NewItems[c][k]) => new.order_items[i] = V.order_items[i]
    BY <1>9
  <2>3. new.orders[o] \in OrderRows
    BY <1>4, <1>5, <1>9 DEF o
  <2> QED
    BY <1>1, <1>3, <1>7, <1>9, <1>11, <2>1, <2>2, <2>3, InsertedRows DEF V, o, e, mine
<1> HIDE DEF M
<1>13. ItemsStored(M, c, r)
  BY <1>1, <1>10, <1>12 DEF ItemsStored
<1>14. M.orders[o] = mine.orders[o]
  BY <1>5, <1>9, <1>12 DEF o
<1>15. OrderStored(M, c, r) /\ M.orders[NewOrder[c]].status = "created"
  BY <1>1, <1>14 DEF OrderStored, o
<1>16. EventStored(M, c, r)
  BY <1>7, <1>8, <1>9, <1>12 DEF EventStored, o, e
<1>17. OwnRows(M, c, "commit", r)
  BY <1>12, <1>13, <1>15, <1>16 DEF OwnRows
<1> QED
  BY <1>3, <1>14, <1>17 DEF M, V, mine, o

----------------------------------------------------------------------------
(***************************************************************************)
(* The UPDATE of UpdateStatus.                                             *)
(***************************************************************************)
\* A mutation of order o that only sets columns.
OnlySets(m, o) ==
    /\ {"set", "id", "add", "cleared", "edges", "removed", "edgeCleared", "where"} \subseteq DOMAIN m
    /\ m.set = [c \in OrderColumns |-> m.set[c]] /\ m.id = o
    /\ m.add = [c \in OrderAmounts |-> Nil] /\ m.cleared = {} /\ m.edges = {} /\ m.removed = {}
    /\ ~m.edgeCleared /\ m.where = <<>>

\* A setter of an update sets its column and no other.
LEMMA UpdateSetterTells ==
    ASSUME NEW m, NEW o, OnlySets(m, o), NEW col \in {"status", "error_message"}, NEW val, m.set[col] = Nil
    PROVE  LET n == SetUpdate(m, <<col, val>>)
           IN  /\ OnlySets(n, o) /\ n.set[col] = val
               /\ \A c \in OrderColumns \ {col} : n.set[c] = m.set[c]
<1> DEFINE set == Call(<<col, val>>)
           n == SetUpdate(m, <<col, val>>)
<1>1. /\ set.op = "set" /\ set.col = col /\ set.val = val /\ col # "items"
      /\ col \notin OrderAmounts /\ col \in OrderColumns
  BY DEF Call, OrderAmounts, OrderColumns
<1>2. n = OrderUpdateSetter(m, set)
  BY DEF SetUpdate, OrderUpdateOneSetter
<1> HIDE DEF set, n
<1>3. CASE val = Nil
  <2>1. n = m
    BY <1>1, <1>2, <1>3 DEF OrderUpdateSetter
  <2> QED
    BY <1>3, <2>1 DEF n
<1>4. CASE val # Nil
  <2>1. n = OrderField(m, set)
    BY <1>1, <1>2, <1>4 DEF OrderUpdateSetter
  <2>2. OrderField(m, set) = [m EXCEPT !.set[col] = val]
    BY <1>1 DEF OrderField, OrderScalar, OrderErrorMessage, OrderAmounts
  <2>3. OnlySets(n, o) /\ n.set[col] = val /\ \A c \in OrderColumns \ {col} : n.set[c] = m.set[c]
    BY <1>1, <2>1, <2>2 DEF OnlySets
  <2> QED
    BY <2>3 DEF n
<1> QED
  BY <1>3, <1>4

\* A mutation that sets what UpdateStatus is asked to, and the time.
IsStatusUpdate(m, ask, now) ==
    /\ OnlySets(m, ask.order)
    /\ m.set["updated_at"] = now /\ m.set["status"] = ask.status
    /\ m.set["error_message"] \in {Nil, "no stock", "no money"}
    /\ \A c \in OrderColumns \ {"updated_at", "status", "error_message"} : m.set[c] = Nil

\* What UpdateStatus tells its builder.
LEMMA StatusUpdateTells ==
    ASSUME NEW ask, ask.message \in Messages, NEW now
    PROVE  IsStatusUpdate(OrderUpdateDefaults(StatusUpdate(ask), now), ask, now)
<1> DEFINE m0 == NewOrderMutation("updateOne", ask.order)
           m1 == SetUpdate(m0, <<"status", ask.status>>)
           m2 == SetUpdate(m1, <<"error_message", ask.message>>)
           told == IF ask.message = "" THEN m1 ELSE m2
           m == OrderUpdateDefaults(told, now)
<1>a. StatusUpdate(ask) = told
  BY DEF StatusUpdate
<1>0. OnlySets(m0, ask.order) /\ \A c \in OrderColumns : m0.set[c] = Nil
  BY DEF NewOrderMutation, NewMutation, OnlySets
<1> HIDE DEF m0
<1>1. OnlySets(m1, ask.order) /\ m1.set["status"] = ask.status /\ \A c \in OrderColumns \ {"status"} : m1.set[c] = Nil
  <2>1. m0.set["status"] = Nil
    BY <1>0 DEF OrderColumns
  <2> QED
    BY <1>0, <2>1, UpdateSetterTells
<1> HIDE DEF m1
<1>2. OnlySets(m2, ask.order) /\ m2.set["error_message"] = ask.message
      /\ \A c \in OrderColumns \ {"error_message"} : m2.set[c] = m1.set[c]
  <2>1. m1.set["error_message"] = Nil
    BY <1>1 DEF OrderColumns
  <2> QED
    BY <1>1, <2>1, UpdateSetterTells
<1> HIDE DEF m2
<1>3. /\ OnlySets(told, ask.order) /\ told.set["status"] = ask.status
      /\ told.set["error_message"] \in {Nil, "no stock", "no money"}
      /\ \A c \in OrderColumns \ {"status", "error_message"} : told.set[c] = Nil
  <2>1. CASE ask.message = ""
    <3>1. told = m1
      BY <2>1
    <3> HIDE DEF told
    <3> QED
      BY <1>1, <3>1 DEF OrderColumns
  <2>2. CASE ask.message # ""
    <3>1. told = m2
      BY <2>2
    <3>2. ask.message \in {"no stock", "no money"}
      BY <2>2 DEF Messages
    <3> HIDE DEF told
    <3> QED
      BY <1>1, <1>2, <3>1, <3>2 DEF OrderColumns
  <2> QED
    BY <2>1, <2>2
<1> HIDE DEF told
<1>4. m = [told EXCEPT !.set["updated_at"] = now]
  <2>1. told.set["updated_at"] = Nil
    BY <1>3 DEF OrderColumns
  <2> QED
    BY <2>1 DEF OrderUpdateDefaults
<1> HIDE DEF m
<1>5. /\ OnlySets(m, ask.order) /\ m.set["updated_at"] = now
      /\ \A c \in OrderColumns \ {"updated_at"} : m.set[c] = told.set[c]
  BY <1>3, <1>4 DEF OnlySets, OrderColumns
<1>6. /\ m.set["status"] = ask.status
      /\ m.set["error_message"] \in {Nil, "no stock", "no money"}
      /\ \A c \in OrderColumns \ {"updated_at", "status", "error_message"} : m.set[c] = Nil
  BY <1>3, <1>5 DEF OrderColumns
<1> QED
  BY <1>a, <1>5, <1>6 DEF m, IsStatusUpdate

\* e is d with the status of order o, its message and its time changed.
Updated(d, e, o, s) ==
    /\ IsDatabase(e) /\ Constraints(e)
    /\ e.order_items = d.order_items /\ e.outbox_events = d.outbox_events
    /\ \A p \in OrderIDs \ {o} : e.orders[p] = d.orders[p]
    /\ e.orders[o] # Nil /\ e.orders[o].status = s /\ e.orders[o].created_at = d.orders[o].created_at
    /\ e.orders[o].customer_id = d.orders[o].customer_id /\ e.orders[o].total = d.orders[o].total

\* An update without edges leaves the items alone.
LEMMA NothingToLink ==
    ASSUME NEW d, IsView(d), Constraints(d), NEW ids
    PROVE  Unlink(d, ids, {}) = Outcome("none", d) /\ Link(d, ids, {}) = Outcome("none", d)
<1>1. d.order_items = [i \in ItemIDs |-> d.order_items[i]] /\ d = [t \in Tables |-> d[t]] /\ "order_items" \in Tables
  BY TheTables DEF IsView
<1>2. WithOrder(d, {}, Nil) = d
  BY <1>1 DEF WithOrder
<1>3. ItemsOf(d, ids) \cap {} = {}
  OBVIOUS
<1>4. Unlink(d, ids, {}) = Outcome("none", d)
  BY <1>2, <1>3 DEF Unlink, Execute
<1>5. Link(d, ids, {}) = Outcome("none", d)
  BY DEF Link
<1> QED
  BY <1>4, <1>5

\* The UPDATE of UpdateStatus changes the status of its order, or nothing.
LEMMA StatusWritten ==
    ASSUME NEW d, IsDatabase(d), Constraints(d), NEW ask, ask.order \in Present(d, "orders"),
           ask.status \in StatusValues, ask.message \in Messages, NEW now \in Nat
    PROVE  LET e == OrderUpdateOneSave(d, OrderUpdateDefaults(StatusUpdate(ask), now)).db
           IN  e = d \/ Updated(d, e, ask.order, ask.status)
<1>a. ask.status # Nil /\ now # Nil
  BY NilAssumption DEF NilAssumption
<1>b. DOMAIN <<>> = {}
  BY EmptySeq, LenProperties
<1>c. SUFFICES ASSUME NEW m, m = OrderUpdateDefaults(StatusUpdate(ask), now), NEW o, o = ask.order
               PROVE  LET e == OrderUpdateOneSave(d, m).db IN e = d \/ Updated(d, e, o, ask.status)
  OBVIOUS
<1>d. IsStatusUpdate(m, ask, now)
  BY <1>c, StatusUpdateTells
<1>1. /\ OnlySets(m, o)
      /\ m.set["updated_at"] = now /\ m.set["status"] = ask.status
      /\ m.set["error_message"] \in {Nil, "no stock", "no money"}
      /\ \A c \in OrderColumns \ {"updated_at", "status", "error_message"} : m.set[c] = Nil
  BY <1>c, <1>d DEF IsStatusUpdate
<1> DEFINE out == OrderUpdateOneSave(d, m)
           spec == OrderUpdateSpec(m)
           A == Assigns(spec)
           row == d.orders[o]
           new == [d EXCEPT !["orders"] = [id \in OrderIDs |-> IF id \in {o} THEN Assigned(d.orders[id], spec)
                                                               ELSE d.orders[id]]]
           up == UpdateRows(d, "orders", {o}, spec)
<1>2. o \in OrderIDs /\ row # Nil /\ row \in OrderRows
  <2>1. o \in OrderIDs /\ d.orders[o] # Nil
    BY <1>c, PresentIs
  <2> QED
    BY <2>1 DEF IsDatabase
<1>3. OrdersWhere(d, m.where) = Present(d, "orders")
  <2>1. m.where = <<>>
    BY <1>1 DEF OnlySets
  <2>3. DOMAIN m.where = {}
    BY <1>b, <2>1
  <2> QED
    BY <2>3 DEF OrdersWhere
<1>4. {m.id} \cap OrdersWhere(d, m.where) = {o}
  <2>1. m.id = o
    BY <1>1 DEF OnlySets
  <2>2. o \in Present(d, "orders")
    BY <1>c
  <2> QED
    BY <1>3, <2>1, <2>2
<1>5. out = IF ~OrderUpdateOneCheck(m) \/ m.id = Nil THEN Outcome("check", d)
            ELSE OrderUpdateStatements(d, m, {o})
  BY <1>4 DEF OrderUpdateOneSave
<1>6. A[1] = {c \in OrderColumns \ {"created_at"} : m.set[c] # Nil} /\ A[2] = {} /\ A[3] = {}
  <2>1. /\ spec.set = [c \in OrderColumns \ {"created_at"} |-> m.set[c]]
        /\ spec.add = [c \in OrderAmounts |-> Nil] /\ spec.clear = {}
    BY <1>1 DEF OrderUpdateSpec, UpdateSpec, OnlySets
  <2> HIDE DEF spec
  <2> QED
    BY <2>1 DEF Assigns
<1>7. \A c \in OrderColumns \ {"created_at"} : spec.set[c] = m.set[c]
  BY DEF OrderUpdateSpec, UpdateSpec
<1> HIDE DEF spec, out
<1>8. row = [c \in OrderColumns |-> row[c]]
  BY <1>2 DEF OrderRows, OrderColumns
<1>9. Assigned(row, spec) = [c \in OrderColumns |-> IF c # "created_at" /\ m.set[c] # Nil THEN m.set[c] ELSE row[c]]
  <2>1. DOMAIN row = OrderColumns
    BY <1>8
  <2> HIDE DEF row
  <2>2. Assigned(row, spec) = [c \in OrderColumns |-> CASE c \in A[1] -> spec.set[c]
                            [] c \in A[2] -> row[c] + spec.add[c]
                            [] c \in A[3] -> Nil
                            [] OTHER -> row[c]]
    BY <2>1 DEF Assigned
  <2> HIDE DEF A
  <2>3. ASSUME NEW c \in OrderColumns
        PROVE  (CASE c \in A[1] -> spec.set[c]
                            [] c \in A[2] -> row[c] + spec.add[c]
                            [] c \in A[3] -> Nil
                            [] OTHER -> row[c]) = IF c # "created_at" /\ m.set[c] # Nil THEN m.set[c] ELSE row[c]
    BY <1>6, <1>7
  <2> QED
    BY <2>2, <2>3
<1> HIDE DEF A
<1> DEFINE upd == Assigned(row, spec)
<1>10. /\ upd \in OrderRows /\ upd.status = ask.status
       /\ upd.customer_id = row.customer_id /\ upd.total = row.total /\ upd.created_at = row.created_at
  <2> USE DEF OrderColumns
  <2> HIDE DEF row, upd
  <2>0. upd = [c \in OrderColumns |-> IF c # "created_at" /\ m.set[c] # Nil THEN m.set[c] ELSE row[c]]
    BY <1>9 DEF upd
  <2>2. /\ upd.status = ask.status /\ upd.updated_at = now /\ upd.created_at = row.created_at
        /\ upd.customer_id = row.customer_id /\ upd.total = row.total /\ upd.subtotal = row.subtotal
        /\ upd.tax = row.tax /\ upd.shipping_cost = row.shipping_cost
        /\ upd.shipping_address = row.shipping_address /\ upd.billing_address = row.billing_address
    BY <1>1, <2>0, <1>a
  <2>3. upd.error_message \in {Nil, "no stock", "no money"}
    <3>1. row.error_message \in {Nil, "no stock", "no money"}
      BY <1>2 DEF OrderRows
    <3>2. upd.error_message = IF m.set["error_message"] # Nil THEN m.set["error_message"] ELSE row.error_message
      BY <2>0
    <3> QED
      BY <1>1, <3>1, <3>2
  <2>4. upd = [c \in OrderColumns |-> upd[c]]
    BY <2>0
  <2>5. upd \in OrderRows
    BY <1>2, <2>2, <2>3, <2>4 DEF OrderRows
  <2> QED
    BY <2>2, <2>5
<1> HIDE DEF upd
<1>11. d.orders = [id \in OrderIDs |-> d.orders[id]] /\ d = [t \in Tables |-> d[t]] /\ IsView(d)
  BY DatabaseIsView, TheTables DEF IsView
<1>12. /\ new.orders = [id \in OrderIDs |-> IF id \in {o} THEN Assigned(d.orders[id], spec) ELSE d.orders[id]]
       /\ new.order_items = d.order_items /\ new.outbox_events = d.outbox_events /\ new = [t \in Tables |-> new[t]]
  BY <1>11, TheTables
<1>13. new.orders[o] = upd /\ \A p \in OrderIDs \ {o} : new.orders[p] = d.orders[p]
  BY <1>2, <1>12 DEF upd
<1>14. up = Outcome("sql", d) \/ up = Execute(d, new)
  <2>1. IDs["orders"] = OrderIDs
    BY TheTables
  <2>2. [d EXCEPT !["orders"] = [id \in IDs["orders"] |-> IF id \in {o} THEN Assigned(@[id], spec) ELSE @[id]]] = new
    BY <2>1
  <2> HIDE DEF new
  <2> QED
    BY <2>2 DEF UpdateRows
<1> HIDE DEF new, up
<1>15. IsDatabase(new)
  <2>1. new.orders \in [OrderIDs -> OrderRows \cup {Nil}]
    <3>1. new.orders = [id \in OrderIDs |-> new.orders[id]]
      BY <1>12
    <3>2. \A p \in OrderIDs : new.orders[p] \in OrderRows \cup {Nil}
      BY <1>10, <1>13 DEF IsDatabase
    <3> QED
      BY <3>1, <3>2
  <2> QED
    BY <1>12, <2>1 DEF IsDatabase
<1>16. up.db = d \/ (up.db = new /\ Constraints(new))
  <2>1. Outcome("sql", d).db = d /\ Outcome("none", new).db = new
    BY DEF Outcome
  <2>2. Execute(d, new) = Outcome("sql", d) \/ (Execute(d, new) = Outcome("none", new) /\ Constraints(new))
    BY DEF Execute
  <2> QED
    BY <1>14, <2>1, <2>2
<1>17. OrderUpdateStatements(d, m, {o}) = IF up.err = "none"
           THEN LET un == Unlink(up.db, {o}, IF m.edgeCleared THEN ItemIDs ELSE m.removed)
                IN  IF un.err = "none" THEN Link(un.db, {o}, m.edges) ELSE un
           ELSE up
  BY DEF OrderUpdateStatements, Then, up, spec
<1>18. IsView(up.db) /\ Constraints(up.db)
  BY <1>11, <1>15, <1>16, DatabaseIsView
<1>19. ~m.edgeCleared /\ m.removed = {} /\ m.edges = {}
  BY <1>1 DEF OnlySets
<1>20. OrderUpdateStatements(d, m, {o}).db = up.db
  <2>1. Unlink(up.db, {o}, {}) = Outcome("none", up.db) /\ Link(up.db, {o}, {}) = Outcome("none", up.db)
    BY <1>18, NothingToLink
  <2>2. (IF m.edgeCleared THEN ItemIDs ELSE m.removed) = {}
    BY <1>19
  <2>3. OrderUpdateStatements(d, m, {o}) = IF up.err = "none" THEN Outcome("none", up.db) ELSE up
    <3>1. Outcome("none", up.db).err = "none" /\ Outcome("none", up.db).db = up.db
      BY DEF Outcome
    <3> QED
      BY <1>17, <1>19, <2>1, <2>2, <3>1
  <2>4. Outcome("none", up.db).db = up.db
    BY DEF Outcome
  <2> QED
    BY <2>3, <2>4
<1>21. out.db = d \/ (out.db = new /\ Constraints(new))
  BY <1>5, <1>16, <1>20 DEF Outcome
<1>22. Constraints(new) => Updated(d, new, o, ask.status)
  <2>1. upd # Nil
    BY <1>10, NilAssumption DEF NilAssumption
  <2> QED
    BY <1>10, <1>12, <1>13, <1>15, <2>1 DEF Updated
<1> QED
  BY <1>21, <1>22 DEF out

----------------------------------------------------------------------------
(***************************************************************************)
(* Queries: slices of the rows, an order by its identifier, what events ask. *)
(***************************************************************************)
\* The rest of a sequence.
LEMMA SkipIs ==
    ASSUME NEW S, NEW a \in Seq(S), NEW off \in Nat
    PROVE  SubSeq(a, off + 1, Len(a)) = [i \in 1..(Len(a) - off) |-> a[i + off]]
OBVIOUS

\* A part of a sequence.
LEMMA SubSeqIs ==
    ASSUME NEW S, NEW s \in Seq(S), NEW m \in Int, NEW n \in Int
    PROVE  SubSeq(s, m, n) = [i \in 1..(1 + n - m) |-> s[i + m - 1]]
OBVIOUS

\* s is what OFFSET and LIMIT leave of the n rows of a.
IsSlice(s, a, n, off, lim) ==
    /\ Len(s) = IF n - off > lim THEN lim ELSE IF n > off THEN n - off ELSE 0
    /\ DOMAIN s = 1..Len(s)
    /\ \A i \in 1..Len(s) : off + i \in 1..n /\ s[i] = a[off + i]

\* OFFSET and LIMIT cut a slice out of the rows.
LEMMA SliceIs ==
    ASSUME NEW S, NEW a \in Seq(S), NEW offset, NEW off \in Nat, offset = off \/ (offset = Nil /\ off = 0),
           NEW lim \in Nat \ {0}
    PROVE  IsSlice(Limited(Skipped(a, offset), lim), a, Len(a), off, lim)
<1> DEFINE n == Len(a)
           s == Limited(Skipped(a, offset), lim)
           b == Skipped(a, offset)
           len == IF n > off THEN n - off ELSE 0
<1>0. n \in Nat /\ lim # Nil /\ off # Nil
  BY NilAssumption DEF NilAssumption
<1>1. b = [i \in 1..(n - off) |-> a[i + off]]
  <2>1. b = SubSeq(a, off + 1, n)
    BY <1>0 DEF Skipped
  <2>2. SubSeq(a, off + 1, n) = [i \in 1..(n - off) |-> a[i + off]]
    BY SkipIs
  <2> QED
    BY <2>1, <2>2
<1>2. len \in Nat /\ 1..(n - off) = 1..len
  BY <1>0
<1>3. b \in Seq(S) /\ Len(b) = len /\ \A i \in 1..len : off + i \in 1..n /\ b[i] = a[off + i]
  <2>1. b = [i \in 1..len |-> a[i + off]]
    BY <1>1, <1>2
  <2>2. \A i \in 1..len : off + i \in 1..n /\ i + off = off + i
    BY <1>0
  <2>3. \A i \in 1..len : a[off + i] \in S
    BY <2>2
  <2> HIDE DEF b, len
  <2>4. b \in [1..len -> S]
    BY <2>1, <2>2, <2>3
  <2>5. b \in Seq(S) /\ Len(b) = len
    BY <1>2, <2>4, FunctionIsSeq
  <2> QED
    BY <2>1, <2>2, <2>5
<1>a. s = IF lim = Nil \/ lim >= Len(b) THEN b ELSE SubSeq(b, 1, lim)
  BY DEF Limited
<1> HIDE DEF b, n, s
<1>4. CASE lim >= Len(b)
  <2>1. s = b
    BY <1>a, <1>4
  <2>2. DOMAIN b = 1..len
    BY <1>3
  <2> QED
    BY <1>0, <1>2, <1>3, <1>4, <2>1, <2>2 DEF s, n, IsSlice
<1>5. CASE ~(lim >= Len(b))
  <2>1. s = SubSeq(b, 1, lim)
    BY <1>0, <1>a, <1>5
  <2>2. lim \in 0..Len(b)
    BY <1>2, <1>3, <1>5
  <2>3. s = [i \in 1..(1 + lim - 1) |-> b[i + 1 - 1]]
    BY <1>3, <2>1, SubSeqIs
  <2>4. 1 + lim - 1 = lim /\ \A i \in Int : i + 1 - 1 = i
    OBVIOUS
  <2>5. s = [i \in 1..lim |-> b[i]]
    BY <2>3, <2>4
  <2>6. \A i \in 1..lim : b[i] \in S /\ i \in 1..len
    BY <1>2, <1>3, <2>2
  <2>7. s \in [1..lim -> S]
    BY <2>5, <2>6
  <2>8. Len(s) = lim /\ DOMAIN s = 1..lim
    BY <2>7, FunctionIsSeq
  <2>9. lim < n - off
    BY <1>0, <1>2, <1>3, <1>5
  <2>10. \A i \in 1..lim : off + i \in 1..n /\ s[i] = a[off + i]
    BY <1>3, <2>5, <2>6
  <2> QED
    BY <1>0, <2>8, <2>9, <2>10 DEF s, n, IsSlice
<1> QED
  BY <1>4, <1>5

\* The rows an answer holds.
LEMMA SelectedIs ==
    ASSUME NEW d, NEW t, NEW ids, IsFiniteSet(ids), NEW q, NEW off \in Nat,
           q.offset = off \/ (q.offset = Nil /\ off = 0),
           NEW lim \in Nat \ {0}, q.limit = lim, NEW s \in Selected(d, t, ids, q)
    PROVE  \E a \in Arrangements(d, t, ids, q.order) : IsSlice(s, a, Cardinality(ids), off, lim)
<1> DEFINE n == Cardinality(ids)
<1>0. n \in Nat
  BY FS_CardinalityType
<1>1. PICK a \in Arrangements(d, t, ids, q.order) : s = Limited(Skipped(a, q.offset), lim)
  BY DEF Selected
<1>2. a \in [1..n -> ids]
  BY DEF Arrangements
<1> HIDE DEF n
<1>3. a \in Seq(ids) /\ Len(a) = n
  BY <1>0, <1>2, FunctionIsSeq
<1>4. IsSlice(s, a, n, off, lim)
  BY <1>1, <1>3, SliceIs
<1> QED
  BY <1>4 DEF n

\* The comparison for equality with a value that is there.
LEMMA Equal ==
    ASSUME NEW x, x # Nil, NEW v
    PROVE  Compare("EQ", x, v) = (x = v)
BY DEF Compare

\* A query selects finitely many orders.
LEMMA OrdersFinite ==
    ASSUME NEW d, NEW ps
    PROVE  OrdersWhere(d, ps) \subseteq OrderIDs /\ IsFiniteSet(OrdersWhere(d, ps))
<1>1. OrdersWhere(d, ps) \subseteq OrderIDs
  BY PresentIs DEF OrdersWhere
<1> QED
  BY <1>1, FS_Subset, IdentifiersAssumption DEF IdentifiersAssumption

\* A query by identifier selects that order only.
LEMMA HoldsID ==
    ASSUME NEW d, NEW o, NEW id \in OrdersWhere(d, <<[op |-> "EQ", col |-> "id", val |-> o]>>)
    PROVE  id = o /\ id \in Present(d, "orders")
<1> DEFINE p == [op |-> "EQ", col |-> "id", val |-> o]
           ps == <<p>>
<1>1. id \in Present(d, "orders") /\ \A k \in DOMAIN ps : OrderHolds(d, id, ps[k]) = TRUE
  BY DEF OrdersWhere
<1>2. 1 \in DOMAIN ps /\ ps[1] = p
  OBVIOUS
<1>3. OrderHolds(d, id, p) = TRUE
  BY <1>1, <1>2
<1>4. p.op = "EQ" /\ p.col = "id" /\ p.val = o
  OBVIOUS
<1> HIDE DEF p
<1>5. OrderHolds(d, id, p) = Compare("EQ", id, o)
  <2>1. OrderHolds(d, id, p) = OrderAtom(d, id, p)
    BY <1>4 DEF OrderHolds
  <2>2. OrderAtom(d, id, p) = OrderColumnHolds(d, id, p)
    BY <1>4 DEF OrderAtom
  <2> QED
    BY <1>4, <2>1, <2>2 DEF OrderColumnHolds
<1>6. id # Nil
  <2>1. id \in OrderIDs
    BY <1>1, PresentIs
  <2> QED
    BY <2>1, NilAssumption DEF NilAssumption
<1>7. Compare("EQ", id, o) = (id = o)
  BY <1>6, Equal
<1>8. id = o
  BY <1>3, <1>5, <1>7, Zenon
<1> QED
  BY <1>1, <1>8

\* GetOrder finds an order only if it is there, with the status it has.
LEMMA GetFinds ==
    ASSUME NEW d, IsDatabase(d), NEW o, NEW r \in OrderGet(d, o), r.err = "none"
    PROVE  o \in Present(d, "orders") /\ r.nodes[1].row.status = d.orders[o].status
<1> DEFINE q == [NewQuery EXCEPT !.where = <<[op |-> "EQ", col |-> "id", val |-> o]>>, !.limit = 2]
           ids == OrdersWhere(d, q.where)
<1>1. q.where = <<[op |-> "EQ", col |-> "id", val |-> o]>> /\ q.limit = 2 /\ q.offset = Nil /\ q.fields = {}
  BY DEF NewQuery
<1>2. OrderGet(d, o) = {CASE Len(x.nodes) = 0 -> [x EXCEPT !.err = "not_found"]
                          [] Len(x.nodes) = 1 -> x
                          [] OTHER -> [x EXCEPT !.err = "not_singular", !.nodes = <<>>] : x \in OrderAll(d, q)}
  <2>1. [[NewQuery EXCEPT !.where = <<[op |-> "EQ", col |-> "id", val |-> o]>>] EXCEPT !.limit = 2] = q
    BY DEF NewQuery
  <2> HIDE DEF q
  <2> QED
    BY <2>1 DEF OrderGet, OrderOnly
<1> HIDE DEF q
<1>3. PICK x \in OrderAll(d, q) : r = CASE Len(x.nodes) = 0 -> [x EXCEPT !.err = "not_found"]
                          [] Len(x.nodes) = 1 -> x
                          [] OTHER -> [x EXCEPT !.err = "not_singular", !.nodes = <<>>]
  BY <1>2
<1> DEFINE Node(s, after) == [k \in DOMAIN s |->
             [id |-> s[k], row |-> OrderScan(d.orders[s[k]], q.fields),
              edge |-> IF q.eager = Nil THEN Nil
                       ELSE ItemsOf(d, {s[k]} \cap after.eager)]]
<1>4. PICK s \in OrderQuerySpec(d, q) : \E after : x = Found(after, Node(s, after))
  BY DEF OrderAll
<1>5. PICK after : x = Found(after, Node(s, after))
  BY <1>4
<1> DEFINE nodes == Node(s, after)
<1>6. DOMAIN x = {"q", "err", "nodes", "count"} /\ x.nodes = nodes
  BY <1>5 DEF Found
<1>7. IsFiniteSet(ids) /\ s \in Selected(d, "orders", ids, q)
  BY OrdersFinite DEF OrderQuerySpec
<1>8. PICK a \in Arrangements(d, "orders", ids, q.order) : IsSlice(s, a, Cardinality(ids), 0, 2)
  <2> HIDE DEF ids
  <2> QED
    BY <1>1, <1>7, SelectedIs
<1>9. DOMAIN nodes = 1..Len(s) /\ Len(s) \in Nat /\ nodes = [k \in 1..Len(s) |-> nodes[k]]
  <2>1. Cardinality(ids) \in Nat
    BY <1>7, FS_CardinalityType
  <2> QED
    BY <1>8, <2>1 DEF IsSlice
<1>10. Len(nodes) = Len(s)
  <2>1. nodes \in [1..Len(s) -> {nodes[k] : k \in 1..Len(s)}]
    BY <1>9
  <2> HIDE DEF nodes
  <2> QED
    BY <1>9, <2>1, FunctionIsSeq
<1> HIDE DEF nodes
<1>11. Len(s) = 1 /\ r = x
  <2>1. "err" \in DOMAIN x
    BY <1>6
  <2>2. [x EXCEPT !.err = "not_found"].err = "not_found"
    BY <2>1
  <2>3. [x EXCEPT !.err = "not_singular", !.nodes = <<>>].err = "not_singular"
    BY <1>6
  <2> QED
    BY <1>3, <1>6, <1>9, <1>10, <2>2, <2>3
<1>12. s[1] \in ids
  <2>1. a \in [1..Cardinality(ids) -> ids]
    BY DEF Arrangements
  <2>2. 0 + 1 \in 1..Cardinality(ids) /\ s[1] = a[0 + 1]
    <3> HIDE DEF ids
    <3>1. 1 \in 1..Len(s)
      BY <1>11
    <3> QED
      BY <1>8, <3>1 DEF IsSlice
  <2> QED
    BY <2>1, <2>2
<1>13. s[1] = o /\ o \in Present(d, "orders")
  BY <1>1, <1>12, HoldsID
<1>14. nodes[1].row = OrderScan(d.orders[o], {})
  BY <1>1, <1>9, <1>11, <1>13 DEF nodes
<1>15. OrderScan(d.orders[o], {}).status = d.orders[o].status
  <2>1. d.orders[o] \in OrderRows
    BY <1>13, PresentIs DEF IsDatabase
  <2>2. d.orders[o].status \in StatusValues
    BY <2>1 DEF OrderRows
  <2>3. d.orders[o].status # Nil
    BY <2>2, NilAssumption DEF NilAssumption
  <2> QED
    BY <2>3 DEF OrderScan, OrderColumns
<1> QED
  BY <1>6, <1>11, <1>13, <1>14, <1>15

----------------------------------------------------------------------------
\* Two fields are read back in their order.
LEMMA ReadTwo ==
    ASSUME NEW f, NEW g, f # g, NEW x, NEW y
    PROVE  Read(<<f, g>>, <<x, y>>)[f] = x /\ Read(<<f, g>>, <<x, y>>)[g] = y
<1> DEFINE fields == <<f, g>>
<1>1. /\ Len(<<x, y>>) = 2 /\ Len(fields) = 2 /\ DOMAIN fields = {1, 2} /\ fields[1] = f /\ fields[2] = g
      /\ <<x, y>>[1] = x /\ <<x, y>>[2] = y
  OBVIOUS
<1> HIDE DEF fields
<1>2. {fields[k] : k \in DOMAIN fields} = {f, g}
  BY <1>1
<1>3. (CHOOSE k \in DOMAIN fields : fields[k] = f) = 1 /\ (CHOOSE k \in DOMAIN fields : fields[k] = g) = 2
  BY <1>1
<1>4. Read(fields, <<x, y>>) = [h \in {f, g} |-> <<x, y>>[CHOOSE k \in DOMAIN fields : fields[k] = h]]
  BY <1>1, <1>2 DEF Read
<1> QED
  BY <1>1, <1>3, <1>4 DEF fields

\* One field is read back.
LEMMA ReadOne ==
    ASSUME NEW f, NEW x
    PROVE  Read(<<f>>, <<x>>)[f] = x
<1> DEFINE fields == <<f>>
<1>1. Len(<<x>>) = 1 /\ Len(fields) = 1 /\ DOMAIN fields = {1} /\ fields[1] = f /\ <<x>>[1] = x
  OBVIOUS
<1> HIDE DEF fields
<1>2. {fields[k] : k \in DOMAIN fields} = {f}
  BY <1>1
<1>3. (CHOOSE k \in DOMAIN fields : fields[k] = f) = 1
  BY <1>1
<1>4. Read(fields, <<x>>) = [h \in {f} |-> <<x>>[CHOOSE k \in DOMAIN fields : fields[k] = h]]
  BY <1>1, <1>2 DEF Read
<1> QED
  BY <1>1, <1>3, <1>4 DEF fields

\* What the two handlers ask of UpdateStatus is a move of the lifecycle.
LEMMA HandleIs ==
    ASSUME NEW o, NEW ok, NEW msg \in Messages
    PROVE  IsAsk(HandleStockEvent(o, ok, msg), o) /\ IsAsk(HandlePaymentEvent(o, ok, msg), o)
BY DEF HandleStockEvent, HandlePaymentEvent, Moves, IsAsk

\* What an event asks for: one of the moves of the status, of its own order.
LEMMA AskIs ==
    ASSUME NEW t \in OrderTopics, NEW o
    PROVE  IsAsk(Asked(t, Encoded(t, o)), o)
<1>1. CASE t = "stock.reduction.fail"
  <2>1. Encoded(t, o) = <<o, "no stock">>
    BY <1>1 DEF Encoded, writeStockReductionFailedEvent
  <2>2. /\ DeserializeStockReductionFailedEvent(<<o, "no stock">>)["order_id"] = o
        /\ DeserializeStockReductionFailedEvent(<<o, "no stock">>)["message"] = "no stock"
    <3> DEFINE msg == "no stock"
    <3>1. "order_id" # "message"
      OBVIOUS
    <3> HIDE DEF msg
    <3>2. /\ DeserializeStockReductionFailedEvent(<<o, msg>>)["order_id"] = o
          /\ DeserializeStockReductionFailedEvent(<<o, msg>>)["message"] = msg
      BY <3>1, ReadTwo DEF DeserializeStockReductionFailedEvent
    <3> QED
      BY <3>2 DEF msg
  <2>3. Asked(t, <<o, "no stock">>) = HandleStockEvent(o, FALSE, "no stock")
    BY <1>1, <2>2 DEF Asked
  <2>4. "no stock" \in Messages
    BY DEF Messages
  <2>5. \E ok : \E msg \in Messages : Asked(t, Encoded(t, o)) = HandleStockEvent(o, ok, msg)
    BY <2>1, <2>3, <2>4, Zenon
  <2> QED
    BY <2>5, HandleIs
<1>2. CASE t = "stock.reduction.success"
  <2>1. Encoded(t, o) = <<o, 1>>
    BY <1>2 DEF Encoded, writeStockReductionSuccessEvent
  <2>2. DeserializeStockReductionSuccessEvent(<<o, 1>>)["order_id"] = o
    BY ReadTwo DEF DeserializeStockReductionSuccessEvent
  <2>3. Asked(t, <<o, 1>>) = HandleStockEvent(o, TRUE, "")
    BY <1>2, <2>2 DEF Asked
  <2>4. "" \in Messages
    BY DEF Messages
  <2>5. \E ok : \E msg \in Messages : Asked(t, Encoded(t, o)) = HandleStockEvent(o, ok, msg)
    BY <2>1, <2>3, <2>4, Zenon
  <2> QED
    BY <2>5, HandleIs
<1>3. CASE t = "payment.fail"
  <2>1. Encoded(t, o) = <<o, "no money">>
    BY <1>3 DEF Encoded, writePaymentFailedEvent
  <2>2. /\ DeserializePaymentFailedEvent(<<o, "no money">>)["order_id"] = o
        /\ DeserializePaymentFailedEvent(<<o, "no money">>)["fail_reason"] = "no money"
    <3> DEFINE msg == "no money"
    <3>1. "order_id" # "fail_reason"
      OBVIOUS
    <3> HIDE DEF msg
    <3>2. /\ DeserializePaymentFailedEvent(<<o, msg>>)["order_id"] = o
          /\ DeserializePaymentFailedEvent(<<o, msg>>)["fail_reason"] = msg
      BY <3>1, ReadTwo DEF DeserializePaymentFailedEvent
    <3> QED
      BY <3>2 DEF msg
  <2>3. Asked(t, <<o, "no money">>) = HandlePaymentEvent(o, FALSE, "no money")
    BY <1>3, <2>2 DEF Asked
  <2>4. "no money" \in Messages
    BY DEF Messages
  <2>5. \E ok : \E msg \in Messages : Asked(t, Encoded(t, o)) = HandlePaymentEvent(o, ok, msg)
    BY <2>1, <2>3, <2>4, Zenon
  <2> QED
    BY <2>5, HandleIs
<1>4. CASE t = "payment.success"
  <2>1. Encoded(t, o) = <<o>>
    BY <1>4 DEF Encoded, writePaymentSuccessEvent
  <2>2. DeserializePaymentSuccessEvent(<<o>>)["order_id"] = o
    BY ReadOne DEF DeserializePaymentSuccessEvent
  <2>3. Asked(t, <<o>>) = HandlePaymentEvent(o, TRUE, "")
    BY <1>4, <2>2 DEF Asked
  <2>4. "" \in Messages
    BY DEF Messages
  <2>5. \E ok : \E msg \in Messages : Asked(t, Encoded(t, o)) = HandlePaymentEvent(o, ok, msg)
    BY <2>1, <2>3, <2>4, Zenon
  <2> QED
    BY <2>5, HandleIs
<1> QED
  BY <1>1, <1>2, <1>3, <1>4 DEF OrderTopics

\* The wire status of an order names the status it has.
LEMMA StatusRoundTrip ==
    ASSUME NEW s \in StatusValues
    PROVE  fromProtoOrderStatus(toProtoOrderStatus(s)) = s
<1>1. s \in DOMAIN ProtoStatus
  BY DEF StatusValues, ProtoStatus
<1>2. toProtoOrderStatus(s) = ProtoStatus[s]
  BY <1>1 DEF toProtoOrderStatus
<1>3. \A u, v \in DOMAIN ProtoStatus : ProtoStatus[u] = ProtoStatus[v] => u = v
  BY DEF ProtoStatus
<1> QED
  BY <1>1, <1>2, <1>3 DEF fromProtoOrderStatus

----------------------------------------------------------------------------
(***************************************************************************)
(* Pages.                                                                  *)
(***************************************************************************)
\* The conditions of a list without a condition on the status.
LEMMA ListConditions ==
    ASSUME NEW f, f.status = "CREATED", NEW k \in DOMAIN buildListQuery(f)
    PROVE  buildListQuery(f)[k] \in {[op |-> "EQ", col |-> "customer_id", val |-> f.customer],
                                     [op |-> "GT", col |-> "created_at", val |-> f.after]}
<1> DEFINE p == [op |-> "EQ", col |-> "customer_id", val |-> f.customer]
           q == [op |-> "GT", col |-> "created_at", val |-> f.after]
           x == IF f.customer # "" THEN <<p>> ELSE <<>>
           y == IF f.after # Nil THEN <<q>> ELSE <<>>
<1>1. buildListQuery(f) = x \o <<>> \o y
  BY DEF buildListQuery
<1> HIDE DEF p, q
<1>2. x \in Seq({p, q}) /\ y \in Seq({p, q}) /\ <<>> \in Seq({p, q})
  <2>1. <<>> \in Seq({p, q})
    BY EmptySeq
  <2>2. <<p>> \in Seq({p, q}) /\ <<q>> \in Seq({p, q})
    OBVIOUS
  <2>3. (x = <<>> \/ x = <<p>>) /\ (y = <<>> \/ y = <<q>>)
    BY Zenon
  <2> HIDE DEF x, y
  <2> QED
    BY <2>1, <2>2, <2>3
<1> HIDE DEF x, y
<1>3. x \o <<>> \o y \in Seq({p, q})
  BY <1>2
<1>4. buildListQuery(f)[k] \in {p, q}
  BY <1>1, <1>3
<1> QED
  BY <1>4 DEF p, q

\* Such a list depends on columns of an order that never change.
LEMMA StaysListed ==
    ASSUME NEW d, NEW e, NEW f, f.status = "CREATED", NEW o \in OrdersWhere(d, buildListQuery(f)),
           o \in Present(e, "orders"), e.orders[o].customer_id = d.orders[o].customer_id,
           e.orders[o].created_at = d.orders[o].created_at
    PROVE  o \in OrdersWhere(e, buildListQuery(f))
<1> DEFINE ps == buildListQuery(f)
<1>1. SUFFICES ASSUME NEW k \in DOMAIN ps PROVE OrderHolds(e, o, ps[k]) = OrderHolds(d, o, ps[k])
  BY DEF OrdersWhere
<1>2. PICK p : p = ps[k]
  OBVIOUS
<1>3. (p.op = "EQ" /\ p.col = "customer_id") \/ (p.op = "GT" /\ p.col = "created_at")
  <2>1. p \in {[op |-> "EQ", col |-> "customer_id", val |-> f.customer],
               [op |-> "GT", col |-> "created_at", val |-> f.after]}
    BY <1>2, ListConditions
  <2> QED
    BY <2>1
<1> HIDE DEF ps
<1>4. OrderHolds(e, o, p) = OrderAtom(e, o, p) /\ OrderHolds(d, o, p) = OrderAtom(d, o, p)
  BY <1>3 DEF OrderHolds
<1>5. OrderAtom(e, o, p) = OrderColumnHolds(e, o, p) /\ OrderAtom(d, o, p) = OrderColumnHolds(d, o, p)
  BY <1>3 DEF OrderAtom
<1>6. e.orders[o][p.col] = d.orders[o][p.col]
  BY <1>3
<1>7. OrderColumnHolds(e, o, p) = OrderColumnHolds(d, o, p)
  BY <1>3, <1>6 DEF OrderColumnHolds
<1> QED
  BY <1>2, <1>4, <1>5, <1>7

\* A page shows each matching order after the newer ones.
LEMMA PagePlace ==
    ASSUME NEW d, NEW ids, IsFiniteSet(ids), NEW a \in Arrangements(d, "orders", ids, "desc"),
           \A x \in ids : d.orders[x].created_at \in Nat,
           \A x, y \in ids : d.orders[x].created_at = d.orders[y].created_at => x = y, NEW x \in ids
    PROVE  \E j \in 1..Cardinality(ids) :
               /\ a[j] = x
               /\ Cardinality(NewerIn(d, ids, x)) = j - 1
<1> DEFINE n == Cardinality(ids)
           T(y) == d.orders[y].created_at
           newer == {y \in ids : T(y) > T(x)}
<1>0. n \in Nat
  BY FS_CardinalityType
<1>1. /\ a \in [1..n -> ids] /\ DOMAIN a = 1..n
      /\ \A i, j \in 1..n : i < j => a[i] # a[j] /\ T(a[i]) >= T(a[j])
  <2>1. /\ a \in [1..n -> ids]
        /\ \A i, j \in DOMAIN a : i < j => a[i] # a[j] /\ d["orders"][a[i]].created_at >= d["orders"][a[j]].created_at
    BY DEF Arrangements
  <2>2. DOMAIN a = 1..n
    BY <2>1
  <2> QED
    BY <2>1, <2>2
<1> HIDE DEF n
<1>2. a \in Injection(1..n, ids)
  <2>1. \A i, j \in 1..n : a[i] = a[j] => i = j
    BY <1>0, <1>1
  <2> QED
    BY <1>1, <2>1 DEF Injection, IsInjective
<1>3. IsFiniteSet(1..n) /\ Cardinality(1..n) = n
  BY <1>0, FS_Interval
<1>4. a \in Surjection(1..n, ids)
  BY <1>2, <1>3, FS_Injection DEF n
<1>5. PICK j \in 1..n : a[j] = x
  BY <1>4 DEF Surjection
<1>6. j - 1 \in Nat /\ 1..(j - 1) \subseteq 1..n /\ IsFiniteSet(1..(j - 1)) /\ Cardinality(1..(j - 1)) = j - 1
  <2>1. j - 1 \in Nat /\ 1..(j - 1) \subseteq 1..n /\ (IF 1 > j - 1 THEN 0 ELSE j - 1 - 1 + 1) = j - 1
    BY <1>0, <1>5
  <2>2. ASSUME NEW m \in Int PROVE IsFiniteSet(1..m) /\ Cardinality(1..m) = IF 1 > m THEN 0 ELSE m - 1 + 1
    BY FS_Interval
  <2>3. IsFiniteSet(1..(j - 1)) /\ Cardinality(1..(j - 1)) = IF 1 > j - 1 THEN 0 ELSE j - 1 - 1 + 1
    BY <2>1, <2>2
  <2> QED
    BY <2>1, <2>3
<1> DEFINE b == [i \in 1..(j - 1) |-> a[i]]
<1>7. \A i \in 1..n : T(a[i]) > T(x) <=> i \in 1..(j - 1)
  <2>1. TAKE i \in 1..n
  <2>2. T(a[i]) \in Nat /\ T(x) \in Nat
    BY <1>1
  <2>3. CASE i < j
    <3>1. a[i] # x /\ T(a[i]) >= T(x)
      BY <1>1, <1>5, <2>3
    <3>2. T(a[i]) # T(x)
      BY <1>1, <3>1
    <3> QED
      BY <1>0, <2>2, <2>3, <3>1, <3>2
  <2>4. CASE i = j
    BY <1>5, <2>2, <2>4
  <2>5. CASE i > j
    <3>1. T(x) >= T(a[i])
      BY <1>1, <1>5, <2>5
    <3> QED
      BY <1>5, <2>2, <2>5, <3>1
  <2> QED
    BY <1>5, <2>3, <2>4, <2>5
<1>8. b \in Bijection(1..(j - 1), newer)
  <2>1. \A i \in 1..(j - 1) : b[i] = a[i] /\ a[i] \in newer
    BY <1>1, <1>6, <1>7
  <2>2. \A y \in newer : \E i \in 1..(j - 1) : b[i] = y
    <3>1. TAKE y \in newer
    <3>2. PICK i \in 1..n : a[i] = y
      BY <1>4 DEF Surjection
    <3>3. i \in 1..(j - 1)
      BY <1>7, <3>2
    <3> QED
      BY <2>1, <3>2, <3>3
  <2>3. \A i, k \in 1..(j - 1) : b[i] = b[k] => i = k
    BY <1>2, <1>6, <2>1 DEF Injection, IsInjective
  <2>4. b \in [1..(j - 1) -> newer]
    BY <2>1
  <2> HIDE DEF b, newer
  <2> QED
    BY <2>2, <2>3, <2>4 DEF Bijection, Injection, Surjection, IsInjective
<1>9. Cardinality(newer) = j - 1
  BY <1>6, <1>8, FS_Bijection DEF ExistsBijection
<1> QED
  BY <1>5, <1>9 DEF n, NewerIn

\* An order that matches, is behind a page's start and is not on the page is
\* behind the page, which is then full.
LEMMA PageTurns ==
    ASSUME NEW d, NEW ids, IsFiniteSet(ids), NEW a \in Arrangements(d, "orders", ids, "desc"),
           \A x \in ids : d.orders[x].created_at \in Nat,
           \A x, y \in ids : d.orders[x].created_at = d.orders[y].created_at => x = y, NEW x \in ids,
           NEW off \in Nat, NEW lim \in Nat \ {0}, NEW s, IsSlice(s, a, Cardinality(ids), off, lim),
           Cardinality(NewerIn(d, ids, x)) >= off,
           \A k \in DOMAIN s : s[k] # x
    PROVE  Len(s) = lim /\ Cardinality(NewerIn(d, ids, x)) >= off + lim
<1> DEFINE n == Cardinality(ids)
           newer == Cardinality(NewerIn(d, ids, x))
<1>1. PICK j \in 1..n : a[j] = x /\ newer = j - 1
  BY PagePlace
<1>2. n \in Nat
  BY FS_CardinalityType
<1> HIDE DEF n
<1>3. Len(s) = IF n - off > lim THEN lim ELSE IF n > off THEN n - off ELSE 0
  BY DEF IsSlice, n
<1>4. \A i \in 1..Len(s) : s[i] = a[off + i] /\ s[i] # x
  BY DEF IsSlice
<1>5. newer >= off
  OBVIOUS
<1> HIDE DEF newer
<1>6. j - 1 >= off
  BY <1>1, <1>5
<1>7. j > off + Len(s)
  <2>1. SUFFICES ASSUME j <= off + Len(s) PROVE FALSE
    BY <1>2, <1>3
  <2>2. j - off \in 1..Len(s)
    BY <1>1, <1>2, <1>3, <1>6, <2>1
  <2>3. off + (j - off) = j
    BY <1>2
  <2> QED
    BY <1>1, <1>4, <2>2, <2>3
<1>8. Len(s) = lim
  BY <1>1, <1>2, <1>3, <1>7
<1>9. newer >= off + lim
  BY <1>1, <1>2, <1>7, <1>8
<1> QED
  BY <1>8, <1>9 DEF newer

\* The page size is positive, whatever the client asks for.
LEMMA SizeIs == Size \in Nat \ {0}
BY BoundsAssumption DEF BoundsAssumption, Size, normalizedPageSize

\* Pages are numbered from one and follow each other.
LEMMA PageIs ==
    ASSUME NEW p \in Nat
    PROVE  /\ normalizedPage(p) \in Nat \ {0} /\ (normalizedPage(p) - 1) * Size \in Nat
           /\ (normalizedPage(p) - 1) * Size + Size = normalizedPage(p) * Size
           /\ normalizedPage(normalizedPage(p) + 1) - 1 = normalizedPage(p)
<1>1. normalizedPage(p) \in Nat \ {0} /\ normalizedPage(normalizedPage(p) + 1) - 1 = normalizedPage(p)
  BY DEF normalizedPage
<1> DEFINE m == normalizedPage(p) - 1
<1>2. m \in Nat /\ normalizedPage(p) = m + 1
  BY <1>1
<1> HIDE DEF m
<1>3. m * Size \in Nat /\ m * Size + Size = (m + 1) * Size
  BY <1>2, SizeIs
<1> QED
  BY <1>1, <1>2, <1>3 DEF m

\* Every order of d is still there in e, of the same customer and time.
Kept(d, e) == \A o \in Present(d, "orders") :
    /\ o \in Present(e, "orders")
    /\ e.orders[o].customer_id = d.orders[o].customer_id /\ e.orders[o].created_at = d.orders[o].created_at

\* What a list without a condition on the status holds, it keeps.
LEMMA ListedKept ==
    ASSUME NEW d, NEW e, Kept(d, e), NEW f, f.status = "CREATED"
    PROVE  /\ Listed(d, f) \subseteq Listed(e, f)
           /\ \A x \in Listed(d, f) : Newer(d, f, x) \subseteq Newer(e, f, x)
<1>1. \A o \in Listed(d, f) : /\ o \in Listed(e, f) /\ e.orders[o].created_at = d.orders[o].created_at
  <2>1. TAKE o \in Listed(d, f)
  <2>2. o \in OrdersWhere(d, buildListQuery(f)) /\ o \in Present(d, "orders")
    BY DEF Listed, OrdersWhere
  <2>3. /\ o \in Present(e, "orders") /\ e.orders[o].customer_id = d.orders[o].customer_id
        /\ e.orders[o].created_at = d.orders[o].created_at
    BY <2>2 DEF Kept
  <2>4. o \in OrdersWhere(e, buildListQuery(f))
    BY <2>2, <2>3, StaysListed
  <2> QED
    BY <2>3, <2>4 DEF Listed
<1> QED
  BY <1>1 DEF Newer, NewerIn

\* The newer orders can be counted.
LEMMA NewerFinite ==
    ASSUME NEW d, NEW f, NEW x
    PROVE  IsFiniteSet(Newer(d, f, x)) /\ Cardinality(Newer(d, f, x)) \in Nat
<1>1. Newer(d, f, x) \in SUBSET Listed(d, f) /\ IsFiniteSet(Listed(d, f))
  BY OrdersFinite DEF Newer, NewerIn, Listed
<1>2. IsFiniteSet(Newer(d, f, x))
  BY <1>1, FS_Subset
<1> QED
  BY <1>2, FS_CardinalityType

\* More orders never bring a page forward.
LEMMA PagesKept ==
    ASSUME NEW d, NEW e, Kept(d, e), NEW rd, PagesIn(d, rd)
    PROVE  PagesIn(e, rd)
<1>1. CASE rd.must = {}
  BY <1>1 DEF PagesIn
<1>2. CASE rd.must # {} /\ rd.pc \in {"page", "load", "more"}
  <2>1. rd.filter.status = "CREATED" /\ rd.must \subseteq Listed(d, rd.filter)
    BY <1>2 DEF PagesIn
  <2>2. rd.must \subseteq Listed(e, rd.filter)
    BY <2>1, ListedKept
  <2>3. ASSUME NEW x \in rd.must, NEW m \in Nat, Cardinality(Newer(d, rd.filter, x)) >= m
        PROVE  Cardinality(Newer(e, rd.filter, x)) >= m
    <3>1. Newer(d, rd.filter, x) \in SUBSET Newer(e, rd.filter, x)
      BY <2>1, ListedKept
    <3>2. /\ IsFiniteSet(Newer(e, rd.filter, x)) /\ Cardinality(Newer(e, rd.filter, x)) \in Nat
          /\ Cardinality(Newer(d, rd.filter, x)) \in Nat
      BY NewerFinite
    <3>3. Cardinality(Newer(d, rd.filter, x)) <= Cardinality(Newer(e, rd.filter, x))
      BY <3>1, <3>2, FS_Subset
    <3> QED
      BY <2>3, <3>2, <3>3
  <2>4. rd.page \in Nat /\ (normalizedPage(rd.page) - 1) * Size \in Nat /\ normalizedPage(rd.page) * Size \in Nat
    <3>1. rd.page \in Nat
      BY DEF PagesIn
    <3>2. (normalizedPage(rd.page) - 1) * Size \in Nat
          /\ (normalizedPage(rd.page) - 1) * Size + Size = normalizedPage(rd.page) * Size
      BY <3>1, PageIs
    <3> QED
      BY <3>1, <3>2, SizeIs
  <2>5. rd.pc \in {"page", "more"} => \A x \in rd.must \ rd.seen :
           Cardinality(Newer(e, rd.filter, x)) >= (normalizedPage(rd.page) - 1) * Size
    BY <2>3, <2>4 DEF PagesIn
  <2>6. rd.pc = "load" => \A x \in rd.must \ (rd.seen \cup IDsOf(rd.nodes)) :
                  Cardinality(Newer(e, rd.filter, x)) >= normalizedPage(rd.page) * Size
    BY <2>3, <2>4 DEF PagesIn
  <2> QED
    BY <1>2, <2>1, <2>2, <2>5, <2>6 DEF PagesIn
<1>3. CASE rd.pc \notin {"page", "load", "more"}
  BY <1>3 DEF PagesIn
<1> QED
  BY <1>1, <1>2, <1>3

----------------------------------------------------------------------------
(***************************************************************************)
(* The rows of a call are all there or none of them is.                    *)
(***************************************************************************)
\* The rows of a call are all there or none of them is.
LEMMA AllOrNothing ==
    ASSUME NEW d, NEW c \in Calls, NEW k, CallIn(d, c, k)
    PROVE  (Stored(d, c, k.request) /\ k.mine = NoRows /\ k.pc \in {"get", "created", "failed"}) \/ Absent(d, c)
<1>1. k.pc \in {"get", "created", "failed"} \/ k.pc \in {"new", "refused", "order", "items", "event", "commit"}
  BY DEF CallIn, CallStates
<1>2. k.pc \in {"get", "created", "failed"} => k.mine = NoRows
  BY DEF CallIn, OwnRows
<1>3. CommittedRows(d, c, k.pc, k.request)
  BY DEF CallIn
<1> QED
  BY <1>1, <1>2, <1>3 DEF CommittedRows

\* An order is of one call.
LEMMA OneCall ==
    ASSUME NEW c \in Calls
    PROVE  CallOf(NewOrder[c]) = c
BY NewRowsDiffer DEF CallOf

\* A committed order belongs to a call all of whose rows are committed.
LEMMA CommittedCall ==
    ASSUME DatabaseInv, CallInv, NEW o \in Present(db, "orders")
    PROVE  \E c \in Calls : /\ o = NewOrder[c] /\ CallOf(o) = c /\ Stored(db, c, call[c].request)
                            /\ call[c].mine = NoRows /\ call[c].pc \in {"get", "created", "failed"}
                            /\ Row(db, call[c], c) = db.orders[o]
<1>1. PICK c \in Calls : o = NewOrder[c]
  BY DEF DatabaseInv, RowsOf
<1>2. CallIn(db, c, call[c])
  BY DEF CallInv
<1>3. ~Absent(db, c)
  <2>1. db.orders[o] # Nil
    BY PresentIs
  <2> QED
    BY <1>1, <2>1 DEF Absent
<1>4. Stored(db, c, call[c].request) /\ call[c].mine = NoRows /\ call[c].pc \in {"get", "created", "failed"}
  BY <1>2, <1>3, AllOrNothing
<1>5. NoRows.orders[o] = Nil
  BY <1>1, NoRowsIs, CallIDs
<1>6. Row(db, call[c], c) = db.orders[o]
  BY <1>1, <1>4, <1>5 DEF Row
<1> QED
  BY <1>1, <1>4, <1>6, OneCall

\* The columns of an order.
LEMMA OrderRowIs ==
    ASSUME NEW d, IsDatabase(d), NEW o \in Present(d, "orders")
    PROVE  d.orders[o] \in OrderRows /\ d.orders[o].created_at \in Nat /\ d.orders[o].status \in StatusValues
<1>1. d.orders[o] \in OrderRows
  BY PresentIs DEF IsDatabase
<1> QED
  BY <1>1 DEF OrderRows

\* Two orders in the table were created at different times.
LEMMA TimesDiffer ==
    ASSUME DatabaseInv, CallInv, TimeInv, NEW x \in Present(db, "orders"), NEW y \in Present(db, "orders"),
           db.orders[x].created_at = db.orders[y].created_at
    PROVE  x = y
<1>1. PICK c \in Calls : x = NewOrder[c] /\ Row(db, call[c], c) = db.orders[x]
  BY CommittedCall
<1>2. PICK d \in Calls : y = NewOrder[d] /\ Row(db, call[d], d) = db.orders[y]
  BY CommittedCall
<1>3. db.orders[x] # Nil /\ db.orders[y] # Nil
  BY PresentIs
<1>4. c = d
  BY <1>1, <1>2, <1>3 DEF TimeInv
<1> QED
  BY <1>1, <1>2, <1>4

\* The items of a committed order are the lines asked for.
LEMMA ItemsWhole ==
    ASSUME DatabaseInv, CallInv, NEW o \in Present(db, "orders")
    PROVE  {[variant |-> db.order_items[i].variant_id, quantity |-> db.order_items[i].quantity,
             item |-> i] : i \in ItemsOf(db, {o})} = Asks(CallOf(o))
<1>1. PICK c \in Calls : o = NewOrder[c] /\ CallOf(o) = c /\ Stored(db, c, call[c].request)
  BY CommittedCall
<1> DEFINE lines == call[c].request.items
           ids == NewItems[c]
<1>0. call[c].request \in Requests[c]
  BY DEF CallInv, CallIn
<1>2. \A k \in DOMAIN lines : /\ k \in DOMAIN ids /\ ids[k] \in ItemIDs
                              /\ db.order_items[ids[k]] # Nil /\ db.order_items[ids[k]].order_items = o
                              /\ db.order_items[ids[k]].variant_id = lines[k].variant
                              /\ db.order_items[ids[k]].quantity = lines[k].quantity
  BY <1>0, <1>1, LinesHaveIDs DEF Stored, ItemsStored
<1>3. \A k \in DOMAIN lines : ids[k] \in ItemsOf(db, {o})
  BY <1>2, PresentIs DEF ItemsOf
<1>4. \A i \in ItemsOf(db, {o}) : \E k \in DOMAIN lines : i = ids[k]
  <2>1. TAKE i \in ItemsOf(db, {o})
  <2>2. i \in Present(db, "order_items") /\ db.order_items[i].order_items = o /\ db.order_items[i] # Nil
    BY PresentIs DEF ItemsOf
  <2>3. PICK d \in Calls : \E k \in DOMAIN NewItems[d] : i = NewItems[d][k]
    BY <2>2 DEF DatabaseInv, RowsOf
  <2>4. PICK k \in DOMAIN NewItems[d] : i = NewItems[d][k]
    BY <2>3
  <2>5. ~Absent(db, d)
    BY <2>2, <2>4 DEF Absent
  <2>6. CallIn(db, d, call[d])
    BY DEF CallInv
  <2>7. ItemsStored(db, d, call[d].request)
    BY <2>5, <2>6, AllOrNothing DEF Stored
  <2>8. k \in DOMAIN call[d].request.items /\ db.order_items[i].order_items = NewOrder[d]
    BY <2>2, <2>4, <2>7 DEF ItemsStored
  <2>9. d = c
    BY <1>1, <2>2, <2>8, NewRowsDiffer
  <2> QED
    BY <2>4, <2>8, <2>9
<1> DEFINE shown == {[variant |-> db.order_items[i].variant_id, quantity |-> db.order_items[i].quantity,
             item |-> i] : i \in ItemsOf(db, {o})}
           asked == {[variant |-> lines[k].variant, quantity |-> lines[k].quantity,
                      item |-> ids[k]] : k \in DOMAIN lines}
<1>a. \A k \in DOMAIN lines :
         [variant |-> db.order_items[ids[k]].variant_id, quantity |-> db.order_items[ids[k]].quantity, item |-> ids[k]]
         = [variant |-> lines[k].variant, quantity |-> lines[k].quantity, item |-> ids[k]]
  BY <1>2
<1>5. shown \subseteq asked
  <2>1. ASSUME NEW i \in ItemsOf(db, {o})
        PROVE  [variant |-> db.order_items[i].variant_id, quantity |-> db.order_items[i].quantity, item |-> i] \in asked
    <3>1. PICK k \in DOMAIN lines : i = ids[k]
      BY <1>4
    <3>2. [variant |-> lines[k].variant, quantity |-> lines[k].quantity, item |-> ids[k]] \in asked
      OBVIOUS
    <3> QED
      BY <1>a, <3>1, <3>2, Zenon
  <2> QED
    BY <2>1
<1>6. asked \subseteq shown
  <2>1. ASSUME NEW k \in DOMAIN lines
        PROVE  [variant |-> lines[k].variant, quantity |-> lines[k].quantity, item |-> ids[k]] \in shown
    <3>1. [variant |-> db.order_items[ids[k]].variant_id, quantity |-> db.order_items[ids[k]].quantity,
           item |-> ids[k]] \in shown
      BY <1>3
    <3> QED
      BY <1>a, <3>1, Zenon
  <2> QED
    BY <2>1
<1>7. Asks(CallOf(o)) = asked
  BY <1>1 DEF Asks
<1> QED
  BY <1>5, <1>6, <1>7

\* The event of a committed order is its own, and there is no other.
LEMMA EventWhole ==
    ASSUME DatabaseInv, CallInv, NEW o \in Present(db, "orders")
    PROVE  LET c == CallOf(o)
           IN  /\ {e \in Present(db, "outbox_events") : db.outbox_events[e].aggregate_id = o} = {NewEvent[c]}
               /\ db.outbox_events[NewEvent[c]].payload = Payload(c, call[c].request)
               /\ db.orders[o].total = OrderTotal(call[c].request)
               /\ db.orders[o].customer_id = call[c].request.customer
<1>1. PICK c \in Calls : o = NewOrder[c] /\ CallOf(o) = c /\ Stored(db, c, call[c].request)
  BY CommittedCall
<1>2. /\ db.outbox_events[NewEvent[c]] # Nil /\ db.outbox_events[NewEvent[c]].aggregate_id = o
      /\ db.outbox_events[NewEvent[c]].payload = Payload(c, call[c].request)
      /\ db.orders[o].total = OrderTotal(call[c].request)
      /\ db.orders[o].customer_id = call[c].request.customer
  BY <1>1 DEF Stored, EventStored, OrderStored
<1>3. NewEvent[c] \in Present(db, "outbox_events")
  BY <1>2, PresentIs, CallIDs
<1>4. ASSUME NEW e \in Present(db, "outbox_events"), db.outbox_events[e].aggregate_id = o
      PROVE  e = NewEvent[c]
  <2>1. PICK d \in Calls : e = NewEvent[d]
    BY DEF DatabaseInv, RowsOf
  <2>2. db.outbox_events[e] # Nil
    BY PresentIs
  <2>3. ~Absent(db, d) /\ CallIn(db, d, call[d])
    BY <2>1, <2>2 DEF Absent, CallInv
  <2>4. EventStored(db, d, call[d].request)
    BY <2>3, AllOrNothing DEF Stored
  <2>5. NewOrder[d] = NewOrder[c]
    BY <1>1, <1>4, <2>1, <2>4 DEF EventStored
  <2> QED
    BY <2>1, <2>5, NewRowsDiffer
<1> QED
  BY <1>1, <1>2, <1>3, <1>4

\* The items of an event form an array.
LEMMA EventItemsAreArray ==
    ASSUME NEW c \in Calls, NEW r \in Requests[c]
    PROVE  IsArray(EventItems(r))
<1>1. PICK n \in 0..Len(NewItems[c]) : DOMAIN r.items = 1..n
  BY RequestsAssumption DEF RequestsAssumption
<1>2. Len(NewItems[c]) \in Nat
  BY IdentifiersAssumption DEF IdentifiersAssumption
<1> DEFINE items == EventItems(r)
<1>3. items = [k \in 1..n |-> [variant_id |-> r.items[k].variant, quantity |-> r.items[k].quantity,
                               unit_price |-> r.items[k].price]]
  BY <1>1 DEF EventItems
<1> HIDE DEF items
<1>4. n \in Nat /\ items = [k \in 1..n |-> items[k]] /\ \A k \in 1..n : IsItem(items[k])
  BY <1>2, <1>3 DEF IsItem
<1> QED
  BY <1>4 DEF IsArray, items

\* The bytes of the event of request r give it back.
LEMMA PayloadReadBack ==
    ASSUME NEW c \in Calls, NEW r \in Requests[c]
    PROVE  DeserializeOrderCreatedEvent(Payload(c, r)) = CreatedEvent(c, r, "created")
<1> DEFINE e == CreatedEvent(c, r, "created")
<1>1. e.items = EventItems(r) /\ e = [order_id |-> e.order_id, status |-> e.status,
          temporary_price |-> e.temporary_price, customer_id |-> e.customer_id, items |-> e.items]
  BY DEF CreatedEvent
<1>2. IsEvent(e)
  BY <1>1, EventItemsAreArray DEF IsEvent
<1> HIDE DEF e
<1>3. DeserializeOrderCreatedEvent(writeOrderCreatedEvent(e)) = e
  BY <1>2, EventReadBack
<1> QED
  BY <1>3 DEF e, Payload

\* The invariant says enough: orders are whole.
LEMMA InvOrdersAreWhole == DatabaseInv /\ CallInv => OrdersAreWhole
<1> SUFFICES ASSUME DatabaseInv, CallInv PROVE OrdersAreWhole
  OBVIOUS
<1>1. ASSUME NEW o \in Present(db, "orders"),
             NEW events, events = {e \in Present(db, "outbox_events") : db.outbox_events[e].aggregate_id = o}
      PROVE  /\ Cardinality(events) = 1
             /\ \A e \in events :
                    DeserializeOrderCreatedEvent(db.outbox_events[e].payload) =
                        [order_id |-> o, status |-> "created", items |-> EventItems(call[CallOf(o)].request),
                         temporary_price |-> db.orders[o].total, customer_id |-> db.orders[o].customer_id]
  <2>1. PICK c \in Calls : o = NewOrder[c] /\ CallOf(o) = c
    BY CommittedCall
  <2> DEFINE r == call[c].request
  <2>2. events = {NewEvent[c]}
    BY <1>1, <2>1, EventWhole
  <2>3. /\ db.outbox_events[NewEvent[c]].payload = Payload(c, r)
        /\ db.orders[o].total = OrderTotal(r) /\ db.orders[o].customer_id = r.customer
    BY <2>1, EventWhole
  <2>4. r \in Requests[c]
    BY DEF CallInv, CallIn
  <2> HIDE DEF r
  <2>5. DeserializeOrderCreatedEvent(Payload(c, r)) = CreatedEvent(c, r, "created")
    BY <2>4, PayloadReadBack
  <2>6. CreatedEvent(c, r, "created") = [order_id |-> o, status |-> "created", items |-> EventItems(r),
                         temporary_price |-> db.orders[o].total, customer_id |-> db.orders[o].customer_id]
    BY <2>1, <2>3 DEF CreatedEvent
  <2>7. Cardinality(events) = 1
    BY <2>2, FS_Singleton
  <2> QED
    BY <2>1, <2>2, <2>3, <2>5, <2>6, <2>7 DEF r
<1>2. ASSUME NEW c \in Calls, call[c].pc = "created"
      PROVE  NewOrder[c] \in Present(db, "orders")
  <2>1. Stored(db, c, call[c].request)
    BY <1>2 DEF CallInv, CallIn, CommittedRows
  <2> QED
    BY <2>1, CallIDs, PresentIs DEF Stored, OrderStored
<1> QED
  BY <1>1, <1>2, ItemsWhole DEF OrdersAreWhole

----------------------------------------------------------------------------
(***************************************************************************)
(* The steps of the reader.                                                *)
(***************************************************************************)
\* The empty sequence has no position.
LEMMA EmptyDomain == DOMAIN <<>> = {}
BY EmptySeq, LenProperties

\* A reader that has not begun.
LEMMA IdleIs ==
    /\ Idle = [pc |-> Idle.pc, page |-> Idle.page, filter |-> Idle.filter, must |-> Idle.must, seen |-> Idle.seen,
               total |-> Idle.total, nodes |-> Idle.nodes, shown |-> Idle.shown]
    /\ Idle.pc = "idle" /\ Idle.page = 0 /\ Idle.must = {} /\ Idle.seen = {}
    /\ DOMAIN Idle.nodes = {} /\ DOMAIN Idle.shown = {}
BY EmptyDomain DEF Idle

\* What a reader holds stays right while orders are added and statuses move.
LEMMA ReaderKept ==
    ASSUME ReaderInv, reader' = reader, Kept(db, db'),
           \A o \in Present(db, "orders") : Asks(CallOf(o))' = Asks(CallOf(o))
    PROVE  ReaderInv'
<1>1. \A o \in Present(db, "orders") : o \in Present(db', "orders")
  BY DEF Kept
<1>2. \A k \in DOMAIN reader.shown :
          LET v == reader.shown[k]
          IN  v.id \in Present(db', "orders") /\ v.items = Asks(CallOf(v.id))'
  BY <1>1 DEF ReaderInv
<1> QED
  BY <1>1, <1>2 DEF ReaderInv

\* A reader that starts again.
LEMMA ReaderIdle ==
    ASSUME reader' = Idle
    PROVE  ReaderInv' /\ PagingInv'
<1>1. ReaderInv'
  BY IdleIs DEF ReaderInv
<1>2. PagingInv'
  BY IdleIs DEF PagingInv, PagesIn
<1> QED
  BY <1>1, <1>2

\* ListOrders: the client asks for a page.
LEMMA ListStep ==
    ASSUME DatabaseInv, ReaderInv, PagingInv, NEW f, ListOrders(f)
    PROVE  ReaderInv' /\ PagingInv'
<1>0. db' = db /\ call' = call /\ (reader.pc = "idle" \/ (reader.pc = "more" /\ reader.filter = f))
  BY DEF ListOrders
<1> DEFINE first == [Idle EXCEPT !.filter = f, !.must = IF f.status = "CREATED" THEN Listed(db, f) ELSE {}]
           from == IF reader.pc = "more" THEN reader ELSE first
<1>1. PICK n : reader' = [from EXCEPT !.pc = "page", !.total = n]
  BY DEF ListOrders, Listed
<1>2. \A o : Asks(CallOf(o))' = Asks(CallOf(o))
  BY <1>0 DEF Asks
<1>3. CASE reader.pc = "more"
  <2>1. reader' = [reader EXCEPT !.pc = "page", !.total = n]
    BY <1>1, <1>3
  <2>2. /\ reader'.pc = "page" /\ reader'.page = reader.page /\ reader'.filter = reader.filter
        /\ reader'.must = reader.must /\ reader'.seen = reader.seen /\ reader'.nodes = reader.nodes
        /\ reader'.shown = reader.shown
        /\ reader' = [pc |-> reader'.pc, page |-> reader'.page, filter |-> reader'.filter, must |-> reader'.must,
                 seen |-> reader'.seen, total |-> reader'.total, nodes |-> reader'.nodes, shown |-> reader'.shown]
    BY <2>1 DEF ReaderInv
  <2>3. ReaderInv'
    BY <1>0, <1>2, <2>2 DEF ReaderInv
  <2>4. PagingInv'
    BY <1>0, <1>3, <2>2 DEF PagingInv, PagesIn
  <2> QED
    BY <2>3, <2>4
<1>4. CASE reader.pc # "more"
  <2>1. reader' = [first EXCEPT !.pc = "page", !.total = n]
    BY <1>1, <1>4
  <2>2. /\ reader'.pc = "page" /\ reader'.page = 0 /\ reader'.filter = f
        /\ reader'.must = IF f.status = "CREATED" THEN Listed(db, f) ELSE {}
        /\ reader'.nodes = Idle.nodes /\ reader'.shown = Idle.shown
        /\ reader' = [pc |-> reader'.pc, page |-> reader'.page, filter |-> reader'.filter, must |-> reader'.must,
                 seen |-> reader'.seen, total |-> reader'.total, nodes |-> reader'.nodes, shown |-> reader'.shown]
    BY <2>1, IdleIs
  <2>3. ReaderInv'
    BY <2>2, IdleIs DEF ReaderInv
  <2>4. \A x : Cardinality(Newer(db, f, x)) >= (normalizedPage(0) - 1) * Size
    <3>1. (normalizedPage(0) - 1) * Size = 0
      BY SizeIs DEF normalizedPage
    <3>2. \A x : Cardinality(Newer(db, f, x)) \in Nat
      BY NewerFinite
    <3> QED
      BY <3>1, <3>2
  <2>5. PagingInv'
    BY <1>0, <2>2, <2>4 DEF PagingInv, PagesIn
  <2> QED
    BY <2>3, <2>5
<1> QED
  BY <1>3, <1>4

\* The rows of a page are of orders in the table.
LEMMA NodesAre ==
    ASSUME IsDatabase(db), NEW s, \A k \in DOMAIN s : s[k] \in Present(db, "orders")
    PROVE  /\ DOMAIN Nodes(s) = DOMAIN s
           /\ \A k \in DOMAIN s : Nodes(s)[k].id = s[k] /\ Nodes(s)[k].row.status \in StatusValues
<1>1. DOMAIN Nodes(s) = DOMAIN s
  BY DEF Nodes
<1>2. ASSUME NEW k \in DOMAIN s PROVE Nodes(s)[k].id = s[k] /\ Nodes(s)[k].row.status \in StatusValues
  <2>1. Nodes(s)[k].id = s[k] /\ Nodes(s)[k].row = OrderScan(db.orders[s[k]], {})
    BY DEF Nodes
  <2>2. db.orders[s[k]].status \in StatusValues
    BY OrderRowIs
  <2>3. db.orders[s[k]].status # Nil
    BY <2>2, NilAssumption DEF NilAssumption
  <2>4. OrderScan(db.orders[s[k]], {}).status = db.orders[s[k]].status
    BY <2>3 DEF OrderScan, OrderColumns
  <2> QED
    BY <2>1, <2>2, <2>4
<1> QED
  BY <1>1, <1>2

\* ReadPage: of the orders not yet seen, each one that is newer than the page
\* allows is on it.
LEMMA PageStep ==
    ASSUME DatabaseInv, CallInv, TimeInv, ReaderInv, PagingInv, ReadPage
    PROVE  ReaderInv' /\ PagingInv'
<1> DEFINE where == buildListQuery(reader.filter)
           off == (normalizedPage(reader.page) - 1) * Size
           q == PageQuery(where, reader.page)
           ids == Listed(db, reader.filter)
<1>0. db' = db /\ call' = call /\ reader.pc = "page"
  BY DEF ReadPage
<1>1. PICK s \in OrderQuerySpec(db, q) : reader' = [reader EXCEPT !.pc = "load", !.nodes = Nodes(s)]
  BY DEF ReadPage
<1>2. q.where = where /\ q.order = "desc" /\ q.offset = off /\ q.limit = Size
  BY DEF PageQuery, NewQuery, Size
<1>3. OrderQuerySpec(db, q) = Selected(db, "orders", ids, q)
  BY <1>2 DEF OrderQuerySpec, Listed
<1>a. reader.page \in Nat
  BY DEF PagingInv, PagesIn
<1>4. off \in Nat /\ off + Size = normalizedPage(reader.page) * Size /\ Size \in Nat \ {0}
  BY <1>a, PageIs, SizeIs
<1>5. IsFiniteSet(ids) /\ \A x \in ids : x \in Present(db, "orders")
  BY OrdersFinite DEF Listed, OrdersWhere
<1>6. \A x \in ids : db.orders[x].created_at \in Nat
  BY <1>5, OrderRowIs DEF DatabaseInv
<1>7. \A x, y \in ids : db.orders[x].created_at = db.orders[y].created_at => x = y
  BY <1>5, TimesDiffer
<1> HIDE DEF ids, q, off, where
<1>8. PICK a \in Arrangements(db, "orders", ids, "desc") : IsSlice(s, a, Cardinality(ids), off, Size)
  BY <1>1, <1>2, <1>3, <1>4, <1>5, SelectedIs
<1>9. \A k \in DOMAIN s : s[k] \in Present(db, "orders")
  <2>1. a \in [1..Cardinality(ids) -> ids]
    BY DEF Arrangements
  <2>2. \A k \in DOMAIN s : off + k \in 1..Cardinality(ids) /\ s[k] = a[off + k]
    BY <1>8 DEF IsSlice
  <2> QED
    BY <1>5, <2>1, <2>2
<1>10. /\ DOMAIN Nodes(s) = DOMAIN s
       /\ \A k \in DOMAIN s : Nodes(s)[k].id = s[k] /\ Nodes(s)[k].row.status \in StatusValues
  BY <1>9, NodesAre DEF DatabaseInv
<1>11. Len(Nodes(s)) = Len(s) /\ IDsOf(Nodes(s)) = {s[k] : k \in DOMAIN s}
  <2>1. Cardinality(ids) \in Nat
    BY <1>5, FS_CardinalityType
  <2>2. Len(s) \in Nat /\ DOMAIN s = 1..Len(s)
    BY <1>4, <1>8, <2>1 DEF IsSlice
  <2>3. Nodes(s) \in [1..Len(s) -> {Nodes(s)[k] : k \in 1..Len(s)}]
    BY <1>10, <2>2 DEF Nodes
  <2>4. Len(Nodes(s)) = Len(s)
    BY <2>2, <2>3, FunctionIsSeq
  <2>5. IDsOf(Nodes(s)) = {s[k] : k \in DOMAIN s}
    BY <1>10 DEF IDsOf
  <2> QED
    BY <2>4, <2>5
<1>12. /\ reader'.pc = "load" /\ reader'.page = reader.page /\ reader'.filter = reader.filter
       /\ reader'.must = reader.must /\ reader'.seen = reader.seen /\ reader'.nodes = Nodes(s)
       /\ reader'.shown = reader.shown
       /\ reader' = [pc |-> reader'.pc, page |-> reader'.page, filter |-> reader'.filter, must |-> reader'.must,
                 seen |-> reader'.seen, total |-> reader'.total, nodes |-> reader'.nodes, shown |-> reader'.shown]
  BY <1>1 DEF ReaderInv
<1>13. \A o : Asks(CallOf(o))' = Asks(CallOf(o))
  BY <1>0 DEF Asks
<1>14. ReaderInv'
  BY <1>0, <1>9, <1>10, <1>12, <1>13 DEF ReaderInv
<1>15. reader.must = {} \/ (reader.filter.status = "CREATED" /\ reader.must \subseteq ids)
  BY <1>0 DEF PagingInv, PagesIn, ids
<1>16. ASSUME NEW x \in reader.must \ (reader.seen \cup IDsOf(Nodes(s)))
       PROVE  Len(s) = Size /\ Cardinality(Newer(db, reader.filter, x)) >= off + Size
  <2>1. x \in ids
    BY <1>15
  <2>2. Cardinality(Newer(db, reader.filter, x)) >= off
    BY <1>0 DEF PagingInv, PagesIn, off
  <2>3. Newer(db, reader.filter, x) = NewerIn(db, ids, x)
    BY DEF Newer, ids
  <2>4. \A k \in DOMAIN s : s[k] # x
    BY <1>11
  <2>5. Cardinality(NewerIn(db, ids, x)) >= off
    BY <2>2, <2>3
  <2>6. Len(s) = Size /\ Cardinality(NewerIn(db, ids, x)) >= off + Size
    BY <1>4, <1>5, <1>6, <1>7, <1>8, <2>1, <2>4, <2>5, PageTurns
  <2> QED
    BY <2>3, <2>6
<1>17. PagingInv'
  BY <1>0, <1>4, <1>11, <1>12, <1>15, <1>16, <1>a DEF PagingInv, PagesIn, ids
<1> QED
  BY <1>14, <1>17

\* GetOrder.
LEMMA GetStep ==
    ASSUME DatabaseInv, NEW o, GetOrder(o)
    PROVE  ReaderInv' /\ PagingInv'
<1>0. db' = db /\ o \in Present(db, "orders") /\ reader' = [Idle EXCEPT !.pc = "loadOne", !.nodes = Nodes(<<o>>)]
  BY DEF GetOrder
<1> DEFINE s == <<o>>
<1>1. DOMAIN s = {1} /\ s[1] = o
  OBVIOUS
<1> HIDE DEF s
<1>2. /\ DOMAIN Nodes(s) = DOMAIN s
      /\ \A k \in DOMAIN s : Nodes(s)[k].id = s[k] /\ Nodes(s)[k].row.status \in StatusValues
  BY <1>0, <1>1, NodesAre DEF DatabaseInv
<1>3. /\ reader'.pc = "loadOne" /\ reader'.page = 0 /\ reader'.nodes = Nodes(s) /\ DOMAIN reader'.shown = {}
      /\ reader' = [pc |-> reader'.pc, page |-> reader'.page, filter |-> reader'.filter, must |-> reader'.must,
                 seen |-> reader'.seen, total |-> reader'.total, nodes |-> reader'.nodes, shown |-> reader'.shown]
  BY <1>0, IdleIs DEF s
<1>4. ReaderInv'
  BY <1>0, <1>1, <1>2, <1>3 DEF ReaderInv
<1>5. PagingInv'
  BY <1>3 DEF PagingInv, PagesIn
<1> QED
  BY <1>4, <1>5

\* AnswerRead: items are loaded after the orders, and are all there.
LEMMA AnswerStep ==
    ASSUME DatabaseInv, CallInv, ReaderInv, PagingInv, AnswerRead
    PROVE  ReaderInv' /\ PagingInv'
<1> DEFINE page == normalizedPage(reader.page)
           more == Len(reader.nodes) = Size \/ page < totalPages(reader.total, Size)
           shown == [k \in DOMAIN reader.nodes |-> ToProtoOrder(reader.nodes[k])]
<1>0. db' = db /\ call' = call /\ reader.pc \in {"load", "loadOne"}
  BY DEF AnswerRead
<1>1. reader' = [reader EXCEPT !.pc = IF @ = "loadOne" THEN "got" ELSE IF more THEN "more" ELSE "listed",
                               !.page = page + 1, !.seen = @ \cup IDsOf(reader.nodes), !.nodes = <<>>,
                               !.total = 0, !.shown = shown]
  BY DEF AnswerRead, Size, IDsOf
<1> HIDE DEF more, shown, page
<1>b. reader'.pc = IF reader.pc = "loadOne" THEN "got" ELSE IF more THEN "more" ELSE "listed"
  BY <1>1 DEF ReaderInv
<1>2. /\ reader'.page = page + 1 /\ reader'.filter = reader.filter
      /\ reader'.must = reader.must /\ reader'.seen = reader.seen \cup IDsOf(reader.nodes)
      /\ reader'.nodes = <<>> /\ reader'.shown = shown
      /\ reader' = [pc |-> reader'.pc, page |-> reader'.page, filter |-> reader'.filter, must |-> reader'.must,
                 seen |-> reader'.seen, total |-> reader'.total, nodes |-> reader'.nodes, shown |-> reader'.shown]
  BY <1>1 DEF ReaderInv
<1>3. \A o : Asks(CallOf(o))' = Asks(CallOf(o))
  BY <1>0 DEF Asks
<1>4. ASSUME NEW k \in DOMAIN shown
      PROVE  /\ shown[k].id \in Present(db, "orders") /\ shown[k].items = Asks(CallOf(shown[k].id))
             /\ fromProtoOrderStatus(shown[k].status) = shown[k].was
  <2> DEFINE node == reader.nodes[k]
  <2>1. k \in DOMAIN reader.nodes /\ shown[k] = ToProtoOrder(node)
    BY DEF shown
  <2>2. node.id \in Present(db, "orders") /\ node.row.status \in StatusValues
    BY <2>1 DEF ReaderInv
  <2> HIDE DEF node
  <2>3. /\ shown[k].id = node.id /\ shown[k].status = toProtoOrderStatus(node.row.status)
        /\ shown[k].was = node.row.status
        /\ shown[k].items = {[variant |-> db.order_items[i].variant_id, quantity |-> db.order_items[i].quantity,
                              item |-> i] : i \in ItemsOf(db, {node.id})}
    BY <2>1 DEF ToProtoOrder
  <2>4. shown[k].items = Asks(CallOf(node.id))
    BY <2>2, <2>3, ItemsWhole
  <2>5. fromProtoOrderStatus(shown[k].status) = node.row.status
    BY <2>2, <2>3, StatusRoundTrip
  <2> QED
    BY <2>2, <2>3, <2>4, <2>5
<1>5. reader'.pc \in {"got", "more", "listed"} /\ (reader.pc = "loadOne" => reader'.pc = "got")
      /\ (reader'.pc = "listed" => Len(reader.nodes) # Size)
  <2>1. CASE reader.pc = "loadOne"
    <3>1. reader'.pc = "got"
      BY <1>b, <2>1, Zenon
    <3> QED
      BY <2>1, <3>1
  <2>2. CASE reader.pc # "loadOne" /\ more
    <3>1. reader'.pc = "more"
      BY <1>b, <2>2, Zenon
    <3> QED
      BY <2>2, <3>1
  <2>3. CASE reader.pc # "loadOne" /\ ~more
    <3>1. reader'.pc = "listed"
      BY <1>b, <2>3, Zenon
    <3>2. Len(reader.nodes) # Size
      BY <2>3 DEF more
    <3> QED
      BY <2>3, <3>1, <3>2
  <2> QED
    BY <2>1, <2>2, <2>3
<1>6. ReaderInv'
  BY <1>0, <1>2, <1>3, <1>4, <1>5, EmptyDomain DEF ReaderInv
<1>a. reader.page \in Nat
  BY DEF PagingInv, PagesIn
<1>7. page + 1 \in Nat /\ normalizedPage(page + 1) - 1 = page
  BY <1>a, PageIs DEF page
<1>8. CASE reader.pc = "loadOne"
  <2>1. reader'.pc = "got" /\ reader'.page \in Nat
    BY <1>2, <1>5, <1>7, <1>8
  <2> QED
    BY <1>6, <2>1 DEF PagingInv, PagesIn
<1>9. CASE reader.pc = "load"
  <2>1. /\ reader.must = {} \/ (reader.filter.status = "CREATED" /\ reader.must \subseteq Listed(db, reader.filter))
        /\ \A x \in reader.must \ (reader.seen \cup IDsOf(reader.nodes)) :
               Cardinality(Newer(db, reader.filter, x)) >= page * Size
        /\ Len(reader.nodes) # Size => reader.must \subseteq reader.seen \cup IDsOf(reader.nodes)
    BY <1>9 DEF PagingInv, PagesIn, page
  <2>2. reader'.page \in Nat /\ reader'.pc \in {"got", "more", "listed"} /\ normalizedPage(reader'.page) - 1 = page
    BY <1>2, <1>5, <1>7
  <2>3. /\ reader'.must = reader.must /\ reader'.filter = reader.filter
        /\ reader'.seen = reader.seen \cup IDsOf(reader.nodes)
    BY <1>2
  <2>4. \A x \in reader'.must \ reader'.seen :
           Cardinality(Newer(db, reader'.filter, x)) >= (normalizedPage(reader'.page) - 1) * Size
    BY <2>1, <2>2, <2>3
  <2>5. reader'.pc = "listed" => reader'.must \subseteq reader'.seen
    BY <1>5, <2>1, <2>3
  <2>6. /\ reader'.must = {}
           \/ (reader'.filter.status = "CREATED" /\ reader'.must \subseteq Listed(db, reader'.filter))
    BY <2>1, <2>3
  <2> QED
    BY <1>6, <1>0, <2>2, <2>4, <2>5, <2>6 DEF PagingInv, PagesIn
<1> QED
  BY <1>0, <1>6, <1>8, <1>9

----------------------------------------------------------------------------
(***************************************************************************)
(* The steps of CreateOrder.                                               *)
(***************************************************************************)
\* A call outside its transaction has no rows of its own.
LEMMA NoRowsOwn ==
    ASSUME NEW c, NEW r, NEW pc, pc \notin {"items", "event", "commit"}
    PROVE  OwnRows(NoRows, c, pc, r)
<1>1. \A t \in Tables : Present(NoRows, t) = {}
  BY NoRowsIs DEF Present
<1>2. RowsOf(NoRows, {c})
  BY <1>1, TheTables DEF RowsOf
<1> QED
  BY <1>2, NoRowsIs DEF OwnRows

\* A call as a record.
LEMMA MineRecord ==
    ASSUME NEW k, k = [pc |-> k.pc, mine |-> k.mine, request |-> k.request], NEW pc, NEW x
    PROVE  [k EXCEPT !.pc = pc, !.mine = x] = [pc |-> pc, mine |-> x, request |-> k.request]
<1>1. DOMAIN k = {"pc", "mine", "request"}
  OBVIOUS
<1>2. ASSUME NEW y, y = [k EXCEPT !.pc = pc, !.mine = x] PROVE y = [pc |-> pc, mine |-> x, request |-> k.request]
  <2>1. /\ DOMAIN y = {"pc", "mine", "request"} /\ y.pc = pc
        /\ y.mine = x /\ y.request = k.request
    BY <1>1, <1>2
  <2>2. y = [pc |-> y.pc, mine |-> y.mine, request |-> y.request]
    BY <1>2, <2>1
  <2> QED
    BY <2>1, <2>2
<1> QED
  BY <1>2

\* Call c is in state pc afterwards, with these rows and this request.
Becomes(c, pc, mine, r) == call' = [call EXCEPT ![c] = [pc |-> pc, mine |-> mine, request |-> r]]

\* A call takes a step.
LEMMA CallMoves ==
    ASSUME CallInv, NEW c \in Calls, NEW pc, NEW mine, Goto(c, pc, mine)
    PROVE  Becomes(c, pc, mine, call[c].request)
<1>1. call[c] = [pc |-> call[c].pc, mine |-> call[c].mine, request |-> call[c].request] /\ c \in DOMAIN call
  BY DEF CallInv
<1>2. call' = [call EXCEPT ![c] = [call[c] EXCEPT !.pc = pc, !.mine = mine]]
  BY <1>1 DEF Goto
<1>3. [call[c] EXCEPT !.pc = pc, !.mine = mine] = [pc |-> pc, mine |-> mine, request |-> call[c].request]
  BY <1>1, MineRecord
<1> QED
  BY <1>2, <1>3 DEF Becomes

\* A call takes its request.
LEMMA CallStarts ==
    ASSUME CallInv, NEW c \in Calls, NEW pc, NEW r, call' = [call EXCEPT ![c].pc = pc, ![c].request = r]
    PROVE  Becomes(c, pc, call[c].mine, r)
<1>1. call[c] = [pc |-> call[c].pc, mine |-> call[c].mine, request |-> call[c].request] /\ c \in DOMAIN call
  BY DEF CallInv
<1>2. call' = [call EXCEPT ![c] = [call[c] EXCEPT !.pc = pc, !.request = r]]
  BY <1>1
<1>3. ASSUME NEW y, y = [call[c] EXCEPT !.pc = pc, !.request = r]
      PROVE  y = [pc |-> pc, mine |-> call[c].mine, request |-> r]
  <2>1. DOMAIN call[c] = {"pc", "mine", "request"}
    BY <1>1
  <2>2. DOMAIN y = {"pc", "mine", "request"} /\ y.pc = pc /\ y.mine = call[c].mine /\ y.request = r
    BY <1>3, <2>1
  <2>3. y = [pc |-> y.pc, mine |-> y.mine, request |-> y.request]
    BY <1>3, <2>2
  <2> QED
    BY <2>2, <2>3
<1> QED
  BY <1>2, <1>3 DEF Becomes

\* A step of one call leaves the others as they are.
LEMMA CallStep ==
    ASSUME CallInv, db' = db, NEW c \in Calls, NEW pc, NEW mine, NEW r,
           Becomes(c, pc, mine, r),
           pc \in CallStates, r \in Requests[c], CommittedRows(db, c, pc, r), OwnRows(mine, c, pc, r)
    PROVE  /\ CallInv' /\ \A d \in Calls \ {c} : call'[d] = call[d]
           /\ call'[c].pc = pc /\ call'[c].mine = mine /\ call'[c].request = r
<1> DEFINE k == [pc |-> pc, mine |-> mine, request |-> r]
<1>1. call = [d \in Calls |-> [pc |-> call[d].pc, mine |-> call[d].mine, request |-> call[d].request]]
  BY DEF CallInv
<1>2. k.pc = pc /\ k.mine = mine /\ k.request = r /\ k = [pc |-> k.pc, mine |-> k.mine, request |-> k.request]
  OBVIOUS
<1>3. CallIn(db, c, k)
  BY <1>2 DEF CallIn
<1> HIDE DEF k
<1>4. call' = [call EXCEPT ![c] = k]
  BY DEF k, Becomes
<1>5. /\ call'[c] = k /\ (\A d \in Calls \ {c} : call'[d] = call[d])
      /\ DOMAIN call' = Calls /\ call' = [d \in Calls |-> call'[d]]
  BY <1>1, <1>4
<1>6. \A d \in Calls : CallIn(db, d, call'[d])
  BY <1>3, <1>5 DEF CallInv
<1>7. \A d \in Calls : call'[d] = [pc |-> call'[d].pc, mine |-> call'[d].mine, request |-> call'[d].request]
  BY <1>1, <1>2, <1>5
<1>8. call' = [d \in Calls |-> [pc |-> call'[d].pc, mine |-> call'[d].mine, request |-> call'[d].request]]
  BY <1>5, <1>7
<1> QED
  BY <1>2, <1>5, <1>6, <1>8 DEF CallInv

\* Orders keep their time, and a new one gets the present.
LEMMA TimeStep ==
    ASSUME TimeInv, NEW c \in Calls, clock' \in {clock, clock + 1},
           \A d \in Calls :
               \/ Row(db', call'[d], d) = Nil
               \/ /\ Row(db, call[d], d) # Nil
                  /\ Row(db', call'[d], d).created_at = Row(db, call[d], d).created_at
               \/ d = c /\ clock' = clock + 1 /\ Row(db', call'[d], d).created_at = clock
    PROVE  TimeInv'
<1> DEFINE Old(d) == Row(db, call[d], d)
           New(d) == Row(db', call'[d], d)
<1>1. /\ clock \in Nat
      /\ \A d \in Calls : Old(d) # Nil => Old(d).created_at \in 0..clock - 1
      /\ \A d, e \in Calls : Old(d) # Nil /\ Old(e) # Nil /\ Old(d).created_at = Old(e).created_at => d = e
  BY DEF TimeInv
<1>2. \A d \in Calls : \/ New(d) = Nil
                       \/ Old(d) # Nil /\ New(d).created_at = Old(d).created_at
                       \/ d = c /\ clock' = clock + 1 /\ New(d).created_at = clock
  OBVIOUS
<1> HIDE DEF Old, New
<1>3. clock' \in Nat
  BY <1>1
<1>4. \A d \in Calls : New(d) # Nil => New(d).created_at \in 0..clock' - 1
  BY <1>1, <1>2
<1>5. ASSUME NEW d \in Calls, NEW e \in Calls, New(d) # Nil, New(e) # Nil, New(d).created_at = New(e).created_at
      PROVE  d = e
  <2>1. CASE Old(d) # Nil /\ New(d).created_at = Old(d).created_at
    <3>1. New(d).created_at # clock
      BY <1>1, <2>1
    <3>2. Old(e) # Nil /\ New(e).created_at = Old(e).created_at
      BY <1>2, <1>5, <3>1
    <3> QED
      BY <1>1, <1>5, <2>1, <3>2
  <2>2. CASE d = c /\ New(d).created_at = clock
    <3>1. CASE Old(e) # Nil /\ New(e).created_at = Old(e).created_at
      BY <1>1, <1>5, <2>2, <3>1
    <3> QED
      BY <1>2, <1>5, <2>2, <3>1
  <2> QED
    BY <1>2, <1>5, <2>1, <2>2
<1> QED
  BY <1>3, <1>4, <1>5 DEF TimeInv, Old, New

\* Requests are fixed before anything is written.
LEMMA AsksKept ==
    ASSUME DatabaseInv, CallInv, \A c \in Calls : call[c].pc # "new" => call'[c].request = call[c].request
    PROVE  \A o \in Present(db, "orders") : Asks(CallOf(o))' = Asks(CallOf(o))
<1>1. TAKE o \in Present(db, "orders")
<1>2. PICK c \in Calls : CallOf(o) = c /\ call[c].pc \in {"get", "created", "failed"}
  BY CommittedCall
<1>3. call'[c].request = call[c].request
  BY <1>2
<1> QED
  BY <1>2, <1>3 DEF Asks

\* A step that leaves the tables and the reader alone.
LEMMA NothingChanges ==
    ASSUME DatabaseInv, ReaderInv, PagingInv, db' = db, reader' = reader,
           \A o \in Present(db, "orders") : Asks(CallOf(o))' = Asks(CallOf(o))
    PROVE  DatabaseInv' /\ ReaderInv' /\ PagingInv'
<1>1. Kept(db, db')
  BY DEF Kept
<1> QED
  BY <1>1, ReaderKept DEF DatabaseInv, PagingInv

\* CreateOrder: a request is taken or refused.
LEMMA CreateStep ==
    ASSUME DatabaseInv, CallInv, TimeInv, NEW c \in Calls, CreateOrder(c)
    PROVE  /\ CallInv' /\ TimeInv'
           /\ \A d \in Calls : call[d].pc # "new" => call'[d].request = call[d].request
<1>0. call[c].pc = "new" /\ db' = db /\ clock' = clock
  BY DEF CreateOrder
<1>1. CallIn(db, c, call[c])
  BY DEF CallInv
<1>2. Absent(db, c) /\ call[c].mine = NoRows
  BY <1>0, <1>1 DEF CallIn, CommittedRows, OwnRows
<1>3. PICK r \in Requests[c] :
          \/ call' = [call EXCEPT ![c].pc = IF ValidRequest(r) THEN "order" ELSE "refused", ![c].request = r]
          \/ Goto(c, "refused", NoRows)
  BY DEF CreateOrder
<1>4. PICK pc \in {"order", "refused"}, q \in Requests[c] :
          Becomes(c, pc, NoRows, q)
  <2>1. CASE Goto(c, "refused", NoRows)
    BY <1>1, <2>1, CallMoves DEF CallIn
  <2>2. CASE call' = [call EXCEPT ![c].pc = IF ValidRequest(r) THEN "order" ELSE "refused", ![c].request = r]
    <3>1. PICK pc : pc \in {"order", "refused"} /\ pc = IF ValidRequest(r) THEN "order" ELSE "refused"
      OBVIOUS
    <3>2. call' = [call EXCEPT ![c].pc = pc, ![c].request = r]
      BY <2>2, <3>1
    <3>3. Becomes(c, pc, call[c].mine, r)
      BY <3>2, CallStarts
    <3> QED
      BY <1>2, <3>1, <3>3
  <2> QED
    BY <1>3, <2>1, <2>2
<1>5. pc \in CallStates /\ CommittedRows(db, c, pc, q) /\ OwnRows(NoRows, c, pc, q)
  BY <1>2, NoRowsOwn DEF CommittedRows, CallStates
<1>6. /\ CallInv' /\ (\A d \in Calls \ {c} : call'[d] = call[d]) /\ call'[c].mine = NoRows
  <2>1. /\ CallInv' /\ (\A d \in Calls \ {c} : call'[d] = call[d])
        /\ call'[c].pc = pc /\ call'[c].mine = NoRows /\ call'[c].request = q
    BY <1>0, <1>4, <1>5, CallStep
  <2> QED
    BY <2>1
<1>7. \A d \in Calls : Row(db', call'[d], d) = Row(db, call[d], d)
  BY <1>0, <1>2, <1>6 DEF Row
<1>8. TimeInv'
  BY <1>0, <1>7, TimeStep
<1> QED
  BY <1>0, <1>6, <1>8

\* Before the commit a call's order is its transaction's.
LEMMA AbsentRow ==
    ASSUME NEW d, NEW c \in Calls, NEW k, Absent(d, c)
    PROVE  Row(d, k, c) = k.mine.orders[NewOrder[c]]
BY DEF Row, Absent

\* Outside its transaction a call's order is the committed one.
LEMMA NoOwnRow ==
    ASSUME NEW d, NEW c \in Calls, NEW k, k.mine = NoRows
    PROVE  Row(d, k, c) = d.orders[NewOrder[c]]
<1>1. NoRows.orders[NewOrder[c]] = Nil
  BY NoRowsIs, CallIDs
<1> QED
  BY <1>1 DEF Row

\* A call fails and leaves what is committed.
LEMMA CallFails ==
    ASSUME CallInv, TimeInv, NEW c \in Calls, db' = db, clock' \in {clock, clock + 1}, Goto(c, "failed", NoRows),
           call[c].pc \in {"order", "items", "event", "commit", "get"}
    PROVE  /\ CallInv' /\ TimeInv' /\ \A d \in Calls : call'[d].request = call[d].request
<1>1. CallIn(db, c, call[c])
  BY DEF CallInv
<1>2. Becomes(c, "failed", NoRows, call[c].request)
  BY CallMoves
<1>3. call[c].request \in Requests[c] /\ CommittedRows(db, c, "failed", call[c].request)
  BY <1>1 DEF CallIn, CommittedRows
<1>4. "failed" \in CallStates /\ OwnRows(NoRows, c, "failed", call[c].request)
  BY NoRowsOwn DEF CallStates
<1>5. /\ CallInv' /\ (\A d \in Calls \ {c} : call'[d] = call[d])
      /\ call'[c].pc = "failed" /\ call'[c].mine = NoRows /\ call'[c].request = call[c].request
  BY <1>2, <1>3, <1>4, CallStep
<1>6. Row(db, call'[c], c) = Nil \/ Row(db, call'[c], c) = Row(db, call[c], c)
  <2>1. Row(db, call'[c], c) = db.orders[NewOrder[c]]
    BY <1>5, NoOwnRow
  <2>2. CASE Absent(db, c)
    BY <2>1, <2>2 DEF Absent
  <2>3. CASE call[c].mine = NoRows
    BY <2>1, <2>3, NoOwnRow
  <2> QED
    BY <1>1, <2>2, <2>3, AllOrNothing
<1>7. \A d \in Calls : \/ Row(db', call'[d], d) = Nil
                       \/ Row(db', call'[d], d) = Row(db, call[d], d)
  BY <1>5, <1>6
<1>8. \A d \in Calls : \/ Row(db', call'[d], d) = Nil
                       \/ /\ Row(db, call[d], d) # Nil
                          /\ Row(db', call'[d], d).created_at = Row(db, call[d], d).created_at
  BY <1>7
<1>9. TimeInv'
  BY <1>8, TimeStep
<1> QED
  BY <1>5, <1>9

\* A statement of the transaction succeeds: the call goes on with the rows M.
LEMMA CallGoesOn ==
    ASSUME CallInv, TimeInv, NEW c \in Calls, db' = db, clock' \in {clock, clock + 1}, Absent(db, c),
           NEW pc \in {"items", "event", "commit"}, NEW M, OwnRows(M, c, pc, call[c].request), Goto(c, pc, M),
           M.orders[NewOrder[c]] = call[c].mine.orders[NewOrder[c]]
           \/ (clock' = clock + 1 /\ M.orders[NewOrder[c]].created_at = clock)
    PROVE  /\ CallInv' /\ TimeInv' /\ \A d \in Calls : call'[d].request = call[d].request
<1>1. CallIn(db, c, call[c])
  BY DEF CallInv
<1>2. Becomes(c, pc, M, call[c].request)
  BY CallMoves
<1>3. call[c].request \in Requests[c] /\ CommittedRows(db, c, pc, call[c].request) /\ pc \in CallStates
  BY <1>1 DEF CallIn, CommittedRows, CallStates
<1>4. /\ CallInv' /\ (\A d \in Calls \ {c} : call'[d] = call[d])
      /\ call'[c].pc = pc /\ call'[c].mine = M /\ call'[c].request = call[c].request
  BY <1>2, <1>3, CallStep
<1>5. Row(db, call'[c], c) = M.orders[NewOrder[c]] /\ Row(db, call[c], c) = call[c].mine.orders[NewOrder[c]]
  BY <1>4, AbsentRow
<1>6. \A d \in Calls : \/ Row(db', call'[d], d) = Nil
                       \/ /\ Row(db, call[d], d) # Nil
                          /\ Row(db', call'[d], d).created_at = Row(db, call[d], d).created_at
                       \/ d = c /\ clock' = clock + 1 /\ Row(db', call'[d], d).created_at = clock
  BY <1>4, <1>5
<1>7. TimeInv'
  BY <1>6, TimeStep
<1> QED
  BY <1>4, <1>7

\* A statement of the transaction succeeds or everything is rolled back.
LEMMA StatementStep ==
    ASSUME DatabaseInv, CallInv, TimeInv, NEW c \in Calls, InsertOrder(c) \/ InsertItems(c) \/ InsertEvent(c)
    PROVE  /\ CallInv' /\ TimeInv' /\ \A d \in Calls : call'[d].request = call[d].request
<1> DEFINE r == call[c].request
<1>0. CallIn(db, c, call[c]) /\ IsDatabase(db) /\ clock \in Nat /\ r \in Requests[c]
  BY DEF CallInv, CallIn, DatabaseInv, TimeInv
<1> HIDE DEF r
<1>1. CASE InsertOrder(c)
  <2> DEFINE out == SaveOrder(Own(c), c, r, clock)
  <2>1. /\ call[c].pc = "order" /\ db' = db /\ clock' = clock + 1
        /\ \/ out.err = "none" /\ Goto(c, "items", Inserted(out.db))
           \/ Goto(c, "failed", NoRows)
    BY <1>1 DEF InsertOrder, Statement, r
  <2>2. CASE Goto(c, "failed", NoRows)
    BY <2>1, <2>2, CallFails
  <2>3. CASE out.err = "none" /\ Goto(c, "items", Inserted(out.db))
    <3>1. Absent(db, c) /\ OwnRows(call[c].mine, c, "order", r)
      BY <1>0, <2>1 DEF CallIn, CommittedRows, r
    <3>2. /\ OwnRows(Inserted(out.db), c, "items", r)
          /\ Inserted(out.db).orders[NewOrder[c]].created_at = clock
      BY <1>0, <2>3, <3>1, OrderInserted
    <3> HIDE DEF out
    <3> QED
      BY <2>1, <2>3, <3>1, <3>2, CallGoesOn DEF r
  <2> QED
    BY <2>1, <2>2, <2>3
<1>2. CASE InsertItems(c)
  <2> DEFINE out == SaveItems(Own(c), c, r, clock)
  <2>1. /\ call[c].pc = "items" /\ db' = db /\ clock' = clock
        /\ \/ out.err = "none" /\ Goto(c, "event", Inserted(out.db))
           \/ Goto(c, "failed", NoRows)
    BY <1>2 DEF InsertItems, Statement, r
  <2>2. CASE Goto(c, "failed", NoRows)
    BY <2>1, <2>2, CallFails
  <2>3. CASE out.err = "none" /\ Goto(c, "event", Inserted(out.db))
    <3>1. Absent(db, c) /\ OwnRows(call[c].mine, c, "items", r)
      BY <1>0, <2>1 DEF CallIn, CommittedRows, r
    <3>2. /\ OwnRows(Inserted(out.db), c, "event", r)
          /\ Inserted(out.db).orders[NewOrder[c]] = call[c].mine.orders[NewOrder[c]]
      BY <1>0, <2>3, <3>1, ItemsInserted
    <3> HIDE DEF out
    <3> QED
      BY <2>1, <2>3, <3>1, <3>2, CallGoesOn DEF r
  <2> QED
    BY <2>1, <2>2, <2>3
<1>3. CASE InsertEvent(c)
  <2> DEFINE out == SaveEvent(Own(c), c, r, clock)
  <2>1. /\ call[c].pc = "event" /\ db' = db /\ clock' = clock
        /\ \/ out.err = "none" /\ Goto(c, "commit", Inserted(out.db))
           \/ Goto(c, "failed", NoRows)
    BY <1>3 DEF InsertEvent, Statement, r
  <2>2. CASE Goto(c, "failed", NoRows)
    BY <2>1, <2>2, CallFails
  <2>3. CASE out.err = "none" /\ Goto(c, "commit", Inserted(out.db))
    <3>1. Absent(db, c) /\ OwnRows(call[c].mine, c, "event", r)
      BY <1>0, <2>1 DEF CallIn, CommittedRows, r
    <3>2. /\ OwnRows(Inserted(out.db), c, "commit", r)
          /\ Inserted(out.db).orders[NewOrder[c]] = call[c].mine.orders[NewOrder[c]]
      BY <1>0, <2>3, <3>1, EventInserted
    <3> HIDE DEF out
    <3> QED
      BY <2>1, <2>3, <3>1, <3>2, CallGoesOn DEF r
  <2> QED
    BY <2>1, <2>2, <2>3
<1> QED
  BY <1>1, <1>2, <1>3

\* The order is read back for the answer.
LEMMA AnswerCreateStep ==
    ASSUME CallInv, TimeInv, NEW c \in Calls, AnswerCreate(c)
    PROVE  /\ CallInv' /\ TimeInv' /\ \A d \in Calls : call'[d].request = call[d].request
<1>0. call[c].pc = "get" /\ db' = db /\ clock' = clock /\ (Goto(c, "created", NoRows) \/ Goto(c, "failed", NoRows))
  BY DEF AnswerCreate
<1>1. CASE Goto(c, "failed", NoRows)
  BY <1>0, <1>1, CallFails
<1>2. CASE Goto(c, "created", NoRows)
  <2>1. CallIn(db, c, call[c])
    BY DEF CallInv
  <2>2. Becomes(c, "created", NoRows, call[c].request)
    BY <1>2, CallMoves
  <2>3. call[c].request \in Requests[c] /\ CommittedRows(db, c, "created", call[c].request) /\ call[c].mine = NoRows
    BY <1>0, <2>1 DEF CallIn, CommittedRows, OwnRows
  <2>4. "created" \in CallStates /\ OwnRows(NoRows, c, "created", call[c].request)
    BY NoRowsOwn DEF CallStates
  <2>5. /\ CallInv' /\ (\A d \in Calls \ {c} : call'[d] = call[d])
        /\ call'[c].pc = "created" /\ call'[c].mine = NoRows /\ call'[c].request = call[c].request
    BY <1>0, <2>2, <2>3, <2>4, CallStep
  <2>6. \A d \in Calls : Row(db', call'[d], d) = Row(db, call[d], d)
    BY <1>0, <2>3, <2>5 DEF Row
  <2>7. TimeInv'
    BY <1>0, <2>6, TimeStep
  <2> QED
    BY <2>5, <2>7
<1> QED
  BY <1>0, <1>1, <1>2

\* A restart: a call that was under way has its rows or none.
LEMMA CrashStep ==
    ASSUME CallInv, TimeInv, Crash
    PROVE  /\ CallInv' /\ TimeInv' /\ \A d \in Calls : call'[d].request = call[d].request
<1>0. db' = db /\ clock' = clock
  BY DEF Crash
<1>1. call' = [c \in Calls |-> IF call[c].pc \in {"new", "refused", "created", "failed"} THEN call[c]
                                ELSE [call[c] EXCEPT !.pc = "failed", !.mine = NoRows]]
  BY DEF Crash
<1>2. ASSUME NEW c \in Calls
      PROVE  /\ call'[c] = [pc |-> call'[c].pc, mine |-> call'[c].mine, request |-> call'[c].request]
             /\ CallIn(db, c, call'[c]) /\ call'[c].request = call[c].request
             /\ (Row(db, call'[c], c) = Nil \/ Row(db, call'[c], c) = Row(db, call[c], c))
  <2>0. CallIn(db, c, call[c]) /\ call[c] = [pc |-> call[c].pc, mine |-> call[c].mine, request |-> call[c].request]
    BY DEF CallInv
  <2>1. CASE call[c].pc \in {"new", "refused", "created", "failed"}
    <3>1. call'[c] = call[c]
      BY <1>1, <2>1
    <3> QED
      BY <2>0, <3>1
  <2>2. CASE call[c].pc \notin {"new", "refused", "created", "failed"}
    <3>1. call'[c] = [call[c] EXCEPT !.pc = "failed", !.mine = NoRows]
      BY <1>1, <2>2
    <3>2. /\ call'[c].pc = "failed" /\ call'[c].mine = NoRows /\ call'[c].request = call[c].request
          /\ call'[c] = [pc |-> call'[c].pc, mine |-> call'[c].mine, request |-> call'[c].request]
      BY <2>0, <3>1
    <3>3. CommittedRows(db, c, "failed", call[c].request) /\ call[c].request \in Requests[c]
      BY <2>0, <2>2 DEF CallIn, CommittedRows, CallStates
    <3>4. CallIn(db, c, call'[c])
      BY <3>2, <3>3, NoRowsOwn DEF CallIn, CallStates
    <3>5. Row(db, call'[c], c) = Nil \/ Row(db, call'[c], c) = Row(db, call[c], c)
      <4>1. Row(db, call'[c], c) = db.orders[NewOrder[c]]
        BY <3>2, NoOwnRow
      <4>2. CASE Absent(db, c)
        BY <4>1, <4>2 DEF Absent
      <4>3. CASE call[c].mine = NoRows
        BY <4>1, <4>3, NoOwnRow
      <4> QED
        BY <2>0, <4>2, <4>3, AllOrNothing
    <3> QED
      BY <3>2, <3>4, <3>5
  <2> QED
    BY <2>1, <2>2
<1>3. call' = [c \in Calls |-> call'[c]]
  BY <1>1
<1>4. call' = [c \in Calls |-> [pc |-> call'[c].pc, mine |-> call'[c].mine, request |-> call'[c].request]]
  BY <1>2, <1>3
<1>5. CallInv'
  BY <1>0, <1>2, <1>4 DEF CallInv
<1>6. ASSUME NEW c \in Calls PROVE TimeInv'
  <2>1. \A d \in Calls : \/ Row(db', call'[d], d) = Nil
                         \/ /\ Row(db, call[d], d) # Nil
                            /\ Row(db', call'[d], d).created_at = Row(db, call[d], d).created_at
    BY <1>0, <1>2
  <2> QED
    BY <1>0, <2>1, TimeStep
<1>7. Calls = {} => TimeInv'
  BY <1>0 DEF TimeInv
<1> QED
  BY <1>2, <1>5, <1>6, <1>7

\* e has the rows of call c that d has, up to its order's status.
SameRows(d, e, c) ==
    /\ e.outbox_events[NewEvent[c]] = d.outbox_events[NewEvent[c]]
    /\ \A k \in DOMAIN NewItems[c] : e.order_items[NewItems[c][k]] = d.order_items[NewItems[c][k]]
    /\ e.orders[NewOrder[c]] = Nil <=> d.orders[NewOrder[c]] = Nil
    /\ d.orders[NewOrder[c]] # Nil =>
           /\ e.orders[NewOrder[c]].customer_id = d.orders[NewOrder[c]].customer_id
           /\ e.orders[NewOrder[c]].total = d.orders[NewOrder[c]].total
           /\ e.orders[NewOrder[c]].created_at = d.orders[NewOrder[c]].created_at

\* What is known of a call depends on its own rows only.
LEMMA SameCall ==
    ASSUME NEW d, NEW e, NEW c, SameRows(d, e, c), NEW k, CallIn(d, c, k)
    PROVE  CallIn(e, c, k)
<1>1. ASSUME NEW r PROVE Stored(d, c, r) => Stored(e, c, r)
  <2>1. OrderStored(d, c, r) => OrderStored(e, c, r)
    BY DEF OrderStored, SameRows
  <2>2. ItemsStored(d, c, r) => ItemsStored(e, c, r)
    BY DEF ItemsStored, SameRows
  <2>3. EventStored(d, c, r) => EventStored(e, c, r)
    BY DEF EventStored, SameRows
  <2> QED
    BY <2>1, <2>2, <2>3 DEF Stored
<1>2. Absent(d, c) => Absent(e, c)
  BY DEF Absent, SameRows
<1>3. CommittedRows(d, c, k.pc, k.request) => CommittedRows(e, c, k.pc, k.request)
  BY <1>1, <1>2 DEF CommittedRows
<1> QED
  BY <1>3 DEF CallIn

\* And so does the time of its order.
LEMMA SameTime ==
    ASSUME NEW d, NEW e, NEW c, SameRows(d, e, c), NEW k
    PROVE  \/ Row(e, k, c) = Nil
           \/ Row(d, k, c) # Nil /\ Row(e, k, c).created_at = Row(d, k, c).created_at
BY DEF Row, SameRows

----------------------------------------------------------------------------
\* What a commit does.
Commits(c) ==
    /\ IsDatabase(Own(c)) /\ Constraints(Own(c)) /\ RowsOf(Own(c), Calls)
    /\ Stored(Own(c), c, call[c].request)
    /\ \A d \in Calls \ {c} : SameRows(db, Own(c), d)
    /\ Own(c).orders[NewOrder[c]] = Row(db, call[c], c)
    /\ Own(c).orders[NewOrder[c]].status = "created" /\ db.orders[NewOrder[c]] = Nil
    /\ \A o \in OrderIDs \ {NewOrder[c]} : Own(c).orders[o] = db.orders[o]

\* A commit adds the rows of its call to those of the others.
LEMMA CommitAdds ==
    ASSUME DatabaseInv, CallInv, NEW c \in Calls, call[c].pc = "commit"
    PROVE  Commits(c)
<1> DEFINE V == Own(c)
           mine == call[c].mine
           r == call[c].request
<1>1. Absent(db, c) /\ OwnRows(mine, c, "commit", r) /\ IsDatabase(db) /\ r \in Requests[c]
  BY DEF CallInv, CallIn, CommittedRows, DatabaseInv
<1>2. /\ IsDatabase(mine) /\ Constraints(mine) /\ RowsOf(mine, {c}) /\ OrderStored(mine, c, r)
      /\ mine.orders[NewOrder[c]].status = "created" /\ ItemsStored(mine, c, r) /\ EventStored(mine, c, r)
  BY <1>1 DEF OwnRows
<1>3. /\ IsDatabase(V)
      /\ \A t \in Tables : \A id \in IDs[t] : V[t][id] = IF mine[t][id] # Nil THEN mine[t][id] ELSE db[t][id]
  BY <1>1, <1>2, OwnIs
<1> HIDE DEF V, mine, r
<1>4. /\ \A o \in OrderIDs : V.orders[o] = IF mine.orders[o] # Nil THEN mine.orders[o] ELSE db.orders[o]
      /\ \A i \in ItemIDs : V.order_items[i] =
            IF mine.order_items[i] # Nil THEN mine.order_items[i] ELSE db.order_items[i]
      /\ \A e \in EventIDs : V.outbox_events[e] =
            IF mine.outbox_events[e] # Nil THEN mine.outbox_events[e] ELSE db.outbox_events[e]
  BY <1>3, TheTables
<1>5. /\ NewOrder[c] \in OrderIDs /\ NewEvent[c] \in EventIDs
      /\ \A k \in DOMAIN NewItems[c] : NewItems[c][k] \in ItemIDs
  BY CallIDs
<1>6. Stored(V, c, r)
  <2>1. OrderStored(V, c, r)
    BY <1>2, <1>4, <1>5 DEF OrderStored
  <2>2. ItemsStored(V, c, r)
    <3>1. ASSUME NEW k \in DOMAIN NewItems[c]
          PROVE  V.order_items[NewItems[c][k]] = mine.order_items[NewItems[c][k]]
      <4>1. db.order_items[NewItems[c][k]] = Nil
        BY <1>1 DEF Absent
      <4> QED
        BY <1>4, <1>5, <4>1
    <3> QED
      BY <1>2, <3>1 DEF ItemsStored
  <2>3. EventStored(V, c, r)
    BY <1>2, <1>4, <1>5 DEF EventStored
  <2> QED
    BY <2>1, <2>2, <2>3 DEF Stored
<1>7. /\ V.orders[NewOrder[c]] = Row(db, call[c], c) /\ V.orders[NewOrder[c]].status = "created"
      /\ db.orders[NewOrder[c]] = Nil
  BY <1>1, <1>2, <1>4, <1>5 DEF Row, mine, OrderStored, Absent
<1>8. /\ \A o \in OrderIDs : mine.orders[o] # Nil => o = NewOrder[c]
      /\ \A i \in ItemIDs : mine.order_items[i] # Nil => \E k \in DOMAIN NewItems[c] : i = NewItems[c][k]
      /\ \A e \in EventIDs : mine.outbox_events[e] # Nil => e = NewEvent[c]
  BY <1>2, PresentIs DEF RowsOf
<1>9. \A o \in OrderIDs \ {NewOrder[c]} : V.orders[o] = db.orders[o]
  BY <1>4, <1>8
<1>10. ASSUME NEW d \in Calls \ {c} PROVE SameRows(db, V, d)
  <2>1. /\ NewOrder[d] \in OrderIDs \ {NewOrder[c]} /\ NewEvent[d] \in EventIDs \ {NewEvent[c]}
        /\ \A k \in DOMAIN NewItems[d] : NewItems[d][k] \in ItemIDs
    BY CallIDs, NewRowsDiffer
  <2>2. V.orders[NewOrder[d]] = db.orders[NewOrder[d]] /\ V.outbox_events[NewEvent[d]] = db.outbox_events[NewEvent[d]]
    BY <1>4, <1>8, <1>9, <2>1
  <2>3. \A k \in DOMAIN NewItems[d] : V.order_items[NewItems[d][k]] = db.order_items[NewItems[d][k]]
    <3>1. TAKE k \in DOMAIN NewItems[d]
    <3>2. mine.order_items[NewItems[d][k]] = Nil
      BY <1>8, <2>1, NewRowsDiffer
    <3> QED
      BY <1>4, <2>1, <3>2
  <2> QED
    BY <2>2, <2>3 DEF SameRows
<1>11. RowsOf(V, Calls)
  <2>1. \A o \in Present(V, "orders") : \E d \in Calls : o = NewOrder[d]
    BY <1>4, <1>8, PresentIs DEF DatabaseInv, RowsOf
  <2>2. \A i \in Present(V, "order_items") : \E d \in Calls : \E k \in DOMAIN NewItems[d] : i = NewItems[d][k]
    <3>1. TAKE i \in Present(V, "order_items")
    <3>2. i \in ItemIDs /\ V.order_items[i] # Nil
      BY PresentIs
    <3>3. CASE mine.order_items[i] # Nil
      BY <1>8, <3>2, <3>3
    <3>4. CASE mine.order_items[i] = Nil
      <4>1. i \in Present(db, "order_items")
        BY <1>4, <3>2, <3>4, PresentIs
      <4> QED
        BY <4>1 DEF DatabaseInv, RowsOf
    <3> QED
      BY <3>3, <3>4
  <2>3. \A e \in Present(V, "outbox_events") : \E d \in Calls : e = NewEvent[d]
    BY <1>4, <1>8, PresentIs DEF DatabaseInv, RowsOf
  <2> QED
    BY <2>1, <2>2, <2>3 DEF RowsOf
<1>12. Constraints(V)
  <2>1. ASSUME NEW t \in Tables, NEW id \in Present(V, t), NEW col \in TableColumns[t] \ Nullable
        PROVE  V[t][id][col] # Nil
    <3>1. id \in IDs[t] /\ V[t][id] # Nil
      BY DEF Present
    <3>2. CASE mine[t][id] # Nil
      <4>1. id \in Present(mine, t) /\ V[t][id] = mine[t][id]
        BY <1>3, <3>1, <3>2 DEF Present
      <4> QED
        BY <1>2, <4>1 DEF Constraints
    <3>3. CASE mine[t][id] = Nil
      <4>1. id \in Present(db, t) /\ V[t][id] = db[t][id]
        BY <1>3, <3>1, <3>3 DEF Present
      <4> QED
        BY <4>1 DEF Constraints, DatabaseInv
    <3> QED
      BY <3>2, <3>3
  <2>2. /\ Present(mine, "orders") \subseteq Present(V, "orders")
        /\ Present(db, "orders") \subseteq Present(V, "orders")
    BY <1>4, PresentIs
  <2>3. ASSUME NEW i \in Present(V, "order_items") PROVE V.order_items[i].order_items \in Present(V, "orders")
    <3>1. i \in ItemIDs /\ V.order_items[i] # Nil
      BY PresentIs
    <3>2. CASE mine.order_items[i] # Nil
      <4>1. i \in Present(mine, "order_items") /\ V.order_items[i] = mine.order_items[i]
        BY <1>4, <3>1, <3>2, PresentIs
      <4> QED
        BY <1>2, <2>2, <4>1 DEF Constraints
    <3>3. CASE mine.order_items[i] = Nil
      <4>1. i \in Present(db, "order_items") /\ V.order_items[i] = db.order_items[i]
        BY <1>4, <3>1, <3>3, PresentIs
      <4> QED
        BY <2>2, <4>1 DEF Constraints, DatabaseInv
    <3> QED
      BY <3>2, <3>3
  <2> QED
    BY <2>1, <2>3 DEF Constraints
<1> QED
  BY <1>3, <1>6, <1>7, <1>9, <1>10, <1>11, <1>12 DEF Commits, V, r

\* A commit, or one that fails without having taken place.
LEMMA CommitStep ==
    ASSUME DatabaseInv, CallInv, TimeInv, NEW c \in Calls, CommitOrder(c)
    PROVE  /\ DatabaseInv' /\ CallInv' /\ TimeInv' /\ \A d \in Calls : call'[d].request = call[d].request
           /\ db' = db \/ (Commits(c) /\ db' = Own(c))
<1>0. /\ call[c].pc = "commit" /\ clock' = clock
      /\ \/ db' = Own(c) /\ Goto(c, "get", NoRows)
         \/ db' \in {db, Own(c)} /\ Goto(c, "failed", NoRows)
  BY DEF CommitOrder
<1>1. CASE db' = db /\ Goto(c, "failed", NoRows)
  <2>1. /\ CallInv' /\ TimeInv' /\ \A d \in Calls : call'[d].request = call[d].request
    BY <1>0, <1>1, CallFails
  <2> QED
    BY <1>1, <2>1 DEF DatabaseInv
<1>2. CASE db' = Own(c) /\ \E pc \in {"get", "failed"} : Goto(c, pc, NoRows)
  <2>1. PICK pc \in {"get", "failed"} : Goto(c, pc, NoRows)
    BY <1>2
  <2>2. Commits(c)
    BY <1>0, CommitAdds
  <2>3. call' = [call EXCEPT ![c] = [pc |-> pc, mine |-> NoRows, request |-> call[c].request]]
    <3>1. Becomes(c, pc, NoRows, call[c].request)
      BY <2>1, CallMoves
    <3> QED
      BY <3>1 DEF Becomes
  <2>4. /\ call'[c].pc = pc /\ call'[c].mine = NoRows /\ call'[c].request = call[c].request
        /\ call'[c] = [pc |-> call'[c].pc, mine |-> call'[c].mine, request |-> call'[c].request]
        /\ (\A d \in Calls \ {c} : call'[d] = call[d]) /\ call' = [d \in Calls |-> call'[d]]
    BY <2>3 DEF CallInv
  <2>5. CallIn(db', c, call'[c])
    <3>1. call[c].request \in Requests[c]
      BY DEF CallInv, CallIn
    <3>2. Stored(db', c, call[c].request)
      BY <1>2, <2>2 DEF Commits
    <3>3. CommittedRows(db', c, pc, call[c].request) /\ pc \in CallStates /\ OwnRows(NoRows, c, pc, call[c].request)
      BY <3>2, NoRowsOwn DEF CommittedRows, CallStates
    <3> QED
      BY <2>4, <3>1, <3>3 DEF CallIn
  <2>6. \A d \in Calls \ {c} : CallIn(db', d, call'[d])
    <3>1. TAKE d \in Calls \ {c}
    <3>2. SameRows(db, db', d) /\ CallIn(db, d, call[d])
      BY <1>2, <2>2 DEF Commits, CallInv
    <3> QED
      BY <2>4, <3>2, SameCall
  <2>7. call' = [d \in Calls |-> [pc |-> call'[d].pc, mine |-> call'[d].mine, request |-> call'[d].request]]
    <3>1. \A d \in Calls : call'[d] = [pc |-> call'[d].pc, mine |-> call'[d].mine, request |-> call'[d].request]
      BY <2>4 DEF CallInv
    <3> QED
      BY <2>4, <3>1
  <2>8. CallInv'
    BY <2>5, <2>6, <2>7 DEF CallInv
  <2>9. Row(db', call'[c], c) = Row(db, call[c], c)
    <3>1. Row(db', call'[c], c) = db'.orders[NewOrder[c]]
      BY <2>4, NoOwnRow
    <3> QED
      BY <1>2, <2>2, <3>1 DEF Commits
  <2>10. ASSUME NEW d \in Calls
         PROVE  \/ Row(db', call'[d], d) = Nil
                \/ /\ Row(db, call[d], d) # Nil
                   /\ Row(db', call'[d], d).created_at = Row(db, call[d], d).created_at
    <3>1. CASE d = c
      BY <2>9, <3>1
    <3>2. CASE d # c
      <4>1. SameRows(db, db', d) /\ call'[d] = call[d]
        BY <1>2, <2>2, <2>4, <3>2 DEF Commits
      <4> QED
        BY <4>1, SameTime
    <3> QED
      BY <3>1, <3>2
  <2>11. TimeInv'
    BY <1>0, <2>10, TimeStep
  <2>12. DatabaseInv'
    BY <1>2, <2>2 DEF DatabaseInv, Commits
  <2> QED
    BY <1>2, <2>2, <2>4, <2>8, <2>11, <2>12
<1> QED
  BY <1>0, <1>1, <1>2

\* A commit changes no order that is there.
LEMMA CommitKeeps ==
    ASSUME NEW c \in Calls, db' = db \/ (Commits(c) /\ db' = Own(c)), NEW o \in Present(db, "orders")
    PROVE  o \in Present(db', "orders") /\ db'.orders[o] = db.orders[o]
<1>1. CASE db' = db
  BY <1>1
<1>2. CASE Commits(c) /\ db' = Own(c)
  <2>1. o \in OrderIDs /\ db.orders[o] # Nil /\ o # NewOrder[c]
    BY <1>2, PresentIs DEF Commits
  <2>2. db'.orders[o] = db.orders[o]
    BY <1>2, <2>1 DEF Commits
  <2> QED
    BY <2>1, <2>2, PresentIs
<1> QED
  BY <1>1, <1>2

----------------------------------------------------------------------------
\* The consumer writes a status.
LEMMA UpdateStep ==
    ASSUME DatabaseInv, CallInv, TimeInv, call' = call, clock' = clock, NEW o \in Present(db, "orders"), NEW s,
           db' = db \/ Updated(db, db', o, s)
    PROVE  DatabaseInv' /\ CallInv' /\ TimeInv' /\ Kept(db, db')
<1>1. CASE db' = db
  BY <1>1 DEF DatabaseInv, CallInv, TimeInv, Kept
<1>2. CASE Updated(db, db', o, s)
  <2>0. o \in OrderIDs /\ db.orders[o] # Nil
    BY PresentIs
  <2>1. \A p \in OrderIDs : /\ db'.orders[p] = Nil <=> db.orders[p] = Nil
                            /\ db.orders[p] # Nil => /\ db'.orders[p].customer_id = db.orders[p].customer_id
                                                     /\ db'.orders[p].total = db.orders[p].total
                                                     /\ db'.orders[p].created_at = db.orders[p].created_at
    BY <1>2, <2>0 DEF Updated
  <2>2. \A c \in Calls : SameRows(db, db', c)
    <3>1. db'.order_items = db.order_items /\ db'.outbox_events = db.outbox_events
      BY <1>2 DEF Updated
    <3> QED
      BY <2>1, <3>1, CallIDs DEF SameRows
  <2>3. CallInv'
    BY <2>2, SameCall DEF CallInv
  <2>4. \A d \in Calls : \/ Row(db', call'[d], d) = Nil
                         \/ /\ Row(db, call[d], d) # Nil
                            /\ Row(db', call'[d], d).created_at = Row(db, call[d], d).created_at
    BY <2>2, SameTime
  <2>5. PICK c \in Calls : o = NewOrder[c]
    BY DEF DatabaseInv, RowsOf
  <2>6. TimeInv'
    BY <2>4, <2>5, TimeStep
  <2>7. /\ Present(db', "orders") = Present(db, "orders") /\ Present(db', "order_items") = Present(db, "order_items")
        /\ Present(db', "outbox_events") = Present(db, "outbox_events")
    <3>1. /\ Present(db', "orders") = {p \in OrderIDs : db'.orders[p] # Nil}
          /\ Present(db, "orders") = {p \in OrderIDs : db.orders[p] # Nil}
      BY PresentIs
    <3>2. /\ Present(db', "order_items") = {i \in ItemIDs : db'.order_items[i] # Nil}
          /\ Present(db, "order_items") = {i \in ItemIDs : db.order_items[i] # Nil}
      BY PresentIs
    <3>3. /\ Present(db', "outbox_events") = {e \in EventIDs : db'.outbox_events[e] # Nil}
          /\ Present(db, "outbox_events") = {e \in EventIDs : db.outbox_events[e] # Nil}
      BY PresentIs
    <3>4. db'.order_items = db.order_items /\ db'.outbox_events = db.outbox_events
      BY <1>2 DEF Updated
    <3>5. Present(db', "orders") = Present(db, "orders")
      BY <2>1, <3>1
    <3> QED
      BY <3>2, <3>3, <3>4, <3>5
  <2>8. DatabaseInv'
    BY <1>2, <2>7 DEF DatabaseInv, RowsOf, Updated
  <2>9. Kept(db, db')
    BY <2>1, <2>7, PresentIs DEF Kept
  <2> QED
    BY <2>3, <2>6, <2>8, <2>9
<1> QED
  BY <1>1, <1>2

----------------------------------------------------------------------------
(***************************************************************************)
(* The steps of the consumer.                                              *)
(***************************************************************************)
\* A step that leaves the consumer alone and the orders' statuses as they are.
LEMMA ConsumerKept ==
    ASSUME ConsumerInv, UNCHANGED <<topic, position, committed, update>>,
           \A o \in Present(db, "orders") : o \in Present(db', "orders") /\ db'.orders[o].status = db.orders[o].status
    PROVE  ConsumerInv'
<1>1. TopicsInv'
  BY DEF ConsumerInv, TopicsInv
<1>2. UpdateInv'
  BY DEF ConsumerInv, UpdateInv
<1> QED
  BY <1>1, <1>2 DEF ConsumerInv

\* Topics are finite.
LEMMA TopicLengths ==
    ASSUME TopicsInv
    PROVE  \A u \in OrderTopics : Len(topic[u]) \in Nat
<1>1. TAKE u \in OrderTopics
<1> DEFINE E == {Encoded(u, o) : o \in Watched}
<1>2. topic[u] \in Seq(E)
  BY DEF TopicsInv
<1> HIDE DEF E
<1> QED
  BY <1>2

\* An event arrives.
LEMMA ArriveStep ==
    ASSUME ConsumerInv, NEW t \in OrderTopics, NEW o \in Watched, Arrive(t, o)
    PROVE  ConsumerInv'
<1> DEFINE E(u) == {Encoded(u, p) : p \in Watched}
<1>0. /\ topic' = [topic EXCEPT ![t] = Append(@, Encoded(t, o))]
      /\ db' = db /\ position' = position /\ committed' = committed /\ update' = update
  BY DEF Arrive
<1>1. /\ DOMAIN topic = OrderTopics /\ \A u \in OrderTopics : topic[u] \in Seq(E(u))
      /\ position \in [OrderTopics -> Nat] /\ committed \in [OrderTopics -> Nat]
      /\ \A u \in OrderTopics : committed[u] <= position[u] /\ position[u] <= Len(topic[u])
  BY DEF ConsumerInv, TopicsInv
<1>2. Encoded(t, o) \in E(t)
  OBVIOUS
<1> HIDE DEF E
<1>3. /\ DOMAIN topic' = OrderTopics /\ topic'[t] = Append(topic[t], Encoded(t, o))
      /\ \A u \in OrderTopics \ {t} : topic'[u] = topic[u]
  BY <1>0, <1>1
<1>4. topic'[t] \in Seq(E(t)) /\ Len(topic'[t]) = Len(topic[t]) + 1 /\ Len(topic[t]) \in Nat
  BY <1>1, <1>2, <1>3
<1>5. \A u \in OrderTopics : /\ topic'[u] \in Seq(E(u)) /\ Len(topic[u]) <= Len(topic'[u])
                              /\ Len(topic[u]) \in Nat /\ Len(topic'[u]) \in Nat
  <2>1. \A u \in OrderTopics : Len(topic[u]) \in Nat
    BY TopicLengths DEF ConsumerInv
  <2>2. TAKE u \in OrderTopics
  <2>3. CASE u = t
    BY <1>4, <2>3
  <2>4. CASE u # t
    BY <1>1, <1>3, <2>1, <2>4
  <2> QED
    BY <2>3, <2>4
<1>6. \A u \in OrderTopics : committed'[u] <= position'[u] /\ position'[u] <= Len(topic'[u])
  BY <1>0, <1>1, <1>5
<1>7. TopicsInv'
  BY <1>0, <1>1, <1>3, <1>5, <1>6 DEF TopicsInv, E
<1>8. UpdateInv'
  <2>1. ASSUME update # Nil PROVE position[update.topic] < Len(topic'[update.topic])
    <3>1. update.topic \in OrderTopics /\ position[update.topic] < Len(topic[update.topic])
      BY <2>1 DEF ConsumerInv, UpdateInv
    <3> QED
      BY <1>1, <1>5, <3>1
  <2> QED
    BY <1>0, <2>1 DEF ConsumerInv, UpdateInv
<1> QED
  BY <1>7, <1>8 DEF ConsumerInv

\* The consumer goes on to the next record, with or without committing.
LEMMA MovesOn ==
    ASSUME TopicsInv, topic' = topic, NEW t \in OrderTopics, position[t] < Len(topic[t]),
           Skip(t) \/ Acknowledge(t)
    PROVE  TopicsInv'
<1>1. /\ position \in [OrderTopics -> Nat] /\ committed \in [OrderTopics -> Nat]
      /\ \A u \in OrderTopics : committed[u] <= position[u] /\ position[u] <= Len(topic[u])
  BY DEF TopicsInv
<1>2. \A u \in OrderTopics : Len(topic[u]) \in Nat
  BY TopicLengths DEF ConsumerInv
<1>3. /\ position' = [position EXCEPT ![t] = position[t] + 1]
      /\ committed' = committed \/ committed' = [committed EXCEPT ![t] = position[t] + 1]
  BY DEF Skip, Acknowledge
<1>4. position' \in [OrderTopics -> Nat] /\ committed' \in [OrderTopics -> Nat]
  <2>1. position[t] + 1 \in Nat
    BY <1>1
  <2>2. position' \in [OrderTopics -> Nat]
    BY <1>1, <1>3, <2>1
  <2>3. committed' \in [OrderTopics -> Nat]
    BY <1>1, <1>3, <2>1
  <2> QED
    BY <2>2, <2>3
<1>5. \A u \in OrderTopics : committed'[u] <= position'[u] /\ position'[u] <= Len(topic[u])
  BY <1>1, <1>2, <1>3
<1> QED
  BY <1>4, <1>5 DEF TopicsInv

\* The first half of UpdateStatus.
LEMMA HandleStep ==
    ASSUME DatabaseInv, ConsumerInv, NEW t \in OrderTopics, HandleMessage(t)
    PROVE  ConsumerInv'
<1> DEFINE n == position[t] + 1
           ask == Asked(t, topic[t][n])
<1>0. update = Nil /\ position[t] < Len(topic[t]) /\ db' = db /\ topic' = topic
  BY DEF HandleMessage
<1>1. PICK o \in Watched : topic[t][n] = Encoded(t, o)
  <2> DEFINE E == {Encoded(t, p) : p \in Watched}
  <2>1. topic[t] \in Seq(E) /\ position[t] \in Nat
    BY DEF ConsumerInv, TopicsInv
  <2>2. topic[t][n] \in E
    <3> HIDE DEF E
    <3> QED
      BY <1>0, <2>1
  <2> QED
    BY <2>2
<1>2. IsAsk(ask, o) /\ ask.order = o
  <2>1. IsAsk(ask, o)
    BY <1>1, AskIs
  <2> QED
    BY <2>1 DEF IsAsk
<1> HIDE DEF ask
<1>3. PICK r \in OrderGet(db, ask.order) :
          \/ (Skip(t) \/ Acknowledge(t)) /\ update' = update
          \/ /\ r.err = "none" /\ Wants(r.nodes[1].row, ask) /\ update' = [topic |-> t, ask |-> ask]
             /\ position' = position /\ committed' = committed
  BY DEF HandleMessage, ask, n
<1>4. CASE (Skip(t) \/ Acknowledge(t)) /\ update' = update
  <2>1. TopicsInv'
    BY <1>0, <1>4, MovesOn DEF ConsumerInv
  <2> QED
    BY <1>0, <1>4, <2>1 DEF ConsumerInv, UpdateInv
<1>5. CASE /\ r.err = "none" /\ Wants(r.nodes[1].row, ask) /\ update' = [topic |-> t, ask |-> ask]
           /\ position' = position /\ committed' = committed
  <2>1. ask.order \in Present(db, "orders") /\ r.nodes[1].row.status = db.orders[ask.order].status
    BY <1>5, GetFinds DEF DatabaseInv
  <2>2. db.orders[ask.order].status = ask.expected
    BY <1>5, <2>1 DEF Wants
  <2>3. TopicsInv'
    BY <1>0, <1>5 DEF ConsumerInv, TopicsInv
  <2>4. update'.topic = t /\ update'.ask = ask
    BY <1>5
  <2>5. UpdateInv'
    BY <1>0, <1>2, <1>5, <2>1, <2>2, <2>4 DEF UpdateInv
  <2> QED
    BY <2>3, <2>5 DEF ConsumerInv
<1> QED
  BY <1>3, <1>4, <1>5

\* The second half: the order's status moves as the event asks, or not at all.
LEMMA WriteStep ==
    ASSUME DatabaseInv, TimeInv, ConsumerInv, WriteStatus
    PROVE  /\ ConsumerInv' /\ update.ask.order \in Present(db, "orders")
           /\ db.orders[update.ask.order].status = update.ask.expected
           /\ <<update.ask.expected, update.ask.status>> \in Moves
           /\ db' = db \/ Updated(db, db', update.ask.order, update.ask.status)
<1> DEFINE ask == update.ask
           new == OrderUpdateOneSave(db, OrderUpdateDefaults(StatusUpdate(ask), clock)).db
<1>0. /\ update # Nil /\ update' = Nil /\ topic' = topic
      /\ db' = db \/ db' = new
      /\ Skip(update.topic) \/ Acknowledge(update.topic)
  BY DEF WriteStatus
<1>1. /\ update.topic \in OrderTopics /\ position[update.topic] < Len(topic[update.topic])
      /\ ask.order \in Present(db, "orders") /\ db.orders[ask.order].status = ask.expected
      /\ IsAsk(ask, ask.order)
  BY <1>0 DEF ConsumerInv, UpdateInv
<1>2. <<ask.expected, ask.status>> \in Moves /\ ask.message \in Messages
  BY <1>1 DEF IsAsk
<1>3. ask.status \in StatusValues
  BY <1>2 DEF Moves, StatusValues
<1> HIDE DEF ask
<1>4. new = db \/ Updated(db, new, ask.order, ask.status)
  BY <1>1, <1>2, <1>3, StatusWritten DEF DatabaseInv, TimeInv
<1>5. TopicsInv'
  BY <1>0, <1>1, MovesOn DEF ConsumerInv
<1>6. UpdateInv'
  BY <1>0 DEF UpdateInv
<1> HIDE DEF new
<1>7. db' = db \/ Updated(db, db', ask.order, ask.status)
  BY <1>0, <1>4
<1> QED
  BY <1>1, <1>2, <1>5, <1>6, <1>7 DEF ConsumerInv, ask

\* A restart.
LEMMA RestartStep ==
    ASSUME ConsumerInv, Crash
    PROVE  ConsumerInv'
<1>0. topic' = topic /\ position' = committed /\ committed' = committed /\ update' = Nil
  BY DEF Crash
<1>1. /\ position \in [OrderTopics -> Nat] /\ committed \in [OrderTopics -> Nat]
      /\ \A u \in OrderTopics : committed[u] <= position[u] /\ position[u] <= Len(topic[u])
  BY DEF ConsumerInv, TopicsInv
<1>2. \A u \in OrderTopics : Len(topic[u]) \in Nat
  BY TopicLengths DEF ConsumerInv
<1>3. \A u \in OrderTopics : committed'[u] <= position'[u] /\ position'[u] <= Len(topic[u])
  BY <1>0, <1>1, <1>2
<1>4. TopicsInv'
  BY <1>0, <1>3 DEF ConsumerInv, TopicsInv
<1>5. UpdateInv'
  BY <1>0 DEF UpdateInv
<1> QED
  BY <1>4, <1>5 DEF ConsumerInv

----------------------------------------------------------------------------
(***************************************************************************)
(* The theorems.                                                           *)
(***************************************************************************)
\* The invariant holds of the database the earlier calls have left.
LEMMA RepoInitially == Init => RepoInv
<1> SUFFICES ASSUME Init PROVE RepoInv
  OBVIOUS
<1>0. /\ Earlier \subseteq Calls /\ IsFiniteSet(Earlier)
      /\ IsDatabase(InitDB) /\ Constraints(InitDB) /\ RowsOf(InitDB, Earlier)
      /\ \A c \in Earlier : /\ Stored(InitDB, c, FirstRequest(c))
                             /\ InitDB.orders[NewOrder[c]].created_at <= Cardinality(Earlier)
      /\ \A c, d \in Earlier :
             InitDB.orders[NewOrder[c]].created_at = InitDB.orders[NewOrder[d]].created_at => c = d
  BY InitDBAssumption DEF InitDBAssumption
<1>1. /\ db = InitDB /\ clock = Cardinality(Earlier) + 1 /\ Cardinality(Earlier) \in Nat
      /\ \A c \in Calls : /\ call[c].pc \in {"created", "new"} /\ call[c].mine = NoRows
                          /\ call[c].request = FirstRequest(c)
                          /\ call[c].pc = "created" <=> c \in Earlier
  BY <1>0, FS_CardinalityType DEF Init
<1>2. DatabaseInv
  BY <1>0, <1>1 DEF DatabaseInv, RowsOf
<1>3. ASSUME NEW c \in Calls \ Earlier PROVE Absent(db, c)
  <2>1. /\ NewOrder[c] \in OrderIDs /\ NewEvent[c] \in EventIDs
        /\ \A k \in DOMAIN NewItems[c] : NewItems[c][k] \in ItemIDs
    BY CallIDs
  <2>2. db.orders[NewOrder[c]] = Nil
    <3>1. NewOrder[c] \notin Present(db, "orders")
      BY <1>0, <1>1, NewRowsDiffer DEF RowsOf
    <3> QED
      BY <2>1, <3>1, PresentIs
  <2>3. db.outbox_events[NewEvent[c]] = Nil
    <3>1. NewEvent[c] \notin Present(db, "outbox_events")
      BY <1>0, <1>1, NewRowsDiffer DEF RowsOf
    <3> QED
      BY <2>1, <3>1, PresentIs
  <2>4. ASSUME NEW k \in DOMAIN NewItems[c] PROVE db.order_items[NewItems[c][k]] = Nil
    <3>1. NewItems[c][k] \notin Present(db, "order_items")
      BY <1>0, <1>1, NewRowsDiffer DEF RowsOf
    <3> QED
      BY <2>1, <3>1, PresentIs
  <2> QED
    BY <2>2, <2>3, <2>4 DEF Absent
<1>4. CallInv
  <2>1. ASSUME NEW c \in Calls PROVE CallIn(db, c, call[c])
    <3>1. FirstRequest(c) \in Requests[c]
      BY RequestsAssumption DEF RequestsAssumption, FirstRequest
    <3>2. CommittedRows(db, c, call[c].pc, call[c].request)
      BY <1>0, <1>1, <1>3 DEF CommittedRows
    <3>3. OwnRows(call[c].mine, c, call[c].pc, call[c].request)
      BY <1>1, NoRowsOwn
    <3> QED
      BY <1>1, <3>1, <3>2, <3>3 DEF CallIn, CallStates
  <2>2. call = [c \in Calls |-> [pc |-> call[c].pc, mine |-> call[c].mine, request |-> call[c].request]]
    BY DEF Init
  <2> QED
    BY <2>1, <2>2 DEF CallInv
<1>5. TimeInv
  <2>1. ASSUME NEW c \in Calls PROVE Row(db, call[c], c) = db.orders[NewOrder[c]]
    BY <1>1, NoOwnRow
  <2>2. ASSUME NEW c \in Calls, db.orders[NewOrder[c]] # Nil
        PROVE  c \in Earlier /\ db.orders[NewOrder[c]].created_at \in 0..clock - 1
    <3>1. c \in Earlier
      BY <1>3, <2>2 DEF Absent
    <3>2. NewOrder[c] \in Present(db, "orders")
      BY <2>2, CallIDs, PresentIs
    <3>3. db.orders[NewOrder[c]].created_at \in Nat
      BY <1>2, <3>2, OrderRowIs DEF DatabaseInv
    <3> QED
      BY <1>0, <1>1, <3>1, <3>3
  <2> QED
    BY <1>0, <1>1, <2>1, <2>2 DEF TimeInv
<1>6. ReaderInv /\ PagingInv
  <2>1. reader = Idle
    BY DEF Init
  <2>2. ReaderInv
    BY <2>1, IdleIs DEF ReaderInv
  <2>3. PagingInv
    BY <2>1, IdleIs DEF PagingInv, PagesIn
  <2> QED
    BY <2>2, <2>3
<1>7. ConsumerInv
  <2>1. DOMAIN topic = OrderTopics /\ \A t \in OrderTopics : topic[t] = <<>> /\ position[t] = 0 /\ committed[t] = 0
    BY DEF Init
  <2>2. ASSUME NEW S PROVE <<>> \in Seq(S) /\ Len(<<>>) = 0
    OBVIOUS
  <2>3. position \in [OrderTopics -> Nat] /\ committed \in [OrderTopics -> Nat]
    BY DEF Init
  <2>4. \A t \in OrderTopics : topic[t] \in Seq({Encoded(t, o) : o \in Watched}) /\ Len(topic[t]) = 0
    BY <2>1, <2>2
  <2>5. TopicsInv
    BY <2>1, <2>3, <2>4 DEF TopicsInv
  <2> QED
    BY <2>5 DEF ConsumerInv, UpdateInv, Init
<1>8. FaultsInv
  BY BoundsAssumption DEF BoundsAssumption, FaultsInv, Init
<1> QED
  BY <1>2, <1>4, <1>5, <1>6, <1>7, <1>8 DEF RepoInv

\* The bound on faults.
LEMMA FaultsStep == FaultsInv /\ (Fault \/ NoFault) => FaultsInv'
BY BoundsAssumption DEF BoundsAssumption, FaultsInv, Fault, NoFault

\* Every step counts a fault or none.
LEMMA FaultOrNot == Next => Fault \/ NoFault
<1> SUFFICES ASSUME Next PROVE Fault \/ NoFault
  OBVIOUS
<1>1. ASSUME NEW c \in Calls, \/ CreateOrder(c) \/ InsertOrder(c) \/ InsertItems(c) \/ InsertEvent(c)
                              \/ CommitOrder(c) \/ AnswerCreate(c)
      PROVE  Fault \/ NoFault
  BY <1>1 DEF CreateOrder, InsertOrder, InsertItems, InsertEvent, Statement, CommitOrder, AnswerCreate
<1>2. ASSUME NEW f \in Filters, ListOrders(f) PROVE Fault \/ NoFault
  BY <1>2 DEF ListOrders, NoFault
<1>3. ASSUME ReadPage \/ AnswerRead \/ ReadFails PROVE Fault \/ NoFault
  BY <1>3 DEF ReadPage, AnswerRead, ReadFails, NoFault
<1>4. ASSUME NEW o \in Watched, GetOrder(o) PROVE Fault \/ NoFault
  BY <1>4 DEF GetOrder, NoFault
<1>5. ASSUME NEW t \in OrderTopics, HandleMessage(t) PROVE Fault \/ NoFault
  BY <1>5 DEF HandleMessage
<1>6. ASSUME NEW t \in OrderTopics, NEW o \in Watched, Arrive(t, o) PROVE Fault \/ NoFault
  BY <1>6 DEF Arrive, NoFault
<1>7. ASSUME WriteStatus \/ Crash PROVE Fault \/ NoFault
  BY <1>7 DEF WriteStatus, Crash
<1> QED
  BY <1>1, <1>2, <1>3, <1>4, <1>5, <1>6, <1>7 DEF Next

\* A step of CreateOrder before its commit, and its answer after.
LEMMA CallSteps ==
    ASSUME RepoInv, NEW c \in Calls,
           \/ CreateOrder(c) \/ InsertOrder(c) \/ InsertItems(c) \/ InsertEvent(c) \/ AnswerCreate(c)
    PROVE  DatabaseInv' /\ CallInv' /\ TimeInv' /\ ReaderInv' /\ PagingInv' /\ ConsumerInv'
<1>0. db' = db /\ reader' = reader /\ UNCHANGED <<topic, position, committed, update>>
  BY DEF CreateOrder, InsertOrder, InsertItems, InsertEvent, Statement, AnswerCreate
<1>1. /\ CallInv' /\ TimeInv'
      /\ \A d \in Calls : call[d].pc # "new" => call'[d].request = call[d].request
  <2>1. CASE CreateOrder(c)
    BY <2>1, CreateStep DEF RepoInv
  <2>2. CASE InsertOrder(c) \/ InsertItems(c) \/ InsertEvent(c)
    BY <2>2, StatementStep DEF RepoInv
  <2>3. CASE AnswerCreate(c)
    BY <2>3, AnswerCreateStep DEF RepoInv
  <2> QED
    BY <2>1, <2>2, <2>3
<1>2. DatabaseInv' /\ ReaderInv' /\ PagingInv'
  <2>1. \A o \in Present(db, "orders") : Asks(CallOf(o))' = Asks(CallOf(o))
    BY <1>1, AsksKept DEF RepoInv
  <2> QED
    BY <1>0, <2>1, NothingChanges DEF RepoInv
<1>3. ConsumerInv'
  BY <1>0, ConsumerKept DEF RepoInv
<1> QED
  BY <1>1, <1>2, <1>3

\* The commit.
LEMMA CommitPreserves ==
    ASSUME RepoInv, NEW c \in Calls, CommitOrder(c)
    PROVE  DatabaseInv' /\ CallInv' /\ TimeInv' /\ ReaderInv' /\ PagingInv' /\ ConsumerInv'
<1>0. reader' = reader /\ UNCHANGED <<topic, position, committed, update>>
  BY DEF CommitOrder
<1>1. /\ DatabaseInv' /\ CallInv' /\ TimeInv' /\ \A d \in Calls : call'[d].request = call[d].request
      /\ db' = db \/ (Commits(c) /\ db' = Own(c))
  BY CommitStep DEF RepoInv
<1>2. \A o \in Present(db, "orders") : o \in Present(db', "orders") /\ db'.orders[o] = db.orders[o]
  BY <1>1, CommitKeeps
<1>3. Kept(db, db')
  BY <1>2 DEF Kept
<1>4. \A o \in Present(db, "orders") : Asks(CallOf(o))' = Asks(CallOf(o))
  BY <1>1, AsksKept DEF RepoInv
<1>5. ReaderInv'
  BY <1>0, <1>3, <1>4, ReaderKept DEF RepoInv
<1>6. PagingInv'
  BY <1>0, <1>3, PagesKept DEF RepoInv, PagingInv
<1>7. ConsumerInv'
  BY <1>0, <1>2, ConsumerKept DEF RepoInv
<1> QED
  BY <1>1, <1>5, <1>6, <1>7

\* A step of the reader.
LEMMA ReaderSteps ==
    ASSUME RepoInv, \/ \E f \in Filters : ListOrders(f)
                    \/ ReadPage \/ AnswerRead \/ ReadFails
                    \/ \E o \in Watched : GetOrder(o)
    PROVE  DatabaseInv' /\ CallInv' /\ TimeInv' /\ ReaderInv' /\ PagingInv' /\ ConsumerInv'
<1>0. UNCHANGED <<db, clock, call, topic, position, committed, update>>
  BY DEF ListOrders, ReadPage, AnswerRead, ReadFails, GetOrder
<1>1. DatabaseInv' /\ CallInv' /\ TimeInv'
  BY <1>0 DEF RepoInv, DatabaseInv, CallInv, TimeInv
<1>2. ConsumerInv'
  BY <1>0, ConsumerKept DEF RepoInv
<1>3. ReaderInv' /\ PagingInv'
  <2>1. ASSUME NEW f \in Filters, ListOrders(f) PROVE ReaderInv' /\ PagingInv'
    BY <2>1, ListStep DEF RepoInv
  <2>2. CASE ReadPage
    BY <2>2, PageStep DEF RepoInv
  <2>3. CASE AnswerRead
    BY <2>3, AnswerStep DEF RepoInv
  <2>4. CASE ReadFails
    <3>1. reader' = Idle
      BY <2>4 DEF ReadFails
    <3> QED
      BY <3>1, ReaderIdle
  <2>5. ASSUME NEW o \in Watched, GetOrder(o) PROVE ReaderInv' /\ PagingInv'
    BY <2>5, GetStep DEF RepoInv
  <2> QED
    BY <2>1, <2>2, <2>3, <2>4, <2>5
<1> QED
  BY <1>1, <1>2, <1>3

\* A step of the consumer that writes nothing.
LEMMA ConsumerSteps ==
    ASSUME RepoInv, NEW t \in OrderTopics, HandleMessage(t) \/ \E o \in Watched : Arrive(t, o)
    PROVE  DatabaseInv' /\ CallInv' /\ TimeInv' /\ ReaderInv' /\ PagingInv' /\ ConsumerInv'
<1>0. UNCHANGED <<db, clock, call, reader>>
  BY DEF HandleMessage, Arrive
<1>1. CallInv' /\ TimeInv'
  BY <1>0 DEF RepoInv, CallInv, TimeInv
<1>2. \A o \in Present(db, "orders") : Asks(CallOf(o))' = Asks(CallOf(o))
  BY <1>0, AsksKept DEF RepoInv
<1>3. DatabaseInv' /\ ReaderInv' /\ PagingInv'
  BY <1>0, <1>2, NothingChanges DEF RepoInv
<1>4. ConsumerInv'
  BY HandleStep, ArriveStep DEF RepoInv
<1> QED
  BY <1>1, <1>3, <1>4

\* The consumer's UPDATE.
LEMMA WritePreserves ==
    ASSUME RepoInv, WriteStatus
    PROVE  DatabaseInv' /\ CallInv' /\ TimeInv' /\ ReaderInv' /\ PagingInv' /\ ConsumerInv'
<1>0. UNCHANGED <<clock, call, reader>>
  BY DEF WriteStatus
<1>1. /\ ConsumerInv' /\ update.ask.order \in Present(db, "orders")
      /\ db' = db \/ Updated(db, db', update.ask.order, update.ask.status)
  BY WriteStep DEF RepoInv
<1>2. DatabaseInv' /\ CallInv' /\ TimeInv' /\ Kept(db, db')
  BY <1>0, <1>1, UpdateStep DEF RepoInv
<1>3. \A o \in Present(db, "orders") : Asks(CallOf(o))' = Asks(CallOf(o))
  BY <1>0, AsksKept DEF RepoInv
<1>4. ReaderInv'
  BY <1>0, <1>2, <1>3, ReaderKept DEF RepoInv
<1>5. PagingInv'
  BY <1>0, <1>2, PagesKept DEF RepoInv, PagingInv
<1> QED
  BY <1>1, <1>2, <1>4, <1>5

\* A restart.
LEMMA CrashPreserves ==
    ASSUME RepoInv, Crash
    PROVE  DatabaseInv' /\ CallInv' /\ TimeInv' /\ ReaderInv' /\ PagingInv' /\ ConsumerInv'
<1>0. db' = db /\ reader' = Idle
  BY DEF Crash
<1>1. CallInv' /\ TimeInv'
  BY CrashStep DEF RepoInv
<1>2. ReaderInv' /\ PagingInv'
  BY <1>0, ReaderIdle
<1>3. DatabaseInv'
  BY <1>0 DEF RepoInv, DatabaseInv
<1>4. ConsumerInv'
  BY RestartStep DEF RepoInv
<1> QED
  BY <1>1, <1>2, <1>3, <1>4

\* Every step keeps the invariant.
LEMMA RepoInductive == RepoInv /\ [Next]_vars => RepoInv'
<1> SUFFICES ASSUME RepoInv, [Next]_vars PROVE RepoInv'
  OBVIOUS
<1>1. CASE UNCHANGED vars
  <2>0. UNCHANGED <<db, clock, call, reader, topic, position, committed, update, faults>>
    BY <1>1 DEF vars
  <2>1. DatabaseInv' /\ CallInv' /\ TimeInv'
    BY <2>0 DEF RepoInv, DatabaseInv, CallInv, TimeInv
  <2>2. \A o \in Present(db, "orders") : Asks(CallOf(o))' = Asks(CallOf(o))
    BY <2>0, AsksKept DEF RepoInv
  <2>3. ReaderInv' /\ PagingInv'
    BY <2>0, <2>2, NothingChanges DEF RepoInv
  <2>4. ConsumerInv'
    BY <2>0, ConsumerKept DEF RepoInv
  <2>5. FaultsInv'
    BY <2>0 DEF RepoInv, FaultsInv
  <2> QED
    BY <2>1, <2>3, <2>4, <2>5 DEF RepoInv
<1>2. CASE Next
  <2>1. FaultsInv'
    BY <1>2, FaultOrNot, FaultsStep DEF RepoInv
  <2>2. DatabaseInv' /\ CallInv' /\ TimeInv' /\ ReaderInv' /\ PagingInv' /\ ConsumerInv'
    BY <1>2, CallSteps, CommitPreserves, ReaderSteps, ConsumerSteps, WritePreserves, CrashPreserves DEF Next
  <2> QED
    BY <2>1, <2>2 DEF RepoInv
<1> QED
  BY <1>1, <1>2

\* The invariant of the order service at the grain of its SQL statements, through
\* failed statements, lost commits and restarts.
THEOREM RepoInvariant == RepoSpec => []RepoInv
BY RepoInitially, RepoInductive, PTL DEF RepoSpec

\* Rows are rows of their tables and satisfy their constraints, calls and readers
\* are in a state of their own, and no offset is committed that was not read.
THEOREM RepoTypes == RepoSpec => []RepoTypeOK
<1>1. RepoInv => RepoTypeOK
  <2> SUFFICES ASSUME RepoInv PROVE RepoTypeOK
    OBVIOUS
  <2>1. IsDatabase(db) /\ Constraints(db) /\ faults \in 0..MaxFaults
    BY DEF RepoInv, DatabaseInv, FaultsInv
  <2>2. \A c \in Calls : call[c].pc \in CallStates /\ call[c].request \in Requests[c] /\ IsDatabase(call[c].mine)
    BY DEF RepoInv, CallInv, CallIn, OwnRows
  <2>3. \A t \in OrderTopics : committed[t] <= position[t] /\ position[t] <= Len(topic[t])
    BY DEF RepoInv, ConsumerInv, TopicsInv
  <2>4. reader.pc \in {"idle", "page", "load", "loadOne", "more", "listed", "got"}
    BY DEF RepoInv, ReaderInv
  <2> QED
    BY <2>1, <2>2, <2>3, <2>4 DEF RepoTypeOK, CallStates
<1> QED
  BY <1>1, RepoInvariant, PTL

\* OrderRepo.Create writes an order, its items and its event or none of them, and
\* the event's bytes are read back as what the order says.
THEOREM OrdersStayWhole == RepoSpec => []OrdersAreWhole
<1>1. RepoInv => OrdersAreWhole
  BY InvOrdersAreWhole DEF RepoInv
<1> QED
  BY <1>1, RepoInvariant, PTL

\* GetOrder and ListOrders show every item of an order and a status it had,
\* although orders and items are read by two statements.
THEOREM ReadsAreWhole == RepoSpec => []ReadersSeeWholeOrders
<1>1. RepoInv => ReadersSeeWholeOrders
  BY DEF RepoInv, ReaderInv, ReadersSeeWholeOrders
<1> QED
  BY <1>1, RepoInvariant, PTL

\* A client that pages until a page is not full misses no order that matched when
\* it began: List pages by position, orders only come in at the front.
THEOREM PagingIsComplete == RepoSpec => []PagingSkipsNothing
<1>1. RepoInv => PagingSkipsNothing
  BY DEF RepoInv, PagingInv, PagesIn, PagingSkipsNothing
<1> QED
  BY <1>1, RepoInvariant, PTL

\* Statuses change by a commit, from none to created, and by UpdateStatus, whose
\* order still has the status it found.
LEMMA StatusMoves ==
    ASSUME RepoInv, Next
    PROVE  Lifecycle!LifecycleNext \/ UNCHANGED [o \in OrderIDs |-> StatusOf(o)]
<1> DEFINE St == [o \in OrderIDs |-> StatusOf(o)]
<1>1. CASE db' = db
  BY <1>1 DEF StatusOf
<1>2. ASSUME NEW o \in OrderIDs, NEW from, NEW to, StatusOf(o) = from, db'.orders[o] # Nil, db'.orders[o].status = to,
             \A p \in OrderIDs \ {o} : db'.orders[p] = db.orders[p]
      PROVE  Lifecycle!Move(o, from, to)
  <2>1. StatusOf(o)' = to /\ \A p \in OrderIDs \ {o} : StatusOf(p)' = StatusOf(p)
    BY <1>2 DEF StatusOf
  <2>2. St[o] = from
    BY <1>2
  <2>3. St' = [St EXCEPT ![o] = to]
    BY <2>1
  <2> QED
    BY <2>2, <2>3 DEF Lifecycle!Move
<1>3. ASSUME NEW c \in Calls, CommitOrder(c), db' # db PROVE Lifecycle!LifecycleNext
  <2>1. Commits(c) /\ db' = Own(c)
    BY <1>3, CommitStep DEF RepoInv
  <2>2. NewOrder[c] \in OrderIDs
    BY CallIDs
  <2>3. /\ StatusOf(NewOrder[c]) = "none" /\ db'.orders[NewOrder[c]].status = "created" /\ db'.orders[NewOrder[c]] # Nil
        /\ \A p \in OrderIDs \ {NewOrder[c]} : db'.orders[p] = db.orders[p]
    BY <2>1 DEF Commits, StatusOf, Stored, OrderStored
  <2>4. Lifecycle!Move(NewOrder[c], "none", "created")
    BY <1>2, <2>2, <2>3
  <2> QED
    BY <2>2, <2>4 DEF Lifecycle!LifecycleNext
<1>4. ASSUME WriteStatus, db' # db PROVE Lifecycle!LifecycleNext
  <2> DEFINE o == update.ask.order
             from == update.ask.expected
             to == update.ask.status
  <2>1. /\ o \in Present(db, "orders") /\ db.orders[o].status = from /\ <<from, to>> \in Moves
        /\ Updated(db, db', o, to)
    BY <1>4, WriteStep DEF RepoInv
  <2> HIDE DEF o, from, to
  <2>2. o \in OrderIDs /\ StatusOf(o) = from
    BY <2>1, PresentIs DEF StatusOf
  <2>3. Lifecycle!Move(o, from, to)
    BY <1>2, <2>1, <2>2 DEF Updated
  <2>4. \/ Lifecycle!Move(o, "created", "inventory_reserved")
        \/ Lifecycle!Move(o, "created", "inventory_reserved_failed")
        \/ Lifecycle!Move(o, "inventory_reserved", "payment_completed")
        \/ Lifecycle!Move(o, "inventory_reserved", "payment_failed")
    BY <2>1, <2>3 DEF Moves
  <2> QED
    BY <2>2, <2>4 DEF Lifecycle!LifecycleNext
<1>5. ASSUME db' # db PROVE WriteStatus \/ \E c \in Calls : CommitOrder(c)
  BY <1>5 DEF Next, CreateOrder, InsertOrder, InsertItems, InsertEvent, Statement, AnswerCreate, ListOrders, ReadPage,
              AnswerRead, ReadFails, GetOrder, HandleMessage, Arrive, Crash
<1> QED
  BY <1>1, <1>3, <1>4, <1>5

\* The statuses of the order service implement the abstract lifecycle: reading
\* and writing in two statements is as good as one step for one consumer.
THEOREM StatusesKeepLifecycle == RepoSpec => StatusesFollowLifecycle
<1>1. RepoInv /\ [Next]_vars => [Lifecycle!LifecycleNext]_<<[o \in OrderIDs |-> StatusOf(o)]>>
  <2>1. CASE Next
    BY <2>1, StatusMoves
  <2>2. CASE UNCHANGED vars
    BY <2>2 DEF vars, StatusOf
  <2> QED
    BY <2>1, <2>2
<1> QED
  BY <1>1, RepoInvariant, PTL DEF RepoSpec, StatusesFollowLifecycle
=============================================================================
