-------------------------- MODULE RealtekNicProofs --------------------------
(***************************************************************************)
(* Proofs about RealtekNic, for every ring size, width of the counters and *)
(* size of the legacy buffer: the rings stay sound however often the       *)
(* counters wrap, packets are completed in order and only once sent, and   *)
(* neither a completion nor a change of the link is overlooked although    *)
(* the card acts between any two of the driver's register accesses.        *)
(***************************************************************************)
EXTENDS RealtekNic, Integers, TLAPS

-----------------------------------------------------------------------------
(* Remainders *)

LEMMA DivMod ==
  ASSUME NEW m \in Nat \ {0}, NEW x \in Nat
  PROVE  x % m \in 0..(m - 1) /\ x \div m \in Nat /\ x = m * (x \div m) + (x % m)
<1>1. x % m \in 0..(m - 1)
  OBVIOUS
<1>2. x = m * (x \div m) + (x % m) /\ x \div m \in Int
  OBVIOUS
<1>3. x \div m \in Nat
  OBVIOUS
<1>4. QED
  BY <1>1, <1>2, <1>3

LEMMA ModSmall ==
  ASSUME NEW m \in Nat \ {0}, NEW x \in 0..(m - 1)
  PROVE  x % m = x
OBVIOUS

LEMMA ModOnce ==
  ASSUME NEW m \in Nat \ {0}, NEW x \in m..(2 * m - 1)
  PROVE  x % m = x - m
OBVIOUS

LEMMA ModUnique ==
  ASSUME NEW m \in Nat \ {0}, NEW q \in Nat, NEW r \in 0..(m - 1), NEW x \in Nat,
         x = m * q + r
  PROVE  x % m = r
OBVIOUS

LEMMA ModAddMultiple ==
  ASSUME NEW m \in Nat \ {0}, NEW n \in Nat \ {0}, m % n = 0, NEW x \in Nat
  PROVE  (x + m) % n = x % n
<1> DEFINE q == m \div n
           d == x \div n
           r == x % n
           e == d + q
           y == x + m
<1>1. q \in Nat /\ m = n * q
  BY DivMod
<1>2. d \in Nat /\ r \in 0..(n - 1) /\ x = n * d + r
  BY Zenon, DivMod
<1> HIDE DEF q, d, r
<1>3. y = n * e + r /\ e \in Nat /\ y \in Nat
  BY <1>1, <1>2
<1> HIDE DEF e, y
<1>4. y % n = r
  BY <1>2, <1>3, ModUnique
<1>5. QED
  BY <1>4 DEF y, r

\* Reducing modulo a multiple first changes nothing.
LEMMA ModMod ==
  ASSUME NEW m \in Nat \ {0}, NEW n \in Nat \ {0}, m % n = 0, NEW x \in 0..(2 * m - 1)
  PROVE  (x % m) % n = x % n
<1>1. CASE x < m
  <2>1. x % m = x
    BY <1>1, ModSmall
  <2>2. QED
    BY <2>1
<1>2. CASE x >= m
  <2>1. x % m = x - m
    BY <1>2, ModOnce
  <2>2. x - m \in Nat /\ (x - m) + m = x
    BY <1>2
  <2>3. ((x - m) + m) % n = (x - m) % n
    BY Zenon, <2>2, ModAddMultiple
  <2>4. QED
    BY <2>1, <2>2, <2>3
<1>3. QED
  BY <1>1, <1>2

\* Fewer than n steps around a ring of n never lead back.
LEMMA ModDistinct ==
  ASSUME NEW n \in Nat \ {0}, NEW x \in Nat, NEW j \in 1..(n - 1)
  PROVE  (x + j) % n # x % n
<1> DEFINE r == x % n
           d == x \div n
           y == x + j
<1>1. d \in Nat /\ r \in 0..(n - 1) /\ x = n * d + r
  BY Zenon, DivMod
<1> HIDE DEF r, d
<1>2. CASE r + j < n
  <2> DEFINE t == r + j
  <2>1. y = n * d + t /\ t \in 0..(n - 1) /\ y \in Nat /\ t # r
    BY <1>1, <1>2
  <2> HIDE DEF y, t
  <2>2. y % n = t
    BY <1>1, <2>1, ModUnique
  <2>3. QED
    BY <2>1, <2>2 DEF r, y
<1>3. CASE r + j >= n
  <2> DEFINE e == d + 1
             t == r + j - n
  <2>1. y = n * e + t /\ t \in 0..(n - 1) /\ y \in Nat /\ e \in Nat /\ t # r
    BY <1>1, <1>3
  <2> HIDE DEF e, y, t
  <2>2. y % n = t
    BY <2>1, ModUnique
  <2>3. QED
    BY <2>1, <2>2 DEF r, y
<1>4. QED
  BY <1>1, <1>2, <1>3

LEMMA ModTimesFour ==
  ASSUME NEW n \in Nat \ {0}, NEW y \in Nat
  PROVE  (4 * y) % (4 * n) = 4 * (y % n)
<1> DEFINE r == y % n
           d == y \div n
<1>1. d \in Nat /\ r \in 0..(n - 1) /\ y = n * d + r
  BY Zenon, DivMod
<1> HIDE DEF r, d
<1>2. /\ 4 * y = (4 * n) * d + 4 * r /\ 4 * r \in 0..(4 * n - 1)
      /\ 4 * n \in Nat \ {0} /\ 4 * y \in Nat
  BY <1>1
<1>3. (4 * y) % (4 * n) = 4 * r
  BY <1>1, <1>2, ModUnique
<1>4. QED
  BY <1>3 DEF r

-----------------------------------------------------------------------------
(* Rings *)

Descs == [own : BOOLEAN, eor : BOOLEAN, pkt : Packets \cup {None}]
RingType == [prod : 0..(CounterMod - 1), cons : 0..(CounterMod - 1),
             desc : [Slots -> Descs]]

LEMMA Sizes ==
  /\ RTL_NUM_DESC \in Nat \ {0} /\ CounterMod \in Nat \ {0}
  /\ RTL_NUM_DESC < CounterMod /\ CounterMod % RTL_NUM_DESC = 0
BY NicConstantsOK

LEMMA IndexType == \A x \in Nat : Index(x) \in Slots
BY Sizes DEF Index, Slots

LEMMA IndexDistinct ==
  ASSUME NEW c \in Nat, NEW i \in 0..(RTL_NUM_DESC - 1), NEW j \in 0..(RTL_NUM_DESC - 1),
         i # j
  PROVE  Index(c + i) # Index(c + j)
<1>1. ASSUME NEW a \in 0..(RTL_NUM_DESC - 1), NEW b \in 0..(RTL_NUM_DESC - 1), a < b
      PROVE  Index(c + a) # Index(c + b)
  <2> DEFINE x == c + a
             d == b - a
  <2>1. x \in Nat /\ d \in 1..(RTL_NUM_DESC - 1) /\ c + b = x + d
    BY <1>1, Sizes
  <2> HIDE DEF x, d
  <2>2. (x + d) % RTL_NUM_DESC # x % RTL_NUM_DESC
    BY Zenon, <2>1, ModDistinct, Sizes
  <2>3. QED
    BY <2>1, <2>2 DEF Index, x
<1>2. CASE i < j
  BY <1>1, <1>2
<1>3. CASE j < i
  BY <1>1, <1>3
<1>4. QED
  BY <1>2, <1>3

\* The ring size divides the number of counter values, so that a counter
\* that wraps goes on with the next slot.
LEMMA IndexWrap ==
  ASSUME NEW x \in 0..(2 * CounterMod - 1)
  PROVE  Index(x % CounterMod) = Index(x)
BY Zenon, ModMod, Sizes DEF Index

LEMMA IndexCycle ==
  ASSUME NEW x \in Nat
  PROVE  Index(x + CounterMod) = Index(x)
BY Zenon, ModAddMultiple, Sizes DEF Index

LEMMA CountValue ==
  ASSUME NEW r \in RingType
  PROVE  /\ Count(r) = IF r.prod >= r.cons THEN r.prod - r.cons
                       ELSE r.prod + CounterMod - r.cons
         /\ Count(r) \in 0..(CounterMod - 1)
         /\ Count(r) = 0 <=> r.prod = r.cons
<1> DEFINE x == r.prod + CounterMod - r.cons
<1>1. /\ r.prod \in 0..(CounterMod - 1) /\ r.cons \in 0..(CounterMod - 1)
      /\ CounterMod \in Nat \ {0}
  BY Sizes DEF RingType
<1>2. CASE r.prod >= r.cons
  <2>1. x \in CounterMod..(2 * CounterMod - 1)
    BY <1>1, <1>2
  <2>2. x % CounterMod = x - CounterMod
    BY <1>1, <2>1, ModOnce
  <2>3. QED
    BY <1>1, <1>2, <2>2 DEF Count
<1>3. CASE r.prod < r.cons
  <2>1. x \in 0..(CounterMod - 1)
    BY <1>1, <1>3
  <2>2. x % CounterMod = x
    BY <1>1, <2>1, ModSmall
  <2>3. QED
    BY <1>1, <1>3, <2>2 DEF Count
<1>4. QED
  BY <1>1, <1>2, <1>3

\* The producer's slots are those that follow the window.
LEMMA ProducerIndex ==
  ASSUME NEW r \in RingType, NEW k \in Nat
  PROVE  Index(r.prod + k) = Index(r.cons + Count(r) + k)
<1>1. /\ r.prod \in 0..(CounterMod - 1) /\ r.cons \in 0..(CounterMod - 1)
      /\ CounterMod \in Nat \ {0}
  BY Sizes DEF RingType
<1>2. CASE r.prod >= r.cons
  BY <1>1, <1>2, CountValue
<1>3. CASE r.prod < r.cons
  <2>1. r.cons + Count(r) + k = (r.prod + k) + CounterMod
    BY <1>1, <1>3, CountValue
  <2>2. r.prod + k \in Nat
    BY <1>1
  <2>3. QED
    BY <2>1, <2>2, IndexCycle
<1>4. QED
  BY <1>1, <1>2, <1>3

LEMMA Produced ==
  ASSUME NEW r \in RingType, NEW q \in RingType, NEW n \in Nat,
         Count(r) + n <= RTL_NUM_DESC,
         q.prod = (r.prod + n) % CounterMod, q.cons = r.cons
  PROVE  /\ Count(q) = Count(r) + n
         /\ Window(q) = Window(r) \cup {Index(r.prod + k) : k \in 0..(n - 1)}
<1>1. /\ r.prod \in 0..(CounterMod - 1) /\ r.cons \in 0..(CounterMod - 1)
      /\ CounterMod \in Nat \ {0} /\ n < CounterMod
      /\ RTL_NUM_DESC \in Nat /\ RTL_NUM_DESC < CounterMod /\ Count(r) \in Nat
  BY Sizes, CountValue DEF RingType
<1>2. Count(q) = Count(r) + n
  <2>1. CASE r.prod + n < CounterMod
    <3>1. q.prod = r.prod + n
      BY <1>1, <2>1, ModSmall
    <3>2. QED
      BY SMTT(40), <1>1, <2>1, <3>1, CountValue
  <2>2. CASE r.prod + n >= CounterMod
    <3>1. r.prod + n \in CounterMod..(2 * CounterMod - 1)
      BY <1>1, <2>2
    <3>2. q.prod = r.prod + n - CounterMod
      BY <1>1, <3>1, ModOnce
    <3>3. QED
      BY <1>1, <2>2, <3>2, CountValue
  <2>3. QED
    BY <1>1, <2>1, <2>2
<1>3. \A k \in 0..(n - 1) : Index(r.prod + k) = Index(r.cons + (Count(r) + k))
  <2> TAKE k \in 0..(n - 1)
  <2>1. k \in Nat /\ r.cons + Count(r) + k = r.cons + (Count(r) + k)
    BY <1>1
  <2>2. QED
    BY <2>1, ProducerIndex
<1>4. Window(q) \subseteq Window(r) \cup {Index(r.prod + k) : k \in 0..(n - 1)}
  <2> SUFFICES ASSUME NEW j \in 0..(Count(q) - 1)
               PROVE  Index(r.cons + j) \in Window(r) \cup
                                            {Index(r.prod + k) : k \in 0..(n - 1)}
    BY DEF Window
  <2>1. CASE j < Count(r)
    BY <1>1, <1>2, <2>1 DEF Window
  <2>2. CASE j >= Count(r)
    <3>1. j - Count(r) \in 0..(n - 1) /\ Count(r) + (j - Count(r)) = j
      BY <1>1, <1>2, <2>2
    <3>2. Index(r.prod + (j - Count(r))) = Index(r.cons + j)
      BY <1>3, <3>1
    <3>3. QED
      BY <3>1, <3>2
  <2>3. QED
    BY <1>1, <2>1, <2>2
<1>5. Window(r) \subseteq Window(q)
  BY <1>1, <1>2 DEF Window
<1>6. ASSUME NEW k \in 0..(n - 1) PROVE Index(r.prod + k) \in Window(q)
  <2>1. Count(r) + k \in 0..(Count(q) - 1)
    BY <1>1, <1>2
  <2>2. QED
    BY <2>1, <1>3 DEF Window
<1>7. QED
  BY <1>2, <1>4, <1>5, <1>6

LEMMA Consumed ==
  ASSUME NEW r \in RingType, NEW q \in RingType,
         Count(r) > 0, Count(r) <= RTL_NUM_DESC,
         q.prod = r.prod, q.cons = Inc(r.cons)
  PROVE  /\ Count(q) = Count(r) - 1
         /\ \A j \in 0..(Count(q) - 1) : Index(q.cons + j) = Index(r.cons + (j + 1))
         /\ Window(q) = Window(r) \ {Index(r.cons)}
<1>1. /\ r.prod \in 0..(CounterMod - 1) /\ r.cons \in 0..(CounterMod - 1)
      /\ CounterMod \in Nat \ {0} /\ Count(r) \in Nat
      /\ RTL_NUM_DESC \in Nat /\ RTL_NUM_DESC < CounterMod
  BY Sizes, CountValue DEF RingType
<1>2. q.cons = IF r.cons + 1 < CounterMod THEN r.cons + 1 ELSE 0
  <2>1. CASE r.cons + 1 < CounterMod
    BY <1>1, <2>1, ModSmall DEF Inc
  <2>2. CASE r.cons + 1 = CounterMod
    BY <1>1, <2>2, ModOnce DEF Inc
  <2>3. QED
    BY <1>1, <2>1, <2>2
<1>3. Count(q) = Count(r) - 1
  BY <1>1, <1>2, CountValue
<1>4. ASSUME NEW j \in 0..(Count(q) - 1)
      PROVE  Index(q.cons + j) = Index(r.cons + (j + 1))
  <2>1. CASE r.cons + 1 < CounterMod
    <3>1. q.cons + j = r.cons + (j + 1)
      BY <1>1, <1>2, <1>3, <2>1
    <3>2. QED
      BY <3>1
  <2>2. CASE r.cons + 1 = CounterMod
    <3>1. q.cons + j = j /\ r.cons + (j + 1) = j + CounterMod /\ j \in Nat
      BY <1>1, <1>2, <1>3, <2>2
    <3>2. QED
      BY <3>1, IndexCycle
  <2>3. QED
    BY <1>1, <2>1, <2>2
<1>5. Window(q) \subseteq Window(r) \ {Index(r.cons)}
  <2> SUFFICES ASSUME NEW j \in 0..(Count(q) - 1)
               PROVE  Index(r.cons + (j + 1)) \in Window(r) \ {Index(r.cons)}
    BY <1>4 DEF Window
  <2>1. j + 1 \in 0..(Count(r) - 1) /\ j + 1 \in 0..(RTL_NUM_DESC - 1) /\ j + 1 # 0
        /\ 0 \in 0..(RTL_NUM_DESC - 1) /\ r.cons \in Nat
    BY <1>1, <1>3
  <2>2. Index(r.cons + (j + 1)) # Index(r.cons + 0)
    BY Zenon, <2>1, IndexDistinct
  <2>3. QED
    BY <1>1, <2>1, <2>2 DEF Window
<1>6. ASSUME NEW i \in 0..(Count(r) - 1), Index(r.cons + i) # Index(r.cons)
      PROVE  Index(r.cons + i) \in Window(q)
  <2>1. i # 0
    BY <1>1, <1>6
  <2>2. i - 1 \in 0..(Count(q) - 1) /\ (i - 1) + 1 = i
    BY <1>1, <1>3, <2>1
  <2>3. QED
    BY <1>4, <2>2 DEF Window
<1>7. QED
  BY <1>3, <1>4, <1>5, <1>6 DEF Window

-----------------------------------------------------------------------------
(* The transmit ring *)

Resources == {"netdev", "regs", "registered", "nvo"}
Bits == {"TOK", "ROK", "LINK", "RDU"}
Offsets == {4 * k : k \in 0..(RTL_RXBUF_LEN \div 4 - 1)}
Rtls == [held : SUBSET Resources, legacy : BOOLEAN, up : BOOLEAN,
         tx : RingType, rx : RingType, rx_iobuf : SUBSET Slots, offset : Offsets,
         pc : {"idle", "ack", "tx", "rx", "refill"}, seen : SUBSET Bits]
Netdevs == [queue : Seq(Packets), deferred : Seq(Packets), link : BOOLEAN]

\* No packet is queued or deferred twice.
Apart(q, d) ==
  /\ \A i, j \in 1..Len(q) : q[i] = q[j] => i = j
  /\ \A i, j \in 1..Len(d) : d[i] = d[j] => i = j
  /\ \A i \in 1..Len(q), j \in 1..Len(d) : q[i] # d[j]

\* The descriptors in use are those of the queued packets, in their order;
\* the card owns no other, and has sent the packets of those it gave back.
TxRing(r, q, d, sent) ==
  /\ Count(r) <= RTL_NUM_DESC /\ Len(q) = Count(r)
  /\ \A k \in Slots : r.desc[k].own => k \in Window(r) /\ r.desc[k].eor = IsLast(k)
  /\ \A j \in 0..(Count(r) - 1) :
       /\ r.desc[Index(r.cons + j)].pkt = q[j + 1]
       /\ r.desc[Index(r.cons + j)].own \/ q[j + 1] \in sent
  /\ Apart(q, d)

\* The oldest descriptor is back from the card.
Back(r) == r.cons # r.prod /\ ~r.desc[Index(r.cons)].own

\* A ring with one descriptor replaced.
SetDesc(r, k, x) == [r EXCEPT !.desc[k] = x]

LEMMA DescSet ==
  ASSUME NEW r \in RingType, NEW k \in Slots, NEW x \in Descs
  PROVE  /\ SetDesc(r, k, x) \in RingType
         /\ SetDesc(r, k, x).prod = r.prod /\ SetDesc(r, k, x).cons = r.cons
         /\ SetDesc(r, k, x).desc = [r.desc EXCEPT ![k] = x]
<1> DEFINE e == [r.desc EXCEPT ![k] = x]
           q == SetDesc(r, k, x)
<1>1. q = [r EXCEPT !.desc = e]
  BY DEF SetDesc
<1>2. e \in [Slots -> Descs]
  BY DEF RingType
<1> HIDE DEF e, q
<1>3. q \in RingType /\ q.prod = r.prod /\ q.cons = r.cons /\ q.desc = e
  BY <1>1, <1>2 DEF RingType
<1>4. QED
  BY <1>3 DEF e, q

LEMMA TxRingMonotone ==
  ASSUME NEW r, NEW q, NEW d, NEW a, NEW b, a \subseteq b, TxRing(r, q, d, a)
  PROVE  TxRing(r, q, d, b)
BY DEF TxRing

\* A queue that grows by a packet that is neither queued nor deferred.
LEMMA ApartExtend ==
  ASSUME NEW q, NEW d, NEW w, NEW p, NEW c \in Nat, Apart(q, d),
         Len(q) = c, Len(w) = c + 1, w[c + 1] = p, \A j \in 1..c : w[j] = q[j],
         \A i \in 1..Len(q) : q[i] # p, \A i \in 1..Len(d) : d[i] # p
  PROVE  Apart(w, d)
<1>1. ASSUME NEW i \in 1..(c + 1), NEW j \in 1..(c + 1), w[i] = w[j]
      PROVE  i = j
  <2>1. CASE i \in 1..c /\ j \in 1..c
    BY <1>1, <2>1 DEF Apart
  <2>2. CASE i = c + 1 /\ j \in 1..c
    BY <1>1, <2>2
  <2>3. CASE i \in 1..c /\ j = c + 1
    BY <1>1, <2>3
  <2>4. QED
    BY <2>1, <2>2, <2>3
<1>2. ASSUME NEW i \in 1..(c + 1), NEW j \in 1..Len(d)
      PROVE  w[i] # d[j]
  <2>1. CASE i \in 1..c
    BY <2>1 DEF Apart
  <2>2. CASE i = c + 1
    BY <2>2
  <2>3. QED
    BY <2>1, <2>2
<1>3. QED
  BY <1>1, <1>2 DEF Apart

LEMMA PopulateType ==
  ASSUME NEW k \in Slots, NEW p \in Packets \cup {None}
  PROVE  /\ Populate(k, p) \in Descs /\ Populate(k, p).own
         /\ Populate(k, p).eor = IsLast(k) /\ Populate(k, p).pkt = p
BY DEF Populate, Descs, IsLast

\* A packet on its way nowhere.
NewPacket(p, q, d) == /\ \A i \in 1..Len(q) : q[i] # p
                      /\ \A i \in 1..Len(d) : d[i] # p

\* Ring u is ring r with one more descriptor handed to the card.
HandedOver(r, u, p) ==
  LET k == Index(r.prod)
  IN /\ u.prod = Inc(r.prod) /\ u.cons = r.cons
     /\ u.desc[k].own /\ u.desc[k].eor = IsLast(k) /\ u.desc[k].pkt = p
     /\ \A i \in Slots \ {k} : u.desc[i] = r.desc[i]

\* One descriptor handed to the card, the packet appended to the queue.
LEMMA RingQueued ==
  ASSUME NEW r \in RingType, NEW q \in Seq(Packets), NEW d \in Seq(Packets), NEW sent,
         TxRing(r, q, d, sent), Count(r) < RTL_NUM_DESC,
         NEW p \in Packets, NewPacket(p, q, d),
         NEW u \in RingType, HandedOver(r, u, p)
  PROVE  /\ TxRing(u, Append(q, p), d, sent \ {p})
         /\ Count(u) = Count(r) + 1
         /\ Back(u) => Back(r)
<1> DEFINE k == Index(r.prod)
           x == u.desc[k]
<1>0. /\ u.prod = Inc(r.prod) /\ u.cons = r.cons
      /\ x.own /\ x.eor = IsLast(k) /\ x.pkt = p
      /\ \A i \in Slots \ {k} : u.desc[i] = r.desc[i]
  BY DEF HandedOver
<1> DEFINE c == Count(r)
           w == Append(q, p)
<1>1. /\ r.prod \in 0..(CounterMod - 1) /\ r.cons \in Nat /\ c \in Nat
      /\ r.prod \in Nat /\ r.desc \in [Slots -> Descs]
  BY Sizes, CountValue DEF RingType
<1> HIDE DEF x
<1>2. k \in Slots /\ k = Index(r.cons + c)
  <2>1. Index(r.prod + 0) = Index(r.cons + c + 0)
    BY ProducerIndex
  <2>2. r.prod + 0 = r.prod /\ r.cons + c + 0 = r.cons + c
    BY <1>1
  <2>3. QED
    BY <1>1, <2>1, <2>2, IndexType
<1>3. /\ u.desc[k] = x
      /\ \A i \in Slots \ {k} : u.desc[i] = r.desc[i]
  BY <1>0 DEF x
<1>4. Count(u) = c + 1 /\ Window(u) = Window(r) \cup {k}
  <2>1. u.prod = (r.prod + 1) % CounterMod /\ c + 1 <= RTL_NUM_DESC /\ 1 \in Nat
    BY <1>0, <1>1, Sizes DEF Inc
  <2>2. /\ Count(u) = c + 1
        /\ Window(u) = Window(r) \cup {Index(r.prod + i) : i \in 0..(1 - 1)}
    BY <1>0, <2>1, Produced
  <2>3. {Index(r.prod + i) : i \in 0..(1 - 1)} = {k}
    BY <1>1
  <2>4. QED
    BY <2>2, <2>3
<1>5. /\ w \in Seq(Packets) /\ Len(w) = c + 1 /\ w[c + 1] = p /\ Len(q) = c
      /\ \A j \in 1..c : w[j] = q[j]
  BY <1>1 DEF TxRing
<1> HIDE DEF c, w
<1>6. Apart(w, d)
  <2>1. Apart(q, d)
    BY DEF TxRing
  <2>2. /\ \A i \in 1..Len(q) : q[i] # p
        /\ \A i \in 1..Len(d) : d[i] # p
    BY DEF NewPacket
  <2>3. c \in Nat
    BY <1>1
  <2>4. QED
    BY SMTT(40), <1>5, <2>1, <2>2, <2>3, ApartExtend
<1>7. ASSUME NEW j \in 0..(c - 1)
      PROVE  Index(r.cons + j) \in Slots /\ Index(r.cons + j) # k
  <2>1. j \in 0..(RTL_NUM_DESC - 1) /\ c \in 0..(RTL_NUM_DESC - 1) /\ j # c
        /\ r.cons + j \in Nat
    BY SMTT(40), <1>1, Sizes DEF c
  <2>2. Index(r.cons + j) # Index(r.cons + c)
    BY <1>1, <2>1, IndexDistinct
  <2>3. QED
    BY <1>2, <2>1, <2>2, IndexType
<1>8. ASSUME NEW j \in 0..(Count(u) - 1)
      PROVE  /\ u.desc[Index(u.cons + j)].pkt = w[j + 1]
             /\ u.desc[Index(u.cons + j)].own \/ w[j + 1] \in sent \ {p}
  <2>1. CASE j = c
    BY <2>1, <1>0, <1>2, <1>3, <1>5
  <2>2. CASE j # c
    <3>1. j \in 0..(c - 1) /\ j + 1 \in 1..c
      BY <2>2, <1>1, <1>4
    <3>2. u.desc[Index(u.cons + j)] = r.desc[Index(r.cons + j)]
      BY <3>1, <1>0, <1>3, <1>7
    <3>3. w[j + 1] = q[j + 1] /\ q[j + 1] # p
      BY <3>1, <1>5 DEF NewPacket
    <3>4. /\ r.desc[Index(r.cons + j)].pkt = q[j + 1]
          /\ r.desc[Index(r.cons + j)].own \/ q[j + 1] \in sent
      BY <3>1 DEF TxRing, c
    <3>5. QED
      BY <3>2, <3>3, <3>4
  <2>3. QED
    BY <2>1, <2>2
<1>9. ASSUME NEW i \in Slots, u.desc[i].own
      PROVE  i \in Window(u) /\ u.desc[i].eor = IsLast(i)
  <2>1. CASE i = k
    BY <2>1, <1>0, <1>3, <1>4
  <2>2. CASE i # k
    BY <2>2, <1>3, <1>4, <1>9 DEF TxRing
  <2>3. QED
    BY <2>1, <2>2
<1>10. Count(u) <= RTL_NUM_DESC /\ Len(w) = Count(u)
  BY <1>1, <1>4, <1>5, Sizes DEF c
<1>11. TxRing(u, w, d, sent \ {p})
  BY <1>6, <1>8, <1>9, <1>10 DEF TxRing
<1>12. Back(u) => Back(r)
  <2> SUFFICES ASSUME Back(u) PROVE Back(r)
    OBVIOUS
  <2>1. Index(r.cons) \in Slots /\ ~u.desc[Index(r.cons)].own
    BY <1>0, <1>1, IndexType DEF Back
  <2>2. Index(r.cons) # k
    BY <1>0, <1>3, <2>1
  <2>3. r.cons # r.prod
    BY <2>2
  <2>4. QED
    BY <1>3, <2>1, <2>2, <2>3 DEF Back
<1>13. QED
  BY <1>4, <1>11, <1>12 DEF c, w

\* The oldest packet completed, its slot given back.
LEMMA RingDequeued ==
  ASSUME NEW r \in RingType, NEW q \in Seq(Packets), NEW d, NEW sent,
         TxRing(r, q, d, sent), Back(r),
         NEW u \in RingType, u.prod = r.prod, u.cons = Inc(r.cons), u.desc = r.desc
  PROVE  /\ q # << >> /\ Tail(q) \in Seq(Packets) /\ Head(q) \in Packets
         /\ Head(q) \in sent
         /\ Count(u) = Count(r) - 1
         /\ TxRing(u, Tail(q), d, sent \ {Head(q)})
<1> DEFINE c == Count(r)
           w == Tail(q)
           h == Head(q)
<1>1. c \in Nat /\ c > 0 /\ Len(q) = c /\ c <= RTL_NUM_DESC /\ r.cons \in Nat
  BY CountValue, Sizes DEF Back, TxRing, RingType
<1>2. /\ q # << >> /\ w \in Seq(Packets) /\ h \in Packets /\ h = q[1] /\ Len(w) = c - 1
      /\ \A j \in 1..(c - 1) : w[j] = q[j + 1]
  BY <1>1
<1>3. /\ Count(u) = c - 1
      /\ \A j \in 0..(Count(u) - 1) : Index(u.cons + j) = Index(r.cons + (j + 1))
      /\ Window(u) = Window(r) \ {Index(r.cons)}
  BY <1>1, Consumed
<1> HIDE DEF w, h, c
<1>4. h \in sent
  <2>1. 0 \in 0..(c - 1) /\ r.cons + 0 = r.cons /\ 0 + 1 = 1
    BY <1>1
  <2>2. r.desc[Index(r.cons + 0)].own \/ q[0 + 1] \in sent
    BY <2>1 DEF TxRing, c
  <2>3. QED
    BY <1>2, <2>1, <2>2 DEF Back
<1>5. Apart(w, d)
  <2>1. Apart(q, d)
    BY DEF TxRing
  <2>2. \A j \in 1..(c - 1) : j + 1 \in 1..c
    BY <1>1
  <2>3. QED
    BY SMTT(40), <1>1, <1>2, <2>1, <2>2 DEF Apart
<1>6. \A j \in 2..c : q[j] # h
  <2>1. Apart(q, d)
    BY DEF TxRing
  <2>2. \A j \in 2..c : j \in 1..c /\ j # 1 /\ 1 \in 1..c
    BY <1>1
  <2>3. QED
    BY <1>1, <1>2, <2>1, <2>2 DEF Apart
<1>7. ASSUME NEW j \in 0..(Count(u) - 1)
      PROVE  /\ u.desc[Index(u.cons + j)].pkt = w[j + 1]
             /\ u.desc[Index(u.cons + j)].own \/ w[j + 1] \in sent \ {h}
  <2> DEFINE i == j + 1
  <2>1. i \in 0..(c - 1) /\ i \in 1..(c - 1) /\ i + 1 \in 2..c
    BY <1>1, <1>3
  <2>2. Index(u.cons + j) = Index(r.cons + i)
    BY <1>3
  <2> HIDE DEF i
  <2>3. /\ r.desc[Index(r.cons + i)].pkt = q[i + 1]
        /\ r.desc[Index(r.cons + i)].own \/ q[i + 1] \in sent
    BY <2>1 DEF TxRing, c
  <2>4. w[i] = q[i + 1] /\ q[i + 1] # h
    BY <1>2, <1>6, <2>1
  <2>5. QED
    BY <2>2, <2>3, <2>4 DEF i
<1>8. ASSUME NEW i \in Slots, u.desc[i].own
      PROVE  i \in Window(u) /\ u.desc[i].eor = IsLast(i)
  BY <1>3, <1>8 DEF TxRing, Back
<1>9. Count(u) <= RTL_NUM_DESC /\ Len(w) = Count(u)
  BY <1>1, <1>2, <1>3, Sizes
<1>10. TxRing(u, w, d, sent \ {h})
  BY <1>5, <1>7, <1>8, <1>9 DEF TxRing
<1>11. QED
  BY <1>2, <1>3, <1>4, <1>10 DEF w, h, c

\* A descriptor given back by the card, which has sent its packet.
LEMMA RingSent ==
  ASSUME NEW r \in RingType, NEW q, NEW d, NEW sent,
         TxRing(r, q, d, sent), NEW k \in Slots, r.desc[k].own,
         NEW x \in Descs, ~x.own, x.pkt = r.desc[k].pkt,
         NEW u \in RingType, u.prod = r.prod, u.cons = r.cons,
         u.desc = [r.desc EXCEPT ![k] = x]
  PROVE  TxRing(u, q, d, sent \cup {r.desc[k].pkt})
<1>1. /\ u.desc[k] = x
      /\ \A i \in Slots \ {k} : u.desc[i] = r.desc[i]
  BY DEF RingType
<1>2. Count(u) = Count(r) /\ Window(u) = Window(r)
  BY DEF Count, Window
<1>3. ASSUME NEW j \in 0..(Count(r) - 1)
      PROVE  /\ u.desc[Index(u.cons + j)].pkt = q[j + 1]
             /\ \/ u.desc[Index(u.cons + j)].own
                \/ q[j + 1] \in sent \cup {r.desc[k].pkt}
  <2>1. Index(r.cons + j) \in Slots
    BY IndexType, CountValue DEF RingType
  <2>2. /\ r.desc[Index(r.cons + j)].pkt = q[j + 1]
        /\ r.desc[Index(r.cons + j)].own \/ q[j + 1] \in sent
    BY DEF TxRing
  <2>3. CASE Index(r.cons + j) = k
    BY <1>1, <2>2, <2>3
  <2>4. CASE Index(r.cons + j) # k
    BY <1>1, <2>1, <2>2, <2>4
  <2>5. QED
    BY <2>3, <2>4
<1>4. ASSUME NEW i \in Slots, u.desc[i].own
      PROVE  i \in Window(u) /\ u.desc[i].eor = IsLast(i)
  <2>1. i # k
    BY <1>1, <1>4
  <2>2. QED
    BY <1>1, <1>2, <1>4, <2>1 DEF TxRing
<1>5. QED
  BY <1>2, <1>3, <1>4 DEF TxRing

\* The packets deferred change and the ring does not.
LEMMA DeferralTx ==
  ASSUME NEW r, NEW q, NEW d, NEW e, NEW sent, TxRing(r, q, d, sent), Apart(q, e)
  PROVE  TxRing(r, q, e, sent)
BY DEF TxRing

LEMMA ApartDefer ==
  ASSUME NEW q \in Seq(Packets), NEW d \in Seq(Packets), NEW p \in Packets, Apart(q, d),
         NewPacket(p, q, d)
  PROVE  Apart(q, Append(d, p))
<1> DEFINE c == Len(d)
           e == Append(d, p)
<1>1. c \in Nat /\ Len(e) = c + 1 /\ e[c + 1] = p /\ \A j \in 1..c : e[j] = d[j]
  OBVIOUS
<1> HIDE DEF c, e
<1>2. Apart(d, q) /\ c = Len(d)
  BY DEF Apart, c
<1>3. Apart(e, q)
  BY <1>1, <1>2, ApartExtend DEF NewPacket
<1>4. QED
  BY ZenonT(40), <1>3 DEF Apart, e

LEMMA ApartHead ==
  ASSUME NEW q, NEW d \in Seq(Packets), Apart(q, d), d # << >>
  PROVE  /\ Tail(d) \in Seq(Packets) /\ Head(d) \in Packets
         /\ Apart(q, Tail(d))
         /\ NewPacket(Head(d), q, Tail(d))
<1> DEFINE c == Len(d)
           e == Tail(d)
           h == Head(d)
<1>1. /\ c \in Nat /\ c > 0 /\ e \in Seq(Packets) /\ h \in Packets /\ h = d[1]
      /\ Len(e) = c - 1 /\ \A j \in 1..(c - 1) : e[j] = d[j + 1]
  OBVIOUS
<1> HIDE DEF c, e, h
<1>2. c = Len(d) /\ 1 \in 1..c /\ \A j \in 1..(c - 1) : j + 1 \in 1..c /\ j + 1 # 1
  BY <1>1 DEF c
<1>3. Apart(q, e)
  <2>1. ASSUME NEW i \in 1..(c - 1), NEW j \in 1..(c - 1), e[i] = e[j] PROVE i = j
    <3>1. d[i + 1] = d[j + 1] /\ i + 1 \in 1..c /\ j + 1 \in 1..c
      BY <1>1, <1>2, <2>1
    <3>2. i + 1 = j + 1
      BY <1>2, <3>1 DEF Apart
    <3>3. QED
      BY <3>2
  <2>2. ASSUME NEW i \in 1..Len(q), NEW j \in 1..(c - 1) PROVE q[i] # e[j]
    BY <1>1, <1>2 DEF Apart
  <2>3. \A i, j \in 1..Len(q) : q[i] = q[j] => i = j
    BY DEF Apart
  <2>4. QED
    BY <1>1, <2>1, <2>2, <2>3 DEF Apart
<1>4. /\ \A i \in 1..Len(q) : q[i] # h
      /\ \A i \in 1..Len(e) : e[i] # h
  BY <1>1, <1>2 DEF Apart
<1>5. QED
  BY <1>1, <1>3, <1>4 DEF e, h, NewPacket

LEMMA ApartNone ==
  ASSUME NEW q, NEW d, Apart(q, d)
  PROVE  Apart(q, << >>)
BY DEF Apart

\* The fields of the driver's state that transmission leaves alone.
SameBesidesTx(s, t) ==
  /\ t.held = s.held /\ t.legacy = s.legacy /\ t.up = s.up /\ t.rx = s.rx
  /\ t.rx_iobuf = s.rx_iobuf /\ t.offset = s.offset /\ t.pc = s.pc /\ t.seen = s.seen

\* The driver's state with the next transmit descriptor handed over.
TxSet(s, k, x) == [s EXCEPT !.tx.prod = Inc(@), !.tx.desc[k] = x]

LEMMA TxUpdate ==
  ASSUME NEW s \in Rtls, NEW k \in Slots, NEW x \in Descs
  PROVE  LET t == TxSet(s, k, x)
         IN /\ t \in Rtls /\ SameBesidesTx(s, t)
            /\ t.tx \in RingType /\ t.tx.prod = Inc(s.tx.prod) /\ t.tx.cons = s.tx.cons
            /\ t.tx.desc = [s.tx.desc EXCEPT ![k] = x]
<1> DEFINE t == TxSet(s, k, x)
           r == [s.tx EXCEPT !.prod = Inc(s.tx.prod)]
           u == SetDesc(r, k, x)
<1>1. s.tx \in RingType /\ Inc(s.tx.prod) \in 0..(CounterMod - 1)
  BY Sizes DEF Rtls, RingType, Inc
<1>2. /\ r \in RingType /\ r.prod = Inc(s.tx.prod) /\ r.cons = s.tx.cons
      /\ r.desc = s.tx.desc
  BY <1>1 DEF RingType
<1>3. t = [s EXCEPT !.tx = u]
  BY ZenonT(40), <1>1 DEF Rtls, RingType, TxSet, SetDesc
<1> HIDE DEF r
<1>4. /\ u \in RingType /\ u.prod = r.prod /\ u.cons = r.cons
      /\ u.desc = [r.desc EXCEPT ![k] = x]
  BY <1>2, DescSet
<1> HIDE DEF u, t
<1>5. t.tx = u /\ t \in Rtls /\ SameBesidesTx(s, t)
  BY <1>3, <1>4 DEF Rtls, SameBesidesTx
<1>6. QED
  BY <1>2, <1>4, <1>5 DEF t

LEMMA QueueUpdate ==
  ASSUME NEW nd \in Netdevs, NEW q \in Seq(Packets)
  PROVE  /\ [nd EXCEPT !.queue = q] \in Netdevs
         /\ [nd EXCEPT !.queue = q].queue = q
         /\ [nd EXCEPT !.queue = q].deferred = nd.deferred
         /\ [nd EXCEPT !.queue = q].link = nd.link
         /\ [nd EXCEPT !.deferred = q] \in Netdevs
         /\ [nd EXCEPT !.deferred = q].queue = nd.queue
         /\ [nd EXCEPT !.deferred = q].deferred = q
         /\ [nd EXCEPT !.deferred = q].link = nd.link
BY SMTT(40) DEF Netdevs

\* What transmission makes of the driver's state s and network device nd.
TxResult(r, s, nd, sent) ==
  /\ r.rtl \in Rtls /\ r.netdev \in Netdevs /\ r.kick \in BOOLEAN
  /\ SameBesidesTx(s, r.rtl) /\ r.netdev.link = nd.link
  /\ TxRing(r.rtl.tx, r.netdev.queue, r.netdev.deferred, sent)
  /\ r.netdev.deferred # << >> => Count(r.rtl.tx) = RTL_NUM_DESC

\* realtek_transmit(), called by netdev_tx() for a packet that is neither
\* queued nor deferred.
LEMMA TransmitKeeps ==
  ASSUME NEW s \in Rtls, NEW nd \in Netdevs, NEW p \in Packets, NEW mapped \in BOOLEAN,
         NEW sent, TxRing(s.tx, nd.queue, nd.deferred, sent),
         NewPacket(p, nd.queue, nd.deferred),
         nd.deferred # << >> => Count(s.tx) >= RTL_NUM_DESC - 1
  PROVE  /\ TxResult(Transmit(s, nd, p, mapped), s, nd, sent \ {p})
         /\ Back(Transmit(s, nd, p, mapped).rtl.tx) => Back(s.tx)
<1> DEFINE r == Transmit(s, nd, p, mapped)
           k == Index(s.tx.prod)
           x == Populate(k, p)
           q == nd.queue
           d == nd.deferred
<1>1. /\ s.tx \in RingType /\ k \in Slots /\ q \in Seq(Packets) /\ d \in Seq(Packets)
      /\ Count(s.tx) \in Nat /\ RTL_NUM_DESC \in Nat /\ Count(s.tx) <= RTL_NUM_DESC
      /\ Len(q) = Count(s.tx) /\ Apart(q, d)
  BY SMTT(40), Sizes, IndexType, CountValue DEF Rtls, RingType, Netdevs, TxRing
<1>2. /\ x \in Descs /\ x.own /\ x.eor = IsLast(k) /\ x.pkt = p
  BY <1>1, PopulateType
<1>3. TxRing(s.tx, q, d, sent \ {p})
  <2>1. \A j \in 0..(Count(s.tx) - 1) : j + 1 \in 1..Len(q)
    BY <1>1
  <2>2. QED
    BY <2>1 DEF TxRing, NewPacket
<1>4. CASE Count(s.tx) >= RTL_NUM_DESC
  <2> DEFINE e == Append(d, p)
             n == [nd EXCEPT !.deferred = e]
  <2>1. r = [rtl |-> s, netdev |-> n, kick |-> FALSE]
    BY <1>4 DEF Transmit
  <2>2. Apart(q, e) /\ e \in Seq(Packets)
    BY <1>1, ApartDefer
  <2>3. n \in Netdevs /\ n.queue = q /\ n.deferred = e /\ n.link = nd.link
    BY Zenon, <2>2, QueueUpdate
  <2> HIDE DEF r, e, n
  <2>4. TxRing(s.tx, q, e, sent \ {p}) /\ Count(s.tx) = RTL_NUM_DESC
    BY <1>1, <1>3, <1>4, <2>2, DeferralTx
  <2>5. r.rtl = s /\ r.netdev = n /\ r.kick = FALSE
    BY <2>1
  <2>6. QED
    BY Zenon, <2>3, <2>4, <2>5 DEF SameBesidesTx, r, TxResult
<1>5. CASE Count(s.tx) < RTL_NUM_DESC /\ ~mapped
  <2> DEFINE n == [nd EXCEPT !.deferred = << >>]
  <2>1. r = [rtl |-> s, netdev |-> n, kick |-> FALSE]
    BY <1>1, <1>5 DEF Transmit
  <2>2. << >> \in Seq(Packets) /\ Apart(q, << >>)
    BY <1>1, ApartNone
  <2>3. n \in Netdevs /\ n.queue = q /\ n.deferred = << >> /\ n.link = nd.link
    BY Zenon, <2>2, QueueUpdate
  <2> HIDE DEF r, n
  <2>4. TxRing(s.tx, q, << >>, sent \ {p})
    BY <1>3, <2>2, DeferralTx
  <2>5. r.rtl = s /\ r.netdev = n /\ r.kick = FALSE
    BY <2>1
  <2>6. QED
    BY Zenon, <2>3, <2>4, <2>5 DEF SameBesidesTx, r, TxResult
<1>6. CASE Count(s.tx) < RTL_NUM_DESC /\ mapped
  <2> DEFINE t == TxSet(s, k, x)
             w == Append(q, p)
             n == [nd EXCEPT !.queue = w]
  <2>1. r = [rtl |-> t, netdev |-> n, kick |-> TRUE]
    BY <1>1, <1>6 DEF Transmit, TxSet
  <2>2. /\ t \in Rtls /\ SameBesidesTx(s, t)
        /\ t.tx \in RingType /\ t.tx.prod = Inc(s.tx.prod) /\ t.tx.cons = s.tx.cons
        /\ t.tx.desc = [s.tx.desc EXCEPT ![k] = x]
    BY SMTT(40), <1>1, <1>2, TxUpdate
  <2>3. w \in Seq(Packets)
    BY <1>1
  <2>4. n \in Netdevs /\ n.queue = w /\ n.deferred = d /\ n.link = nd.link
    BY Zenon, <2>3, QueueUpdate
  <2> HIDE DEF r, t, n, x, k
  <2>5. /\ TxRing(t.tx, w, d, sent \ {p}) /\ Count(t.tx) = Count(s.tx) + 1
        /\ Back(t.tx) => Back(s.tx)
    <3>1. s.tx.desc \in [Slots -> Descs]
      BY <1>1 DEF RingType
    <3>2. HandedOver(s.tx, t.tx, p)
      BY SMTT(40), <1>1, <1>2, <2>2, <3>1 DEF HandedOver, k
    <3> DEFINE a == s.tx
               b == t.tx
    <3>3. /\ a \in RingType /\ b \in RingType /\ HandedOver(a, b, p)
          /\ q \in Seq(Packets) /\ d \in Seq(Packets) /\ Count(a) < RTL_NUM_DESC
          /\ TxRing(a, q, d, sent) /\ NewPacket(p, q, d)
      BY SMTT(40), <1>1, <1>6, <2>2, <3>2
    <3> HIDE DEF a, b, q, d
    <3>4. /\ TxRing(b, Append(q, p), d, sent \ {p}) /\ Count(b) = Count(a) + 1
          /\ Back(b) => Back(a)
      BY <3>3, RingQueued
    <3>5. QED
      BY <3>4 DEF a, b
  <2>6. r.rtl = t /\ r.netdev = n /\ r.kick = TRUE
    BY <2>1
  <2>7. d # << >> => Count(t.tx) = RTL_NUM_DESC
    BY <1>1, <1>6, <2>5
  <2>8. QED
    BY Zenon, <2>2, <2>4, <2>5, <2>6, <2>7 DEF r, TxResult
<1>7. QED
  BY <1>1, <1>4, <1>5, <1>6

\* The driver's state with the oldest transmit descriptor given back.
TxFree(s) == [s EXCEPT !.tx.cons = Inc(@)]

LEMMA FreeUpdate ==
  ASSUME NEW s \in Rtls
  PROVE  LET t == TxFree(s)
         IN /\ t \in Rtls /\ SameBesidesTx(s, t) /\ t.tx \in RingType
            /\ t.tx.prod = s.tx.prod /\ t.tx.cons = Inc(s.tx.cons)
            /\ t.tx.desc = s.tx.desc
<1> DEFINE t == TxFree(s)
           u == [s.tx EXCEPT !.cons = Inc(s.tx.cons)]
<1>1. s.tx \in RingType /\ Inc(s.tx.cons) \in 0..(CounterMod - 1)
  BY Sizes DEF Rtls, RingType, Inc
<1>2. /\ u \in RingType /\ u.prod = s.tx.prod /\ u.cons = Inc(s.tx.cons)
      /\ u.desc = s.tx.desc
  BY <1>1 DEF RingType
<1>3. t = [s EXCEPT !.tx = u]
  BY <1>1 DEF Rtls, RingType, TxFree
<1> HIDE DEF u, t
<1>4. t.tx = u /\ t \in Rtls /\ SameBesidesTx(s, t)
  BY <1>2, <1>3 DEF Rtls, SameBesidesTx
<1>5. QED
  BY <1>2, <1>4 DEF t

\* One pass of the loop in realtek_poll_tx(), with what the network layer
\* does when it is told.
LEMMA CompleteKeeps ==
  ASSUME NEW s \in Rtls, NEW nd \in Netdevs, NEW mapped \in BOOLEAN, NEW sent,
         TxRing(s.tx, nd.queue, nd.deferred, sent), Back(s.tx),
         nd.deferred # << >> => Count(s.tx) = RTL_NUM_DESC
  PROVE  TxResult(Complete(s, nd, mapped), s, nd, sent \ {Head(nd.queue)})
<1> DEFINE r == Complete(s, nd, mapped)
           c == TxFree(s)
           q == nd.queue
           d == nd.deferred
           w == Tail(q)
           h == Head(q)
           n == [nd EXCEPT !.queue = w]
<1>1. /\ s.tx \in RingType /\ q \in Seq(Packets) /\ d \in Seq(Packets)
      /\ Count(s.tx) \in Nat /\ RTL_NUM_DESC \in Nat \ {0} /\ Apart(q, d)
  BY Sizes, CountValue DEF Rtls, Netdevs, TxRing
<1>2. /\ c \in Rtls /\ SameBesidesTx(s, c) /\ c.tx \in RingType
      /\ c.tx.prod = s.tx.prod /\ c.tx.cons = Inc(s.tx.cons) /\ c.tx.desc = s.tx.desc
  BY FreeUpdate
<1>3. r = IF n.deferred = << >> THEN [rtl |-> c, netdev |-> n, kick |-> FALSE]
          ELSE Transmit(c, [n EXCEPT !.deferred = Tail(@)], Head(n.deferred), mapped)
  BY DEF Complete, TxFree
<1>4. /\ w \in Seq(Packets) /\ Count(c.tx) = Count(s.tx) - 1
      /\ TxRing(c.tx, w, d, sent \ {h})
  <2> DEFINE a == s.tx
             b == c.tx
  <2>1. /\ a \in RingType /\ b \in RingType /\ Back(a) /\ TxRing(a, q, d, sent)
        /\ b.prod = a.prod /\ b.cons = Inc(a.cons) /\ b.desc = a.desc
    BY <1>1, <1>2
  <2> HIDE DEF a, b, q, d, w, h
  <2>2. /\ Tail(q) \in Seq(Packets) /\ Count(b) = Count(a) - 1
        /\ TxRing(b, Tail(q), d, sent \ {Head(q)})
    BY <1>1, <2>1, RingDequeued
  <2>3. QED
    BY <2>2 DEF a, b, w, h
<1>5. n \in Netdevs /\ n.queue = w /\ n.deferred = d /\ n.link = nd.link
  BY Zenon, <1>4, QueueUpdate
<1> HIDE DEF r, c, n, w, h
<1>6. CASE d = << >>
  <2>1. r = [rtl |-> c, netdev |-> n, kick |-> FALSE]
    BY <1>3, <1>5, <1>6
  <2>2. r.rtl = c /\ r.netdev = n /\ r.kick = FALSE
    BY <2>1
  <2>3. QED
    BY Zenon, <1>2, <1>4, <1>5, <1>6, <2>2 DEF r, h, TxResult
<1>7. CASE d # << >>
  <2> DEFINE e == Tail(d)
             p == Head(d)
             m == [n EXCEPT !.deferred = e]
             S == sent \ {h}
  <2>1. r = Transmit(c, m, p, mapped)
    BY <1>3, <1>5, <1>7 DEF Netdevs
  <2>2. Apart(w, d)
    BY <1>4 DEF TxRing
  <2>3. e \in Seq(Packets) /\ p \in Packets /\ Apart(w, e) /\ NewPacket(p, w, e)
    BY <1>1, <1>7, <2>2, ApartHead
  <2>4. m \in Netdevs /\ m.queue = w /\ m.deferred = e /\ m.link = nd.link
    BY Zenon, <1>5, <2>3, QueueUpdate
  <2>5. TxRing(c.tx, w, e, S)
    BY <1>4, <2>3, DeferralTx
  <2>6. Count(c.tx) >= RTL_NUM_DESC - 1
    BY <1>1, <1>4, <1>7
  <2> HIDE DEF e, p, m, S
  <2>7. /\ TxRing(c.tx, m.queue, m.deferred, S) /\ NewPacket(p, m.queue, m.deferred)
        /\ m.deferred # << >> => Count(c.tx) >= RTL_NUM_DESC - 1
        /\ c \in Rtls /\ m \in Netdevs /\ p \in Packets
    BY <1>2, <2>3, <2>4, <2>5, <2>6
  <2>8. TxResult(r, c, m, S \ {p})
    BY Zenon, <2>1, <2>7, TransmitKeeps
  <2>9. TxRing(r.rtl.tx, r.netdev.queue, r.netdev.deferred, S)
    <3>1. S \ {p} \subseteq S
      OBVIOUS
    <3>2. QED
      BY <2>8, <3>1, TxRingMonotone DEF TxResult
  <2>10. SameBesidesTx(s, r.rtl)
    BY <1>2, <2>8 DEF SameBesidesTx, TxResult
  <2>11. QED
    BY SMTT(40), <2>4, <2>8, <2>9, <2>10 DEF r, S, h, TxResult
<1>8. QED
  BY SMTT(40), <1>6, <1>7

-----------------------------------------------------------------------------
(* The receive ring *)

\* Exactly the descriptors in use have a buffer, and the card owns no other.
RxRing(s) ==
  /\ Count(s.rx) <= RTL_NUM_DESC /\ s.rx_iobuf = Window(s.rx)
  /\ \A k \in Slots : s.rx.desc[k].own => k \in Window(s.rx) /\ s.rx.desc[k].eor = IsLast(k)

SameBesidesRx(s, t) ==
  /\ t.held = s.held /\ t.legacy = s.legacy /\ t.up = s.up /\ t.tx = s.tx
  /\ t.offset = s.offset /\ t.pc = s.pc /\ t.seen = s.seen

\* The slots that realtek_refill_rx() fills.
Filled(s, n) == {Index(s.rx.prod + k) : k \in 0..(n - 1)}

LEMMA RefillUpdate ==
  ASSUME NEW s \in Rtls, NEW n \in Nat
  PROVE  LET t == RefillRx(s, n)
         IN /\ t \in Rtls /\ SameBesidesRx(s, t) /\ t.rx \in RingType
            /\ t.rx.prod = (s.rx.prod + n) % CounterMod /\ t.rx.cons = s.rx.cons
            /\ \A k \in Slots : t.rx.desc[k] = IF k \in Filled(s, n) THEN Populate(k, None)
                                               ELSE s.rx.desc[k]
            /\ t.rx_iobuf = s.rx_iobuf \cup Filled(s, n) /\ Filled(s, n) \subseteq Slots
<1> DEFINE t == RefillRx(s, n)
           F == Filled(s, n)
           p == (s.rx.prod + n) % CounterMod
           e == [k \in Slots |-> IF k \in F THEN Populate(k, None) ELSE s.rx.desc[k]]
           u == [s.rx EXCEPT !.prod = p, !.desc = e]
<1>1. /\ s.rx \in RingType /\ s.rx.prod \in Nat /\ s.rx.desc \in [Slots -> Descs]
      /\ s.rx_iobuf \subseteq Slots
  BY Sizes DEF Rtls, RingType
<1>2. p \in 0..(CounterMod - 1)
  <2>1. s.rx.prod + n \in Nat
    BY <1>1
  <2>2. QED
    BY Zenon, <2>1, Sizes, DivMod
<1>3. F \subseteq Slots
  BY <1>1, IndexType DEF Filled
<1>4. t = [s EXCEPT !.rx = u, !.rx_iobuf = s.rx_iobuf \cup F]
  BY Zenon, <1>1 DEF RefillRx, Filled, Rtls, RingType
<1> HIDE DEF F, p
<1>5. e \in [Slots -> Descs]
  BY <1>1, PopulateType
<1>6. \A k \in Slots : e[k] = IF k \in F THEN Populate(k, None) ELSE s.rx.desc[k]
  OBVIOUS
<1> HIDE DEF e, t
<1>7. u \in RingType /\ u.prod = p /\ u.cons = s.rx.cons /\ u.desc = e
  BY Zenon, <1>1, <1>2, <1>5 DEF RingType
<1> HIDE DEF u
<1>8. t.rx = u /\ t.rx_iobuf = s.rx_iobuf \cup F /\ t \in Rtls /\ SameBesidesRx(s, t)
  BY Zenon, <1>1, <1>3, <1>4, <1>7 DEF Rtls, SameBesidesRx
<1>9. QED
  BY <1>3, <1>6, <1>7, <1>8 DEF t, F, p

\* realtek_refill_rx(), as far as memory goes.
LEMMA RefillKeeps ==
  ASSUME NEW s \in Rtls, RxRing(s), NEW n \in Refills(s)
  PROVE  LET t == RefillRx(s, n)
         IN /\ t \in Rtls /\ SameBesidesRx(s, t) /\ RxRing(t)
            /\ Back(t.rx) => Back(s.rx)
<1> DEFINE t == RefillRx(s, n)
           F == Filled(s, n)
<1>1. /\ s.rx \in RingType /\ Count(s.rx) \in Nat /\ RTL_NUM_DESC \in Nat
      /\ s.rx.prod \in Nat /\ s.rx.cons \in Nat
  BY Sizes, CountValue DEF Rtls, RingType
<1>2. n \in Nat /\ Count(s.rx) + n <= RTL_NUM_DESC
  BY <1>1 DEF Refills, Room, RxRing
<1>3. /\ t \in Rtls /\ SameBesidesRx(s, t) /\ t.rx \in RingType
      /\ t.rx.prod = (s.rx.prod + n) % CounterMod /\ t.rx.cons = s.rx.cons
      /\ \A k \in Slots : t.rx.desc[k] = IF k \in F THEN Populate(k, None)
                                         ELSE s.rx.desc[k]
      /\ t.rx_iobuf = s.rx_iobuf \cup F /\ F \subseteq Slots
  BY <1>2, RefillUpdate
<1> HIDE DEF t, F
<1>4. /\ Count(t.rx) = Count(s.rx) + n
      /\ Window(t.rx) = Window(s.rx) \cup F
  <2>1. /\ Count(t.rx) = Count(s.rx) + n
        /\ Window(t.rx) = Window(s.rx) \cup {Index(s.rx.prod + k) : k \in 0..(n - 1)}
    BY ZenonT(40), <1>1, <1>2, <1>3, Produced
  <2>2. QED
    BY <2>1 DEF F, Filled
<1>5. \A k \in Slots : Populate(k, None).own /\ Populate(k, None).eor = IsLast(k)
  BY PopulateType
<1>6. ASSUME NEW k \in Slots, t.rx.desc[k].own
      PROVE  k \in Window(t.rx) /\ t.rx.desc[k].eor = IsLast(k)
  <2>1. CASE k \in F
    BY <2>1, <1>3, <1>4, <1>5
  <2>2. CASE k \notin F
    BY <2>2, <1>3, <1>4, <1>6 DEF RxRing
  <2>3. QED
    BY <2>1, <2>2
<1>7. RxRing(t)
  BY <1>1, <1>2, <1>3, <1>4, <1>6 DEF RxRing
<1>8. Back(t.rx) => Back(s.rx)
  <2> SUFFICES ASSUME Back(t.rx) PROVE Back(s.rx)
    OBVIOUS
  <2>1. Index(s.rx.cons) \in Slots /\ ~t.rx.desc[Index(s.rx.cons)].own
    BY <1>1, <1>3, IndexType DEF Back
  <2>2. Index(s.rx.cons) \notin F
    BY <1>3, <1>5, <2>1
  <2>3. s.rx.cons # s.rx.prod
    <3> SUFFICES ASSUME s.rx.cons = s.rx.prod PROVE FALSE
      OBVIOUS
    <3>1. CASE n = 0
      <4>1. s.rx.prod \in 0..(CounterMod - 1) /\ s.rx.prod + n = s.rx.prod
        BY <1>1, <3>1 DEF RingType
      <4>2. t.rx.prod = s.rx.prod
        BY <1>3, <4>1, ModSmall, Sizes
      <4>3. QED
        BY <1>3, <4>2 DEF Back
    <3>2. CASE n # 0
      <4>1. 0 \in 0..(n - 1) /\ s.rx.prod + 0 = s.rx.prod
        BY <1>1, <1>2, <3>2
      <4>2. Index(s.rx.prod) \in F
        BY <4>1 DEF F, Filled
      <4>3. QED
        BY <2>2, <4>2
    <3>3. QED
      BY <3>1, <3>2
  <2>4. QED
    BY <1>3, <2>1, <2>2, <2>3 DEF Back
<1>9. QED
  BY <1>3, <1>7, <1>8 DEF t

\* One buffer handed to the network layer.
RxTake(s) == [s EXCEPT !.rx_iobuf = @ \ {Index(s.rx.cons)}, !.rx.cons = Inc(@)]

LEMMA RxTakeKeeps ==
  ASSUME NEW s \in Rtls, RxRing(s), Back(s.rx)
  PROVE  LET t == RxTake(s)
         IN t \in Rtls /\ SameBesidesRx(s, t) /\ RxRing(t)
<1> DEFINE t == RxTake(s)
           k == Index(s.rx.cons)
           u == [s.rx EXCEPT !.cons = Inc(s.rx.cons)]
<1>1. /\ s.rx \in RingType /\ Inc(s.rx.cons) \in 0..(CounterMod - 1)
      /\ Count(s.rx) \in Nat /\ Count(s.rx) > 0 /\ Count(s.rx) <= RTL_NUM_DESC
  <2>1. s.rx \in RingType /\ Inc(s.rx.cons) \in 0..(CounterMod - 1)
    BY Sizes DEF Rtls, RingType, Inc
  <2>2. QED
    BY <2>1, CountValue, Sizes DEF RxRing, Back
<1>2. /\ u \in RingType /\ u.prod = s.rx.prod /\ u.cons = Inc(s.rx.cons)
      /\ u.desc = s.rx.desc
  BY <1>1 DEF RingType
<1>3. t = [s EXCEPT !.rx_iobuf = s.rx_iobuf \ {k}, !.rx = u]
  BY <1>1 DEF Rtls, RingType, RxTake
<1> HIDE DEF u, t, k
<1>4. t.rx = u /\ t.rx_iobuf = s.rx_iobuf \ {k} /\ t \in Rtls /\ SameBesidesRx(s, t)
  BY Zenon, <1>2, <1>3 DEF Rtls, SameBesidesRx
<1>5. Count(u) = Count(s.rx) - 1 /\ Window(u) = Window(s.rx) \ {k}
  <2>1. Count(u) = Count(s.rx) - 1 /\ Window(u) = Window(s.rx) \ {Index(s.rx.cons)}
    BY <1>1, <1>2, Consumed
  <2>2. QED
    BY <2>1 DEF k
<1>6. ~s.rx.desc[k].own
  BY DEF Back, k
<1>7. Count(u) <= RTL_NUM_DESC
  BY <1>1, <1>5, Sizes
<1>8. RxRing(t)
  BY <1>2, <1>4, <1>5, <1>6, <1>7 DEF RxRing
<1>9. QED
  BY <1>4, <1>8 DEF t

\* The driver's state with a descriptor that the card has given back.
TxGiven(s, k) == [s EXCEPT !.tx.desc[k].own = FALSE]
RxGiven(s, k) == [s EXCEPT !.rx.desc[k].own = FALSE]

\* A descriptor of the driver's, otherwise like x.
Disowned(x) == [x EXCEPT !.own = FALSE]

LEMMA DisownedType ==
  ASSUME NEW x \in Descs
  PROVE  Disowned(x) \in Descs /\ ~Disowned(x).own /\ Disowned(x).pkt = x.pkt
BY Zenon DEF Disowned, Descs

LEMMA TxGivenKeeps ==
  ASSUME NEW s \in Rtls, NEW k \in Slots, NEW q, NEW d, NEW sent,
         TxRing(s.tx, q, d, sent), s.tx.desc[k].own
  PROVE  LET t == TxGiven(s, k)
         IN /\ t \in Rtls /\ SameBesidesTx(s, t)
            /\ TxRing(t.tx, q, d, sent \cup {s.tx.desc[k].pkt})
            /\ Count(t.tx) = Count(s.tx)
<1> DEFINE t == TxGiven(s, k)
           r == s.tx
           x == Disowned(r.desc[k])
           u == SetDesc(r, k, x)
<1>1. r \in RingType /\ r.desc[k] \in Descs
  BY DEF Rtls, RingType
<1>2. x \in Descs /\ ~x.own /\ x.pkt = r.desc[k].pkt
  BY <1>1, DisownedType
<1>3. t = [s EXCEPT !.tx = u]
  BY <1>1 DEF Rtls, RingType, TxGiven, SetDesc, Disowned
<1> HIDE DEF x, t
<1>4. /\ u \in RingType /\ u.prod = r.prod /\ u.cons = r.cons
      /\ u.desc = [r.desc EXCEPT ![k] = x]
  BY <1>1, <1>2, DescSet
<1> HIDE DEF u
<1>5. t.tx = u /\ t \in Rtls /\ SameBesidesTx(s, t)
  BY <1>3, <1>4 DEF Rtls, SameBesidesTx
<1>6. TxRing(u, q, d, sent \cup {r.desc[k].pkt})
  <2>1. TxRing(r, q, d, sent) /\ r.desc[k].own
    OBVIOUS
  <2> HIDE DEF r
  <2>2. QED
    BY <1>1, <1>2, <1>4, <2>1, RingSent
<1>7. Count(u) = Count(r)
  BY <1>4 DEF Count
<1>8. QED
  BY <1>5, <1>6, <1>7 DEF t

LEMMA RxGivenKeeps ==
  ASSUME NEW s \in Rtls, NEW k \in Slots, RxRing(s)
  PROVE  LET t == RxGiven(s, k)
         IN t \in Rtls /\ SameBesidesRx(s, t) /\ RxRing(t)
<1> DEFINE t == RxGiven(s, k)
           r == s.rx
           x == Disowned(r.desc[k])
           u == SetDesc(r, k, x)
<1>1. r \in RingType /\ r.desc[k] \in Descs
  BY DEF Rtls, RingType
<1>2. x \in Descs /\ ~x.own
  BY <1>1, DisownedType
<1>3. t = [s EXCEPT !.rx = u]
  BY <1>1 DEF Rtls, RingType, RxGiven, SetDesc, Disowned
<1> HIDE DEF x, t
<1>4. /\ u \in RingType /\ u.prod = r.prod /\ u.cons = r.cons
      /\ u.desc = [r.desc EXCEPT ![k] = x]
  BY <1>1, <1>2, DescSet
<1> HIDE DEF u
<1>5. t.rx = u /\ t.rx_iobuf = s.rx_iobuf /\ t \in Rtls /\ SameBesidesRx(s, t)
  BY <1>3, <1>4 DEF Rtls, SameBesidesRx
<1>6. Count(u) = Count(r) /\ Window(u) = Window(r)
  BY <1>4 DEF Count, Window
<1>7. u.desc[k] = x /\ \A i \in Slots \ {k} : u.desc[i] = r.desc[i]
  BY <1>1, <1>4 DEF RingType
<1>8. RxRing(t)
  BY <1>2, <1>5, <1>6, <1>7 DEF RxRing
<1>9. QED
  BY <1>5, <1>8 DEF t

-----------------------------------------------------------------------------
(* The inductive invariant *)

Legacies == [off : Offsets, len : Lengths]
Cards == [chip : Chips, on : BOOLEAN, tx : Slots, rx : Slots, kick : BOOLEAN,
          isr : SUBSET Bits, sent : SUBSET (Packets \cup {None}),
          queue : Seq(Legacies), offset : Offsets, link : BOOLEAN, load : Workloads]
Buses == [st : {"scan", "done", "removed"}, pci : BOOLEAN, children : BOOLEAN]

Types == bus \in Buses /\ rtl \in Rtls /\ netdev \in Netdevs /\ card \in Cards

\* Packets are deferred only while the transmit ring is full.
TxState(s, nd, c) == /\ TxRing(s.tx, nd.queue, nd.deferred, c.sent)
                     /\ nd.deferred # << >> => Count(s.tx) = RTL_NUM_DESC

\* A closed device is not polled and holds nothing, and the card is off.
Rests(s, nd, c) ==
  ~s.up => /\ s.tx = Ring /\ s.rx = Ring /\ s.rx_iobuf = {} /\ s.offset = 0
           /\ s.pc = "idle" /\ ~c.on /\ c.queue = << >>
           /\ nd.queue = << >> /\ nd.deferred = << >>

\* What is held belongs to a child of the bus.
Holding(b, s) == /\ s.held # {} <=> b.children
                 /\ b.st # "scan" => (b.pci <=> b.children)
                 /\ b.st = "scan" => ~b.children
                 /\ s.up => b.children

\* A descriptor that is back, or a change of the link, is in the interrupt
\* status, or in what a poll that has still to come to it has read of it.
Noticed(s, nd, c) ==
  /\ Back(s.tx) => "TOK" \in c.isr \/ (s.pc \in {"ack", "tx"} /\ "TOK" \in s.seen)
  /\ Back(s.rx) => "ROK" \in c.isr \/ (s.pc \in {"ack", "tx", "rx"} /\ "ROK" \in s.seen)
  /\ s.legacy => ~Back(s.rx)
  /\ s.up => \/ nd.link = c.link \/ "LINK" \in c.isr
             \/ s.pc # "idle" /\ "LINK" \in s.seen

\* The packets of the legacy buffer follow one another, from the driver's
\* offset up to the card's.
Chained(q, from, to) ==
  /\ q = << >> => to = from
  /\ q # << >> => /\ q[1].off = from
                  /\ to = NextOffset(q[Len(q)].off, q[Len(q)].len)
  /\ \A i \in 1..(Len(q) - 1) : q[i + 1].off = NextOffset(q[i].off, q[i].len)

Sound == /\ Types /\ TxState(rtl, netdev, card) /\ RxRing(rtl)
         /\ Rests(rtl, netdev, card) /\ Holding(bus, rtl) /\ Noticed(rtl, netdev, card)
         /\ rtl.up => Chained(card.queue, rtl.offset, card.offset)

LEMMA EmptyRing ==
  /\ Ring \in RingType /\ Count(Ring) = 0 /\ Window(Ring) = {} /\ ~Back(Ring)
  /\ \A sent : TxRing(Ring, << >>, << >>, sent)
  /\ \A s : s.rx = Ring /\ s.rx_iobuf = {} => RxRing(s)
<1>1. Ring \in RingType /\ Ring.prod = 0 /\ Ring.cons = 0
      /\ \A k \in Slots : ~Ring.desc[k].own
  BY Sizes DEF Ring, RingType, Descs, Free, None
<1>2. Count(Ring) = 0
  BY <1>1, CountValue, Sizes
<1>3. Window(Ring) = {}
  BY <1>2 DEF Window
<1>4. ~Back(Ring)
  BY <1>1 DEF Back
<1>5. ASSUME NEW sent PROVE TxRing(Ring, << >>, << >>, sent)
  <2>1. Len(<< >>) = 0 /\ Apart(<< >>, << >>)
    BY DEF Apart
  <2> HIDE DEF Ring
  <2>2. QED
    BY <1>1, <1>2, <2>1, Sizes DEF TxRing
<1>6. ASSUME NEW s, s.rx = Ring, s.rx_iobuf = {} PROVE RxRing(s)
  <2> HIDE DEF Ring
  <2>1. QED
    BY <1>1, <1>2, <1>3, <1>6, Sizes DEF RxRing
<1>7. QED
  BY <1>1, <1>2, <1>3, <1>4, <1>5, <1>6

LEMMA OffsetsType ==
  /\ 0 \in Offsets
  /\ \A off \in Offsets : \A len \in Lengths : NextOffset(off, len) \in Offsets
<1> DEFINE n == RTL_RXBUF_LEN \div 4
<1>1. n \in Nat \ {0} /\ RTL_RXBUF_LEN = 4 * n
  BY NicConstantsOK
<1> HIDE DEF n
<1>2. Offsets = {4 * k : k \in 0..(n - 1)}
  BY DEF Offsets, n
<1>3. 0 \in Offsets
  <2>1. 0 \in 0..(n - 1) /\ 4 * 0 = 0
    BY <1>1
  <2>2. QED
    BY <1>2, <2>1
<1>4. ASSUME NEW off \in Offsets, NEW len \in Lengths
      PROVE  NextOffset(off, len) \in Offsets
  <2> DEFINE x == off + 4 + len + 3
             y == x \div 4
  <2>1. x \in Nat
    BY <1>1, <1>2, NicConstantsOK
  <2> HIDE DEF x
  <2>2. y \in Nat
    BY <2>1
  <2> HIDE DEF y
  <2>3. NextOffset(off, len) = (4 * y) % (4 * n) /\ y * 4 = 4 * y
    <3>1. y * 4 = 4 * y
      BY <2>2
    <3>2. NextOffset(off, len) = (y * 4) % RTL_RXBUF_LEN
      BY DEF NextOffset, x, y
    <3>3. QED
      BY <1>1, <3>1, <3>2
  <2>4. NextOffset(off, len) = 4 * (y % n)
    BY Zenon, <1>1, <2>2, <2>3, ModTimesFour
  <2>5. y % n \in 0..(n - 1)
    BY <1>1, <2>2, DivMod
  <2>6. QED
    BY <1>2, <2>4, <2>5
<1>5. QED
  BY <1>3, <1>4

\* The card rounds the length up, the driver the end: the same for packets
\* that begin at multiples of four.
LEMMA CardOffset ==
  ASSUME NEW off \in Offsets, NEW len \in Lengths
  PROVE  (off + 4 + len + ((4 - (len % 4)) % 4)) % RTL_RXBUF_LEN = NextOffset(off, len)
<1>1. PICK k \in Nat : off = 4 * k
  BY NicConstantsOK DEF Offsets
<1>2. len \in Nat
  BY NicConstantsOK
<1>3. off + 4 + len + ((4 - (len % 4)) % 4) = ((off + 4 + len + 3) \div 4) * 4
  BY <1>1, <1>2
<1>4. QED
  BY <1>3 DEF NextOffset

LEMMA ClosedType ==
  ASSUME NEW chip \in Chips, NEW held \in SUBSET Resources
  PROVE  LET s == Closed(chip, held)
         IN /\ s \in Rtls /\ ~s.up /\ s.tx = Ring /\ s.rx = Ring /\ s.rx_iobuf = {}
            /\ s.offset = 0 /\ s.pc = "idle" /\ s.held = held
BY ZenonT(40), EmptyRing, OffsetsType DEF Closed, Rtls, Detect

LEMMA Initially == Init => Sound
<1> SUFFICES ASSUME NEW chip \in Chips, NEW load \in Workloads,
                    bus = [st |-> "scan", pci |-> FALSE, children |-> FALSE],
                    rtl = Closed(chip, {}), netdev = NoNetdev, card = NoCard(chip, load)
             PROVE  Sound
  BY DEF Init
<1> USE EmptyRing
<1>1. Types
  <2>1. rtl \in Rtls
    <3>1. {} \in SUBSET Resources
      OBVIOUS
    <3>2. QED
      BY SMTT(40), <3>1, ClosedType
  <2>2. bus \in Buses /\ netdev \in Netdevs
    BY SMTT(40) DEF Buses, Netdevs, NoNetdev
  <2>3. card \in Cards
    <3>1. 0 \in Slots /\ 0 \in Offsets
      BY SMTT(40), OffsetsType, Sizes DEF Slots
    <3> HIDE DEF Slots
    <3>2. QED
      BY <3>1 DEF Cards, NoCard
  <2>4. QED
    BY SMTT(40), <2>1, <2>2, <2>3 DEF Types
<1>2. /\ rtl.tx = Ring /\ rtl.rx = Ring /\ rtl.rx_iobuf = {} /\ ~rtl.up /\ rtl.offset = 0
      /\ rtl.held = {} /\ rtl.pc = "idle"
  BY DEF Closed
<1>3. netdev.queue = << >> /\ netdev.deferred = << >> /\ card.queue = << >> /\ ~card.on
  BY ZenonT(40) DEF NoNetdev, NoCard
<1>4. RxRing(rtl)
  BY SMTT(40), <1>2
<1>5. QED
  BY <1>1, <1>2, <1>3, <1>4 DEF Sound, TxState, Rests, Holding, Noticed

-----------------------------------------------------------------------------
(* One lemma for each action *)

\* What the inductive invariant says of a closed device, with nothing left.
LEMMA ClosedSound ==
  ASSUME Types', ~rtl'.up, rtl'.tx = Ring, rtl'.rx = Ring, rtl'.rx_iobuf = {},
         rtl'.offset = 0, rtl'.pc = "idle", ~card'.on, card'.queue = << >>,
         netdev'.queue = << >>, netdev'.deferred = << >>, Holding(bus', rtl')
  PROVE  Sound'
<1>1. TxState(rtl', netdev', card') /\ RxRing(rtl')
  BY SMTT(40), EmptyRing DEF TxState
<1>2. Rests(rtl', netdev', card') /\ Noticed(rtl', netdev', card')
  BY EmptyRing DEF Rests, Noticed
<1>3. QED
  BY <1>1, <1>2 DEF Sound

LEMMA LinkChecked ==
  ASSUME NEW nd \in Netdevs, card \in Cards
  PROVE  /\ CheckLink(nd) \in Netdevs /\ CheckLink(nd).queue = nd.queue
         /\ CheckLink(nd).deferred = nd.deferred /\ CheckLink(nd).link = card.link
BY DEF Netdevs, Cards, CheckLink

LEMMA PciProbeSound == Sound /\ PciProbe => Sound'
<1> SUFFICES ASSUME Sound, PciProbe PROVE Sound'
  OBVIOUS
<1>1. /\ Types /\ ~rtl.up /\ ~card.on /\ card.queue = << >> /\ card' = card
      /\ netdev.queue = << >> /\ netdev.deferred = << >> /\ card.chip \in Chips
  BY Zenon DEF Sound, PciProbe, Holding, Rests, Types, Cards
<1>2. CASE \E k \in 1..Len(Steps) :
             /\ rtl' = Closed(card.chip, Acquired(Steps[k]) \ Unwind(Steps[k]))
             /\ bus' = [st |-> "done", pci |-> FALSE, children |-> FALSE]
             /\ UNCHANGED netdev
  <2>1. PICK k \in 1..Len(Steps) :
          /\ rtl' = Closed(card.chip, Acquired(Steps[k]) \ Unwind(Steps[k]))
          /\ bus' = [st |-> "done", pci |-> FALSE, children |-> FALSE]
          /\ UNCHANGED netdev
    BY Zenon, <1>2
  <2>2. Acquired(Steps[k]) \ Unwind(Steps[k]) = {}
    BY DEF Acquired, Unwind, Steps
  <2>3. rtl' = Closed(card.chip, {})
    BY Zenon, <2>1, <2>2
  <2>4. /\ rtl' \in Rtls /\ ~rtl'.up /\ rtl'.tx = Ring /\ rtl'.rx = Ring
        /\ rtl'.rx_iobuf = {} /\ rtl'.offset = 0 /\ rtl'.pc = "idle" /\ rtl'.held = {}
    BY SMTT(40), <1>1, <2>3, ClosedType
  <2>5. Types' /\ Holding(bus', rtl')
    BY Zenon, <1>1, <2>1, <2>4 DEF Types, Buses, Holding
  <2>6. QED
    BY Zenon, <1>1, <2>1, <2>4, <2>5, ClosedSound
<1>3. CASE \E nvo \in SUBSET {"nvo"} :
             /\ rtl' = Closed(card.chip, {"netdev", "regs", "registered"} \cup nvo)
             /\ bus' = [st |-> "done", pci |-> TRUE, children |-> TRUE]
             /\ netdev' = CheckLink(netdev)
  <2>1. PICK nvo \in SUBSET {"nvo"} :
          /\ rtl' = Closed(card.chip, {"netdev", "regs", "registered"} \cup nvo)
          /\ bus' = [st |-> "done", pci |-> TRUE, children |-> TRUE]
          /\ netdev' = CheckLink(netdev)
    BY Zenon, <1>3
  <2> DEFINE held == {"netdev", "regs", "registered"} \cup nvo
  <2>2. held \in SUBSET Resources /\ held # {}
    BY DEF Resources
  <2>3. rtl' = Closed(card.chip, held)
    BY <2>1
  <2> HIDE DEF held
  <2>4. /\ rtl' \in Rtls /\ ~rtl'.up /\ rtl'.tx = Ring /\ rtl'.rx = Ring
        /\ rtl'.rx_iobuf = {} /\ rtl'.offset = 0 /\ rtl'.pc = "idle" /\ rtl'.held = held
    BY SMTT(40), <1>1, <2>2, <2>3, ClosedType
  <2>5. netdev' \in Netdevs /\ netdev'.queue = << >> /\ netdev'.deferred = << >>
    BY SMTT(40), <1>1, <2>1, LinkChecked DEF Types
  <2>6. Types' /\ Holding(bus', rtl')
    BY ZenonT(40), <1>1, <2>1, <2>2, <2>4, <2>5 DEF Types, Buses, Holding
  <2>7. QED
    BY <1>1, <2>4, <2>5, <2>6, ClosedSound
<1>4. QED
  BY Zenon, <1>2, <1>3 DEF PciProbe

LEMMA PciRemoveSound == Sound /\ PciRemove => Sound'
<1> SUFFICES ASSUME Sound, PciRemove PROVE Sound'
  OBVIOUS
<1>1. /\ Types /\ ~rtl.up /\ ~card.on /\ card.queue = << >> /\ card' = card
      /\ netdev' = netdev /\ netdev.queue = << >> /\ netdev.deferred = << >>
      /\ card.chip \in Chips
      /\ bus' = [st |-> "removed", pci |-> FALSE, children |-> FALSE]
  BY Zenon DEF Sound, PciRemove, Rests, Types, Cards
<1>2. rtl.held \ {"nvo", "registered", "regs", "netdev"} = {}
  BY <1>1 DEF Types, Rtls, Resources
<1>3. rtl' = Closed(card.chip, {})
  BY ZenonT(40), <1>2 DEF PciRemove, Remove
<1>4. /\ rtl' \in Rtls /\ ~rtl'.up /\ rtl'.tx = Ring /\ rtl'.rx = Ring
      /\ rtl'.rx_iobuf = {} /\ rtl'.offset = 0 /\ rtl'.pc = "idle" /\ rtl'.held = {}
  BY SMTT(40), <1>1, <1>3, ClosedType
<1>5. Types' /\ Holding(bus', rtl')
  BY <1>1, <1>4 DEF Types, Buses, Holding
<1>6. QED
  BY SMTT(40), <1>1, <1>4, <1>5, ClosedSound

LEMMA CloseSound == Sound /\ Close => Sound'
<1> SUFFICES ASSUME Sound, Close PROVE Sound'
  OBVIOUS
<1>1. /\ Types /\ rtl.up /\ rtl.pc = "idle" /\ bus' = bus /\ rtl' = CloseRings(rtl)
      /\ Holding(bus, rtl)
  BY DEF Sound, Close
<1>2. /\ rtl' \in Rtls /\ ~rtl'.up /\ rtl'.tx = Ring /\ rtl'.rx = Ring
      /\ rtl'.rx_iobuf = {} /\ rtl'.offset = 0 /\ rtl'.pc = "idle"
      /\ rtl'.held = rtl.held
  BY Zenon, <1>1, EmptyRing, OffsetsType DEF Types, Rtls, CloseRings
<1>3. netdev' \in Netdevs /\ netdev'.queue = << >> /\ netdev'.deferred = << >>
  <2>1. << >> \in Seq(Packets)
    OBVIOUS
  <2>2. netdev' = [netdev EXCEPT !.queue = << >>, !.deferred = << >>] /\ netdev \in Netdevs
    BY <1>1 DEF Close, Types
  <2>3. QED
    BY Zenon, <2>1, <2>2 DEF Netdevs
<1>4. card' \in Cards /\ ~card'.on /\ card'.queue = << >>
  <2> DEFINE isr == IF rtl.legacy THEN {} ELSE card.isr
             none == << >>
  <2>1. none \in Seq(Legacies) /\ isr \in SUBSET Bits
    BY <1>1 DEF Types, Cards
  <2>2. card \in Cards /\ card' = [card EXCEPT !.on = FALSE, !.kick = FALSE,
                              !.sent = {}, !.queue = none, !.isr = isr]
    BY <1>1 DEF Close, Types
  <2> HIDE DEF isr, none
  <2>3. card' \in Cards /\ ~card'.on /\ card'.queue = none
    BY Zenon, <2>1, <2>2 DEF Cards
  <2>4. QED
    BY <2>3 DEF none
<1>5. Types' /\ Holding(bus', rtl')
  BY <1>1, <1>2, <1>3, <1>4 DEF Types, Holding
<1>6. QED
  BY <1>2, <1>3, <1>4, <1>5, ClosedSound

LEMMA OpenSound == \A n \in 0..RTL_NUM_DESC : Sound /\ Open(n) => Sound'
<1> SUFFICES ASSUME NEW n \in 0..RTL_NUM_DESC, Sound, Open(n) PROVE Sound'
  OBVIOUS
<1> DEFINE s == [rtl EXCEPT !.up = TRUE]
<1>1. /\ Types /\ ~rtl.up /\ "registered" \in rtl.held /\ n \in Refills(rtl)
      /\ rtl' = RefillRx(s, n) /\ netdev' = CheckLink(netdev) /\ bus' = bus
      /\ card' = [card EXCEPT !.on = TRUE, !.tx = 0, !.rx = 0, !.offset = 0]
      /\ Holding(bus, rtl) /\ Rests(rtl, netdev, card)
  BY DEF Sound, Open
<1>2. /\ rtl.tx = Ring /\ rtl.rx = Ring /\ rtl.rx_iobuf = {} /\ rtl.offset = 0
      /\ rtl.pc = "idle" /\ card.queue = << >> /\ netdev.queue = << >>
      /\ netdev.deferred = << >>
  BY <1>1 DEF Rests
<1>3. /\ s \in Rtls /\ s.up /\ s.held = rtl.held /\ s.tx = Ring /\ s.rx = Ring
      /\ s.rx_iobuf = {} /\ s.offset = 0 /\ s.pc = "idle" /\ s.legacy = rtl.legacy
  BY Zenon, <1>1, <1>2 DEF Types, Rtls
<1> HIDE DEF s
<1>4. RxRing(s) /\ n \in Refills(s)
  BY <1>1, <1>2, <1>3, EmptyRing DEF Refills
<1>5. /\ rtl' \in Rtls /\ SameBesidesRx(s, rtl') /\ RxRing(rtl')
      /\ Back(rtl'.rx) => Back(s.rx)
  BY <1>1, <1>3, <1>4, RefillKeeps
<1>6. /\ rtl'.up /\ rtl'.held = rtl.held /\ rtl'.tx = Ring /\ rtl'.offset = 0
      /\ rtl'.pc = "idle" /\ ~Back(rtl'.rx) /\ ~Back(rtl'.tx)
  BY SMTT(40), <1>3, <1>5, EmptyRing DEF SameBesidesRx
<1>7. /\ netdev' \in Netdevs /\ netdev'.queue = << >> /\ netdev'.deferred = << >>
      /\ netdev'.link = card.link
  BY <1>1, <1>2, LinkChecked DEF Types
<1>8. /\ card' \in Cards /\ card'.queue = << >> /\ card'.offset = 0
      /\ card'.link = card.link
  <2>1. 0 \in Slots /\ 0 \in Offsets /\ card \in Cards
    BY <1>1, OffsetsType, Sizes DEF Types, Slots
  <2> HIDE DEF Slots
  <2>2. QED
    BY Zenon, <1>1, <1>2, <2>1 DEF Cards
<1>9. Types' /\ Holding(bus', rtl')
  BY <1>1, <1>5, <1>6, <1>7, <1>8 DEF Types, Holding
<1>10. TxState(rtl', netdev', card')
  BY <1>6, <1>7, EmptyRing DEF TxState
<1>11. Rests(rtl', netdev', card') /\ Noticed(rtl', netdev', card')
  BY <1>6, <1>7, <1>8 DEF Rests, Noticed
<1>12. Chained(card'.queue, rtl'.offset, card'.offset)
  BY <1>6, <1>8 DEF Chained
<1>13. QED
  BY <1>5, <1>9, <1>10, <1>11, <1>12 DEF Sound

\* What transmission leaves of the card and its status.
SameBesidesSent(c, e) ==
  /\ e \in Cards /\ e.on = c.on /\ e.isr = c.isr /\ e.queue = c.queue
  /\ e.offset = c.offset /\ e.link = c.link

LEMMA SentUpdate ==
  ASSUME NEW c \in Cards, NEW kick \in BOOLEAN, NEW p
  PROVE  LET e == [c EXCEPT !.kick = @ \/ kick, !.sent = @ \ {p}]
         IN SameBesidesSent(c, e) /\ e.sent = c.sent \ {p}
<1> DEFINE k == c.kick \/ kick
           S == c.sent \ {p}
           e == [c EXCEPT !.kick = k, !.sent = S]
<1>1. k \in BOOLEAN /\ S \in SUBSET (Packets \cup {None})
  BY DEF Cards
<1> HIDE DEF k, S
<1>2. SameBesidesSent(c, e) /\ e.sent = S
  BY ZenonT(40), <1>1 DEF Cards, SameBesidesSent
<1>3. QED
  BY <1>2 DEF k, S

LEMMA NetTxSound == \A mapped \in BOOLEAN : Sound /\ NetTx(mapped) => Sound'
<1> SUFFICES ASSUME NEW mapped \in BOOLEAN, Sound, NetTx(mapped) PROVE Sound'
  OBVIOUS
<1> DEFINE p == CHOOSE q \in Packets : q \notin Pending
           r == Transmit(rtl, netdev, p, mapped)
<1>1. /\ Types /\ rtl.up /\ TxState(rtl, netdev, card) /\ RxRing(rtl)
      /\ Holding(bus, rtl) /\ Noticed(rtl, netdev, card)
      /\ Chained(card.queue, rtl.offset, card.offset)
  BY DEF Sound, NetTx
<1>2. p \in Packets /\ p \notin Pending
  BY DEF NetTx
<1>3. /\ rtl' = r.rtl /\ netdev' = r.netdev /\ bus' = bus
      /\ card' = [card EXCEPT !.kick = @ \/ r.kick, !.sent = @ \ {p}]
  BY DEF NetTx
<1> HIDE DEF p
<1>4. NewPacket(p, netdev.queue, netdev.deferred)
  BY <1>2 DEF NewPacket, Pending
<1>5. /\ rtl \in Rtls /\ netdev \in Netdevs /\ card \in Cards
      /\ TxRing(rtl.tx, netdev.queue, netdev.deferred, card.sent)
      /\ netdev.deferred # << >> => Count(rtl.tx) >= RTL_NUM_DESC - 1
  BY <1>1, Sizes DEF TxState, Types
<1>6. /\ TxResult(r, rtl, netdev, card.sent \ {p})
      /\ Back(r.rtl.tx) => Back(rtl.tx)
  BY Zenon, <1>2, <1>4, <1>5, TransmitKeeps
<1> HIDE DEF r
<1>7. /\ rtl' \in Rtls /\ netdev' \in Netdevs /\ r.kick \in BOOLEAN
      /\ SameBesidesTx(rtl, rtl') /\ netdev'.link = netdev.link
      /\ TxRing(rtl'.tx, netdev'.queue, netdev'.deferred, card.sent \ {p})
      /\ netdev'.deferred # << >> => Count(rtl'.tx) = RTL_NUM_DESC
      /\ Back(rtl'.tx) => Back(rtl.tx)
  BY <1>3, <1>6 DEF TxResult
<1>8. SameBesidesSent(card, card') /\ card'.sent = card.sent \ {p}
  BY ZenonT(40), <1>3, <1>5, <1>7, SentUpdate
<1>9. Types' /\ Holding(bus', rtl') /\ TxState(rtl', netdev', card')
  BY <1>1, <1>3, <1>7, <1>8 DEF Types, Holding, SameBesidesTx, SameBesidesSent, TxState
<1>10. RxRing(rtl') /\ Rests(rtl', netdev', card')
  BY SMTT(40), <1>1, <1>7 DEF RxRing, Rests, SameBesidesTx
<1>11. Noticed(rtl', netdev', card') /\ Chained(card'.queue, rtl'.offset, card'.offset)
  BY SMTT(40), <1>1, <1>7, <1>8 DEF Noticed, SameBesidesTx, SameBesidesSent
<1>12. QED
  BY <1>9, <1>10, <1>11 DEF Sound

LEMMA PollStatusSound == Sound /\ PollStatus => Sound'
<1> SUFFICES ASSUME Sound, PollStatus PROVE Sound'
  OBVIOUS
<1>1. /\ Types /\ rtl.up /\ rtl.pc = "idle" /\ TxState(rtl, netdev, card) /\ RxRing(rtl)
      /\ Holding(bus, rtl) /\ Noticed(rtl, netdev, card)
      /\ Chained(card.queue, rtl.offset, card.offset)
      /\ rtl' = [rtl EXCEPT !.pc = "ack", !.seen = card.isr]
      /\ bus' = bus /\ netdev' = netdev /\ card' = card
  BY DEF Sound, PollStatus
<1>2. /\ rtl' \in Rtls /\ rtl'.pc = "ack" /\ rtl'.seen = card.isr /\ rtl'.up
      /\ rtl'.held = rtl.held /\ rtl'.legacy = rtl.legacy
      /\ rtl'.tx = rtl.tx /\ rtl'.rx = rtl.rx
      /\ rtl'.rx_iobuf = rtl.rx_iobuf /\ rtl'.offset = rtl.offset
  BY ZenonT(40), <1>1 DEF Types, Rtls, Cards
<1>3. Types' /\ Holding(bus', rtl') /\ TxState(rtl', netdev', card')
  BY <1>1, <1>2 DEF Types, Holding, TxState
<1>4. RxRing(rtl') /\ Rests(rtl', netdev', card') /\ Noticed(rtl', netdev', card')
  BY <1>1, <1>2 DEF RxRing, Rests, Noticed
<1>5. QED
  BY <1>1, <1>2, <1>3, <1>4 DEF Sound

\* Steps that touch neither rings, queues nor buffers of an open device.
SameRings(s, t) ==
  /\ t.held = s.held /\ t.legacy = s.legacy /\ t.up = s.up /\ t.tx = s.tx
  /\ t.rx = s.rx /\ t.rx_iobuf = s.rx_iobuf /\ t.offset = s.offset

LEMMA FrameSound ==
  ASSUME Sound, rtl.up, bus' = bus, rtl' \in Rtls, SameRings(rtl, rtl'),
         netdev' = netdev, card' \in Cards, card'.sent = card.sent,
         card'.queue = card.queue, card'.offset = card.offset,
         Noticed(rtl', netdev', card')
  PROVE  Sound'
<1>1. Types' /\ Holding(bus', rtl') /\ TxState(rtl', netdev', card')
  BY DEF Sound, Types, Holding, TxState, SameRings
<1>2. RxRing(rtl') /\ Rests(rtl', netdev', card')
  BY DEF Sound, RxRing, Rests, SameRings
<1>3. Chained(card'.queue, rtl'.offset, card'.offset)
  BY DEF Sound, SameRings
<1>4. QED
  BY <1>1, <1>2, <1>3 DEF Sound

LEMMA GotoType ==
  ASSUME NEW s \in Rtls, NEW pc \in {"idle", "ack", "tx", "rx", "refill"}
  PROVE  /\ Goto(s, pc) \in Rtls /\ SameRings(s, Goto(s, pc)) /\ Goto(s, pc).pc = pc
         /\ Goto(s, pc).seen = s.seen
BY DEF Goto, Rtls, SameRings

LEMMA PollAckSound == Sound /\ PollAck => Sound'
<1> SUFFICES ASSUME Sound, PollAck PROVE Sound'
  OBVIOUS
<1>1. /\ Types /\ rtl.pc = "ack" /\ Rests(rtl, netdev, card)
      /\ Noticed(rtl, netdev, card) /\ rtl' = Goto(rtl, "tx")
      /\ card' = [card EXCEPT !.isr = @ \ rtl.seen] /\ bus' = bus /\ netdev' = netdev
  BY DEF Sound, PollAck, Acknowledge
<1>2. rtl.up /\ rtl \in Rtls /\ card \in Cards
  BY <1>1 DEF Rests, Types
<1>3. /\ rtl' \in Rtls /\ SameRings(rtl, rtl') /\ rtl'.pc = "tx"
      /\ rtl'.seen = rtl.seen
  BY <1>1, <1>2, GotoType
<1>4. /\ card' \in Cards /\ card'.sent = card.sent /\ card'.queue = card.queue
      /\ card'.offset = card.offset /\ card'.link = card.link
      /\ card'.isr = card.isr \ rtl.seen
  BY <1>1, <1>2 DEF Cards
<1>5. Noticed(rtl', netdev', card')
  BY <1>1, <1>2, <1>3, <1>4 DEF Noticed, SameRings
<1>6. QED
  BY <1>1, <1>2, <1>3, <1>4, <1>5, FrameSound

\* realtek_poll_tx() and realtek_poll_rx() look at what Back() speaks of.
LEMMA DoneIsBack ==
  ASSUME NEW s
  PROVE  (TxDone(s) <=> Back(s.tx)) /\ (RxDone(s) <=> Back(s.rx))
BY DEF TxDone, RxDone, Back

LEMMA PollTxSound == \A mapped \in BOOLEAN : Sound /\ PollTx(mapped) => Sound'
<1> SUFFICES ASSUME NEW mapped \in BOOLEAN, Sound, PollTx(mapped) PROVE Sound'
  OBVIOUS
<1> DEFINE h == Head(netdev.queue)
           r == Complete(rtl, netdev, mapped)
<1>1. /\ Types /\ rtl.pc = "tx" /\ TxState(rtl, netdev, card) /\ RxRing(rtl)
      /\ Holding(bus, rtl) /\ Noticed(rtl, netdev, card) /\ Rests(rtl, netdev, card)
      /\ bus' = bus
  BY SMTT(40) DEF Sound, PollTx
<1>2. /\ rtl.up /\ rtl \in Rtls /\ netdev \in Netdevs /\ card \in Cards
      /\ Chained(card.queue, rtl.offset, card.offset)
  BY <1>1 DEF Rests, Types, Sound
<1>3. CASE PollTxMore(rtl)
  <2>1. /\ rtl' = r.rtl /\ netdev' = r.netdev
        /\ card' = [card EXCEPT !.kick = @ \/ r.kick, !.sent = @ \ {h}]
    BY SMTT(40), <1>3 DEF PollTx
  <2>2. /\ TxRing(rtl.tx, netdev.queue, netdev.deferred, card.sent) /\ Back(rtl.tx)
        /\ netdev.deferred # << >> => Count(rtl.tx) = RTL_NUM_DESC
        /\ "TOK" \in rtl.seen
    BY SMTT(40), <1>1, <1>3, DoneIsBack DEF TxState, PollTxMore
  <2>3. TxResult(r, rtl, netdev, card.sent \ {h})
    BY Zenon, <1>2, <2>2, CompleteKeeps
  <2> HIDE DEF r, h
  <2>4. /\ rtl' \in Rtls /\ netdev' \in Netdevs /\ r.kick \in BOOLEAN
        /\ SameBesidesTx(rtl, rtl') /\ netdev'.link = netdev.link
        /\ TxRing(rtl'.tx, netdev'.queue, netdev'.deferred, card.sent \ {h})
        /\ netdev'.deferred # << >> => Count(rtl'.tx) = RTL_NUM_DESC
    BY <2>1, <2>3 DEF TxResult
  <2>5. SameBesidesSent(card, card') /\ card'.sent = card.sent \ {h}
    BY ZenonT(40), <1>2, <2>1, <2>4, SentUpdate
  <2>6. Types' /\ Holding(bus', rtl') /\ TxState(rtl', netdev', card')
    BY SMTT(40), <1>1, <2>4, <2>5
       DEF Types, Holding, SameBesidesTx, SameBesidesSent, TxState
  <2>7. RxRing(rtl') /\ Rests(rtl', netdev', card')
    BY Zenon, <1>1, <1>2, <2>4 DEF RxRing, Rests, SameBesidesTx
  <2>8. Noticed(rtl', netdev', card') /\ Chained(card'.queue, rtl'.offset, card'.offset)
    BY Zenon, <1>1, <1>2, <2>2, <2>4, <2>5 DEF Noticed, SameBesidesTx, SameBesidesSent
  <2>9. QED
    BY <2>6, <2>7, <2>8 DEF Sound
<1>4. CASE ~PollTxMore(rtl)
  <2>1. rtl' = Goto(rtl, "rx") /\ netdev' = netdev /\ card' = card
    BY <1>4 DEF PollTx
  <2>2. /\ rtl' \in Rtls /\ SameRings(rtl, rtl') /\ rtl'.pc = "rx"
        /\ rtl'.seen = rtl.seen
    BY <1>2, <2>1, GotoType
  <2>3. Noticed(rtl', netdev', card')
    BY Zenon, <1>1, <1>4, <2>1, <2>2, DoneIsBack DEF Noticed, SameRings, PollTxMore
  <2>4. QED
    BY <1>1, <1>2, <2>1, <2>2, <2>3, FrameSound
<1>5. QED
  BY <1>3, <1>4

LEMMA PollRxSound == Sound /\ PollRx => Sound'
<1> SUFFICES ASSUME Sound, PollRx PROVE Sound'
  OBVIOUS
<1>1. /\ Types /\ rtl.pc = "rx" /\ TxState(rtl, netdev, card) /\ RxRing(rtl)
      /\ Holding(bus, rtl) /\ Noticed(rtl, netdev, card) /\ Rests(rtl, netdev, card)
      /\ ~rtl.legacy /\ bus' = bus /\ netdev' = netdev /\ card' = card
  BY SMTT(40) DEF Sound, PollRx
<1>2. /\ rtl.up /\ rtl \in Rtls /\ card \in Cards
      /\ Chained(card.queue, rtl.offset, card.offset)
  BY SMTT(40), <1>1 DEF Rests, Types, Sound
<1>3. CASE "ROK" \in rtl.seen /\ RxDone(rtl)
  <2>1. rtl' = RxTake(rtl) /\ Back(rtl.rx)
    BY <1>3, DoneIsBack DEF PollRx, RxTake
  <2>2. rtl' \in Rtls /\ SameBesidesRx(rtl, rtl') /\ RxRing(rtl')
    BY SMTT(40), <1>1, <1>2, <2>1, RxTakeKeeps
  <2>3. Types' /\ Holding(bus', rtl') /\ TxState(rtl', netdev', card')
    BY <1>1, <2>2 DEF Types, Holding, SameBesidesRx, TxState
  <2>4. Rests(rtl', netdev', card') /\ Noticed(rtl', netdev', card')
    BY Zenon, <1>1, <1>2, <1>3, <2>2 DEF Rests, Noticed, SameBesidesRx
  <2>5. QED
    BY <1>1, <1>2, <2>2, <2>3, <2>4 DEF Sound, SameBesidesRx
<1>4. CASE ~("ROK" \in rtl.seen /\ RxDone(rtl))
  <2>1. rtl' = Goto(rtl, "refill")
    BY <1>4 DEF PollRx
  <2>2. /\ rtl' \in Rtls /\ SameRings(rtl, rtl') /\ rtl'.pc = "refill"
        /\ rtl'.seen = rtl.seen
    BY <1>2, <2>1, GotoType
  <2>3. Noticed(rtl', netdev', card')
    BY ZenonT(40), <1>1, <1>4, <2>1, <2>2, DoneIsBack DEF Noticed, SameRings
  <2>4. QED
    BY <1>1, <1>2, <2>2, <2>3, FrameSound
<1>5. QED
  BY <1>3, <1>4

\* The first packet taken out of the legacy buffer, one more put into it.
LEMMA ChainedTail ==
  ASSUME NEW q \in Seq(Legacies), q # << >>, NEW from, NEW to, Chained(q, from, to)
  PROVE  /\ Chained(Tail(q), NextOffset(from, Head(q).len), to)
         /\ Tail(q) \in Seq(Legacies) /\ Head(q) \in Legacies
<1> DEFINE w == Tail(q)
           n == Len(q)
<1>1. /\ n \in Nat \ {0} /\ w \in Seq(Legacies) /\ Len(w) = n - 1 /\ Head(q) = q[1]
      /\ Head(q) \in Legacies /\ \A i \in 1..(n - 1) : w[i] = q[i + 1]
  OBVIOUS
<1>2. /\ q[1].off = from /\ to = NextOffset(q[n].off, q[n].len)
      /\ \A i \in 1..(n - 1) : q[i + 1].off = NextOffset(q[i].off, q[i].len)
  BY DEF Chained
<1> HIDE DEF w, n
<1>3. w = << >> <=> n = 1
  <2>1. w = << >> <=> Len(w) = 0
    BY <1>1
  <2>2. QED
    BY <1>1, <2>1
<1>4. CASE n = 1
  BY <1>1, <1>2, <1>3, <1>4 DEF Chained, w
<1>5. CASE n # 1
  <2>1. 1 \in 1..(n - 1) /\ n - 1 \in 1..(n - 1) /\ 1 + 1 = 2 /\ n - 1 + 1 = n
    BY <1>1, <1>5
  <2>2. w[1] = q[2] /\ w[n - 1] = q[n] /\ q[2].off = NextOffset(q[1].off, q[1].len)
    BY <1>1, <1>2, <2>1
  <2>3. ASSUME NEW i \in 1..(Len(w) - 1)
        PROVE  w[i + 1].off = NextOffset(w[i].off, w[i].len)
    <3>1. i \in 1..(n - 1) /\ i + 1 \in 1..(n - 1)
      BY <1>1
    <3>2. w[i] = q[i + 1] /\ w[i + 1] = q[(i + 1) + 1]
      BY <1>1, <3>1
    <3>3. QED
      BY <1>2, <3>1, <3>2
  <2>4. QED
    BY <1>1, <1>2, <1>3, <1>5, <2>2, <2>3 DEF Chained, w
<1>6. QED
  BY <1>4, <1>5

LEMMA ChainedAppend ==
  ASSUME NEW q \in Seq(Legacies), NEW from, NEW to, Chained(q, from, to),
         NEW m \in Legacies, m.off = to
  PROVE  /\ Chained(Append(q, m), from, NextOffset(to, m.len))
         /\ Append(q, m) \in Seq(Legacies)
<1> DEFINE w == Append(q, m)
           n == Len(q)
<1>1. /\ n \in Nat /\ w \in Seq(Legacies) /\ Len(w) = n + 1 /\ w # << >>
      /\ w[n + 1] = m /\ \A i \in 1..n : w[i] = q[i]
  OBVIOUS
<1>2. q = << >> <=> n = 0
  OBVIOUS
<1>3. /\ q = << >> => to = from
      /\ q # << >> => q[1].off = from /\ to = NextOffset(q[n].off, q[n].len)
      /\ \A i \in 1..(n - 1) : q[i + 1].off = NextOffset(q[i].off, q[i].len)
  BY DEF Chained
<1> HIDE DEF w, n
<1>4. w[1].off = from
  <2>1. CASE n = 0
    BY <1>1, <1>2, <1>3, <2>1
  <2>2. CASE n # 0
    <3>1. 1 \in 1..n
      BY <1>1, <2>2
    <3>2. QED
      BY <1>1, <1>2, <1>3, <2>2, <3>1
  <2>3. QED
    BY <2>1, <2>2
<1>5. ASSUME NEW i \in 1..(Len(w) - 1)
      PROVE  w[i + 1].off = NextOffset(w[i].off, w[i].len)
  <2>1. i \in 1..n /\ w[i] = q[i]
    BY <1>1
  <2>2. CASE i = n
    BY <1>1, <1>2, <1>3, <2>1, <2>2
  <2>3. CASE i # n
    <3>1. i \in 1..(n - 1) /\ i + 1 \in 1..n
      BY <1>1, <2>1, <2>3
    <3>2. QED
      BY <1>1, <1>3, <2>1, <3>1
  <2>4. QED
    BY <2>2, <2>3
<1>6. QED
  BY <1>1, <1>4, <1>5 DEF Chained, w

LEMMA LegacyPollRxSound == \A mem \in BOOLEAN : Sound /\ LegacyPollRx(mem) => Sound'
<1> SUFFICES ASSUME NEW mem \in BOOLEAN, Sound, LegacyPollRx(mem) PROVE Sound'
  OBVIOUS
<1> DEFINE m == Head(card.queue)
           more == "ROK" \in rtl.seen /\ card.queue # << >>
<1>1. /\ Types /\ rtl.pc = "rx" /\ TxState(rtl, netdev, card) /\ RxRing(rtl)
      /\ Holding(bus, rtl) /\ Noticed(rtl, netdev, card) /\ Rests(rtl, netdev, card)
      /\ rtl.legacy /\ bus' = bus /\ netdev' = netdev
  BY DEF Sound, LegacyPollRx
<1>2. /\ rtl.up /\ rtl \in Rtls /\ card \in Cards
      /\ Chained(card.queue, rtl.offset, card.offset)
  BY Zenon, <1>1 DEF Rests, Types, Sound
<1>3. CASE more /\ mem
  <2> DEFINE o == NextOffset(rtl.offset, m.len)
             w == Tail(card.queue)
  <2>1. rtl' = [rtl EXCEPT !.offset = o] /\ card' = [card EXCEPT !.queue = w]
    BY <1>2, <1>3 DEF LegacyPollRx, Rtls
  <2>2. /\ Chained(w, o, card.offset) /\ w \in Seq(Legacies) /\ m \in Legacies
    <3>1. card.queue \in Seq(Legacies) /\ card.queue # << >>
      BY SMTT(40), <1>2, <1>3 DEF Cards
    <3>2. QED
      BY <1>2, <3>1, ChainedTail
  <2>3. o \in Offsets
    BY <1>2, <2>2, OffsetsType DEF Rtls, Legacies
  <2> HIDE DEF o, w
  <2>4. /\ rtl' \in Rtls /\ rtl'.offset = o /\ rtl'.held = rtl.held /\ rtl'.up
        /\ rtl'.legacy = rtl.legacy /\ rtl'.tx = rtl.tx /\ rtl'.rx = rtl.rx
        /\ rtl'.rx_iobuf = rtl.rx_iobuf /\ rtl'.pc = rtl.pc /\ rtl'.seen = rtl.seen
    BY <1>2, <2>1, <2>3 DEF Rtls
  <2>5. /\ card' \in Cards /\ card'.queue = w /\ card'.offset = card.offset
        /\ card'.sent = card.sent /\ card'.isr = card.isr /\ card'.link = card.link
    BY Zenon, <1>2, <2>1, <2>2 DEF Cards
  <2>6. Types' /\ Holding(bus', rtl') /\ TxState(rtl', netdev', card')
    BY <1>1, <1>2, <2>4, <2>5 DEF Types, Holding, TxState
  <2>7. RxRing(rtl') /\ Rests(rtl', netdev', card') /\ Noticed(rtl', netdev', card')
    BY Zenon, <1>1, <2>4, <2>5 DEF RxRing, Rests, Noticed
  <2>8. QED
    BY <2>2, <2>4, <2>5, <2>6, <2>7 DEF Sound
<1>4. CASE ~(more /\ mem)
  <2>1. rtl' = Goto(rtl, "refill") /\ card' = card
    BY <1>4 DEF LegacyPollRx
  <2>2. /\ rtl' \in Rtls /\ SameRings(rtl, rtl') /\ rtl'.pc = "refill"
        /\ rtl'.seen = rtl.seen
    BY SMTT(40), <1>2, <2>1, GotoType
  <2>3. Noticed(rtl', netdev', card')
    BY <1>1, <2>1, <2>2 DEF Noticed, SameRings
  <2>4. QED
    BY <1>1, <1>2, <2>1, <2>2, <2>3, FrameSound
<1>5. QED
  BY <1>3, <1>4

LEMMA PollEndSound == \A n \in 0..RTL_NUM_DESC : Sound /\ PollEnd(n) => Sound'
<1> SUFFICES ASSUME NEW n \in 0..RTL_NUM_DESC, Sound, PollEnd(n) PROVE Sound'
  OBVIOUS
<1> DEFINE s == RefillRx(rtl, n)
<1>1. /\ Types /\ rtl.pc = "refill" /\ TxState(rtl, netdev, card) /\ RxRing(rtl)
      /\ Holding(bus, rtl) /\ Noticed(rtl, netdev, card) /\ Rests(rtl, netdev, card)
      /\ bus' = bus /\ card' = card /\ n \in Refills(rtl)
      /\ rtl' = [s EXCEPT !.pc = "idle", !.seen = {}]
      /\ netdev' = IF "LINK" \in rtl.seen THEN CheckLink(netdev) ELSE netdev
  BY DEF Sound, PollEnd
<1>2. /\ rtl.up /\ rtl \in Rtls /\ netdev \in Netdevs /\ card \in Cards
      /\ Chained(card.queue, rtl.offset, card.offset)
  BY <1>1 DEF Rests, Types, Sound
<1>3. /\ s \in Rtls /\ SameBesidesRx(rtl, s) /\ RxRing(s)
      /\ Back(s.rx) => Back(rtl.rx)
  BY <1>1, <1>2, RefillKeeps
<1> HIDE DEF s
<1>4. /\ rtl' \in Rtls /\ SameRings(s, rtl') /\ rtl'.pc = "idle"
  BY Zenon, <1>1, <1>3 DEF Rtls, SameRings
<1>5. /\ rtl'.held = rtl.held /\ rtl'.legacy = rtl.legacy /\ rtl'.up /\ rtl'.tx = rtl.tx
      /\ rtl'.offset = rtl.offset /\ rtl'.rx = s.rx /\ rtl'.rx_iobuf = s.rx_iobuf
  BY <1>2, <1>3, <1>4 DEF SameRings, SameBesidesRx
<1>6. /\ netdev' \in Netdevs /\ netdev'.queue = netdev.queue
      /\ netdev'.deferred = netdev.deferred
      /\ netdev'.link = IF "LINK" \in rtl.seen THEN card.link ELSE netdev.link
  BY <1>1, <1>2, LinkChecked
<1>7. Types' /\ Holding(bus', rtl') /\ TxState(rtl', netdev', card')
  BY <1>1, <1>2, <1>4, <1>5, <1>6 DEF Types, Holding, TxState
<1>8. RxRing(rtl') /\ Rests(rtl', netdev', card')
  BY <1>3, <1>5 DEF RxRing, Rests
<1>9. Noticed(rtl', netdev', card')
  BY <1>1, <1>2, <1>3, <1>4, <1>5, <1>6 DEF Noticed
<1>10. QED
  BY <1>1, <1>2, <1>5, <1>7, <1>8, <1>9 DEF Sound

-----------------------------------------------------------------------------
(* The card *)

\* The card's position stays in the ring, because the last descriptor says
\* that it is the last.
LEMMA AfterInRing ==
  ASSUME NEW k \in Slots, NEW eor \in BOOLEAN, eor = IsLast(k)
  PROVE  After(k, eor) \in Slots
<1>1. CASE eor
  BY <1>1, Sizes DEF After, Slots
<1>2. CASE ~eor
  <2>1. ~IsLast(k)
    BY <1>2, Zenon
  <2>2. k + 1 \in Slots
    BY <2>1, Sizes DEF IsLast, Slots
  <2>3. QED
    BY <1>2, <2>2 DEF After
<1>3. QED
  BY <1>1, <1>2

LEMMA Running == Sound /\ card.on => rtl.up
BY DEF Sound, Rests

LEMMA CardSendSound == Sound /\ CardSend => Sound'
<1> SUFFICES ASSUME Sound, CardSend PROVE Sound'
  OBVIOUS
<1> DEFINE k == card.tx
           d == rtl.tx.desc[k]
           a == After(k, d.eor)
           i == Raise("TOK")
           S == card.sent \cup {d.pkt}
<1>1. /\ Types /\ TxState(rtl, netdev, card) /\ RxRing(rtl) /\ card.on
      /\ Holding(bus, rtl) /\ Noticed(rtl, netdev, card)
      /\ k \in Slots /\ d.own /\ rtl' = TxGiven(rtl, k)
      /\ card' = [card EXCEPT !.tx = a, !.isr = i, !.sent = S]
      /\ bus' = bus /\ netdev' = netdev
  BY DEF Sound, CardSend, TxGiven
<1>2. /\ rtl.up /\ rtl \in Rtls /\ card \in Cards
      /\ Chained(card.queue, rtl.offset, card.offset)
      /\ TxRing(rtl.tx, netdev.queue, netdev.deferred, card.sent)
  BY <1>1, Running DEF Types, Sound, TxState
<1>3. d \in Descs /\ d.eor = IsLast(k)
  BY SMTT(40), <1>1, <1>2 DEF TxRing, Rtls, RingType
<1>4. a \in Slots /\ i \in SUBSET Bits /\ S \in SUBSET (Packets \cup {None})
  <2>1. a \in Slots
    BY <1>1, <1>3, AfterInRing DEF Descs
  <2>2. QED
    BY <1>2, <1>3, <2>1 DEF Raise, Bits, Cards, Descs
<1>5. /\ rtl' \in Rtls /\ SameBesidesTx(rtl, rtl') /\ Count(rtl'.tx) = Count(rtl.tx)
      /\ TxRing(rtl'.tx, netdev.queue, netdev.deferred, S)
  <2>1. rtl.tx.desc[k].own
    BY <1>1
  <2> HIDE DEF k
  <2>2. QED
    BY <1>1, <1>2, <2>1, TxGivenKeeps
<1>6. /\ "TOK" \in i /\ card.isr \subseteq i
  BY DEF Raise
<1> HIDE DEF a, i, S, d, k
<1>7. /\ card' \in Cards /\ card'.isr = i /\ card'.sent = S /\ card'.queue = card.queue
      /\ card'.offset = card.offset /\ card'.link = card.link
  BY Zenon, <1>1, <1>2, <1>4 DEF Cards
<1>8. Types' /\ Holding(bus', rtl') /\ TxState(rtl', netdev', card')
  BY <1>1, <1>5, <1>7 DEF Types, Holding, SameBesidesTx, TxState
<1>9. RxRing(rtl') /\ Rests(rtl', netdev', card')
  BY <1>1, <1>2, <1>5 DEF RxRing, Rests, SameBesidesTx
<1>10. Noticed(rtl', netdev', card')
  BY <1>1, <1>5, <1>6, <1>7 DEF Noticed, SameBesidesTx
<1>11. Chained(card'.queue, rtl'.offset, card'.offset)
  BY <1>2, <1>5, <1>7 DEF SameBesidesTx
<1>12. QED
  BY <1>8, <1>9, <1>10, <1>11 DEF Sound

LEMMA CardReceiveSound == Sound /\ CardReceive => Sound'
<1> SUFFICES ASSUME Sound, CardReceive PROVE Sound'
  OBVIOUS
<1> DEFINE k == card.rx
           d == rtl.rx.desc[k]
           a == After(k, d.eor)
           i == Raise("ROK")
<1>1. /\ Types /\ TxState(rtl, netdev, card) /\ RxRing(rtl) /\ card.on
      /\ Holding(bus, rtl) /\ Noticed(rtl, netdev, card) /\ ~rtl.legacy
      /\ k \in Slots /\ d.own /\ rtl' = RxGiven(rtl, k)
      /\ card' = [card EXCEPT !.rx = a, !.isr = i]
      /\ bus' = bus /\ netdev' = netdev
  BY DEF Sound, CardReceive, RxGiven
<1>2. /\ rtl.up /\ rtl \in Rtls /\ card \in Cards
      /\ Chained(card.queue, rtl.offset, card.offset)
  BY <1>1, Running DEF Types, Sound
<1>3. d \in Descs /\ d.eor = IsLast(k)
  BY <1>1, <1>2 DEF RxRing, Rtls, RingType
<1>4. a \in Slots /\ i \in SUBSET Bits
  <2>1. a \in Slots
    BY <1>1, <1>3, AfterInRing DEF Descs
  <2>2. QED
    BY <1>2, <2>1 DEF Raise, Bits, Cards
<1>5. rtl' \in Rtls /\ SameBesidesRx(rtl, rtl') /\ RxRing(rtl')
  <2> HIDE DEF k
  <2>1. QED
    BY <1>1, <1>2, RxGivenKeeps
<1>6. /\ "ROK" \in i /\ card.isr \subseteq i
  BY DEF Raise
<1> HIDE DEF a, i, d, k
<1>7. /\ card' \in Cards /\ card'.isr = i /\ card'.sent = card.sent
      /\ card'.queue = card.queue /\ card'.offset = card.offset /\ card'.link = card.link
  BY Zenon, <1>1, <1>2, <1>4 DEF Cards
<1>8. Types' /\ Holding(bus', rtl') /\ TxState(rtl', netdev', card')
  BY <1>1, <1>5, <1>7 DEF Types, Holding, SameBesidesRx, TxState
<1>9. Rests(rtl', netdev', card') /\ Noticed(rtl', netdev', card')
  BY <1>1, <1>2, <1>5, <1>6, <1>7 DEF Rests, Noticed, SameBesidesRx
<1>10. Chained(card'.queue, rtl'.offset, card'.offset)
  BY <1>2, <1>5, <1>7 DEF SameBesidesRx
<1>11. QED
  BY <1>5, <1>8, <1>9, <1>10 DEF Sound

\* A status bit raised, and nothing of the rings or the buffer touched.
LEMMA CardStatusSound == Sound /\ (CardRest \/ CardOverflow \/ LinkChange) => Sound'
<1> SUFFICES ASSUME Sound, CardRest \/ CardOverflow \/ LinkChange PROVE Sound'
  OBVIOUS
<1>1. /\ Types /\ Noticed(rtl, netdev, card) /\ card.on
      /\ bus' = bus /\ rtl' = rtl /\ netdev' = netdev
  BY DEF Sound, CardRest, CardOverflow, LinkChange
<1>2. rtl.up /\ rtl \in Rtls /\ card \in Cards /\ SameRings(rtl, rtl')
  BY <1>1, Running DEF Types, SameRings
<1>3. Raise("RDU") \in SUBSET Bits /\ Raise("LINK") \in SUBSET Bits
  BY <1>2 DEF Raise, Bits, Cards
<1>4. CASE CardRest
  <2>1. card' \in Cards /\ card'.sent = card.sent /\ card'.queue = card.queue
        /\ card'.offset = card.offset /\ card'.link = card.link /\ card'.isr = card.isr
    BY Zenon, <1>2, <1>4 DEF CardRest, Cards
  <2>2. Noticed(rtl', netdev', card')
    BY <1>1, <2>1 DEF Noticed
  <2>3. QED
    BY <1>1, <1>2, <2>1, <2>2, FrameSound
<1>5. CASE CardOverflow
  <2>1. card' = [card EXCEPT !.isr = Raise("RDU")] /\ card.isr \subseteq Raise("RDU")
    BY <1>5 DEF CardOverflow, Raise
  <2>2. card' \in Cards /\ card'.sent = card.sent /\ card'.queue = card.queue
        /\ card'.offset = card.offset /\ card'.link = card.link
        /\ card.isr \subseteq card'.isr
    BY SMTT(40), <1>2, <1>3, <2>1 DEF Cards
  <2>3. Noticed(rtl', netdev', card')
    BY <1>1, <2>2 DEF Noticed
  <2>4. QED
    BY SMTT(40), <1>1, <1>2, <2>2, <2>3, FrameSound
<1>6. CASE LinkChange
  <2>1. /\ card' = [card EXCEPT !.link = ~card.link, !.isr = Raise("LINK")]
        /\ card.isr \subseteq Raise("LINK") /\ "LINK" \in Raise("LINK")
    BY <1>2, <1>6 DEF LinkChange, Raise, Cards
  <2>2. card' \in Cards /\ card'.sent = card.sent /\ card'.queue = card.queue
        /\ card'.offset = card.offset /\ card.isr \subseteq card'.isr
        /\ "LINK" \in card'.isr
    BY Zenon, <1>2, <1>3, <2>1 DEF Cards
  <2>3. Noticed(rtl', netdev', card')
    BY <1>1, <2>2 DEF Noticed
  <2>4. QED
    BY <1>1, <1>2, <2>2, <2>3, FrameSound
<1>7. QED
  BY <1>4, <1>5, <1>6

LEMMA CardReceiveLegacySound ==
  \A len \in Lengths : Sound /\ CardReceiveLegacy(len) => Sound'
<1> SUFFICES ASSUME NEW len \in Lengths, Sound, CardReceiveLegacy(len) PROVE Sound'
  OBVIOUS
<1> DEFINE m == [off |-> card.offset, len |-> len]
           w == Append(card.queue, m)
           o == (card.offset + 4 + len + ((4 - (len % 4)) % 4)) % RTL_RXBUF_LEN
           i == Raise("ROK")
<1>1. /\ Types /\ TxState(rtl, netdev, card) /\ RxRing(rtl) /\ card.on
      /\ Holding(bus, rtl) /\ Noticed(rtl, netdev, card)
      /\ card' = [card EXCEPT !.queue = w, !.offset = o, !.isr = i]
      /\ bus' = bus /\ rtl' = rtl /\ netdev' = netdev
  BY DEF Sound, CardReceiveLegacy, Types, Cards
<1>2. /\ rtl.up /\ rtl \in Rtls /\ card \in Cards
      /\ Chained(card.queue, rtl.offset, card.offset)
  BY <1>1, Running DEF Types, Sound
<1>3. /\ card.queue \in Seq(Legacies) /\ card.offset \in Offsets
      /\ m \in Legacies /\ m.off = card.offset /\ m.len = len
  BY <1>2 DEF Cards, Legacies
<1>4. o = NextOffset(card.offset, len) /\ o \in Offsets
  BY <1>3, CardOffset, OffsetsType
<1>5. i \in SUBSET Bits /\ card.isr \subseteq i
  BY <1>2 DEF Raise, Bits, Cards
<1> HIDE DEF m, o, i
<1>6. w \in Seq(Legacies) /\ Chained(w, rtl.offset, o)
  BY <1>2, <1>3, <1>4, ChainedAppend
<1> HIDE DEF w
<1>7. /\ card' \in Cards /\ card'.queue = w /\ card'.offset = o /\ card'.isr = i
      /\ card'.sent = card.sent /\ card'.link = card.link
  BY Zenon, <1>1, <1>2, <1>4, <1>5, <1>6 DEF Cards
<1>8. Types' /\ Holding(bus', rtl') /\ TxState(rtl', netdev', card')
  BY <1>1, <1>7 DEF Types, TxState
<1>9. RxRing(rtl') /\ Rests(rtl', netdev', card') /\ Noticed(rtl', netdev', card')
  BY <1>1, <1>2, <1>5, <1>7 DEF Rests, Noticed
<1>10. QED
  BY <1>1, <1>6, <1>7, <1>8, <1>9 DEF Sound

-----------------------------------------------------------------------------
(* The theorems *)

LEMMA Always == Spec => []Sound
<1>1. Sound /\ [Next]_vars => Sound'
  <2> SUFFICES ASSUME Sound, [Next]_vars PROVE Sound'
    OBVIOUS
  <2>1. CASE UNCHANGED vars
    BY <2>1 DEF vars, Sound, Types
  <2>2. CASE Next
    BY <2>2, PciProbeSound, PciRemoveSound, OpenSound, CloseSound, NetTxSound,
       PollStatusSound, PollAckSound, PollTxSound, PollRxSound, LegacyPollRxSound,
       PollEndSound, CardSendSound, CardReceiveSound, CardStatusSound,
       CardReceiveLegacySound DEF Next
  <2>3. QED
    BY <2>1, <2>2
<1>2. QED
  BY <1>1, Initially, PTL DEF Spec

\* The rings of realtek.c never run over and have exactly the buffers they
\* should, and the card stays inside them: for any number of descriptors and
\* any width of the counters that it divides.
THEOREM RingsAlwaysSound == Spec => [](TypeOK /\ RingsSound)
<1>1. Sound => TypeOK /\ RingsSound
  <2> SUFFICES ASSUME Sound PROVE TypeOK /\ RingsSound
    OBVIOUS
  <2>1. rtl \in Rtls /\ card \in Cards /\ rtl.tx \in RingType /\ rtl.rx \in RingType
    BY SMTT(40) DEF Sound, Types, Rtls
  <2>2. TypeOK
    BY <2>1 DEF TypeOK, Rtls, Cards, RingType, Offsets, Bits
  <2>3. RingsSound
    BY Zenon, <2>1 DEF Sound, TxState, TxRing, RxRing, RingsSound
  <2>4. QED
    BY <2>2, <2>3
<1>2. QED
  BY <1>1, Always, PTL

\* realtek_poll_tx() completes packets in the order of their descriptors and
\* only once the card has sent them, for any ring size.
THEOREM CompletionsInOrder == Spec => []CompletesSent
<1>1. Sound => CompletesSent
  <2> SUFFICES ASSUME Sound PROVE CompletesSent
    OBVIOUS
  <2> DEFINE q == netdev.queue
             r == rtl.tx
             n == Count(r)
  <2>1. /\ r \in RingType /\ q \in Seq(Packets) /\ n \in Nat
        /\ TxRing(r, q, netdev.deferred, card.sent)
        /\ netdev.deferred # << >> => n = RTL_NUM_DESC
    BY SMTT(40), CountValue DEF Sound, Types, Rtls, Netdevs, TxState
  <2>2. Len(q) = n /\ r.cons \in Nat
    BY <2>1, Sizes DEF TxRing, RingType
  <2>3. ASSUME NEW k \in 1..Len(q) PROVE r.desc[Index(r.cons + k - 1)].pkt = q[k]
    <3>1. k - 1 \in 0..(n - 1) /\ r.cons + (k - 1) = r.cons + k - 1 /\ (k - 1) + 1 = k
      BY <2>1, <2>2
    <3> HIDE DEF r, n, q
    <3>2. r.desc[Index(r.cons + (k - 1))].pkt = q[(k - 1) + 1]
      BY <2>1, <3>1 DEF TxRing, n
    <3>3. QED
      BY <3>1, <3>2
  <2>4. ASSUME TxDone(rtl) PROVE Head(q) \in card.sent
    <3>1. Back(r)
      BY <2>4, DoneIsBack
    <3>2. n # 0
      BY <2>1, <3>1, CountValue, Sizes DEF Back, RingType
    <3>3. 0 \in 0..(n - 1) /\ Head(q) = q[1] /\ r.cons + 0 = r.cons /\ 0 + 1 = 1
      BY <2>1, <2>2, <3>2
    <3> HIDE DEF r, q, n
    <3>4. r.desc[Index(r.cons + 0)].own \/ q[0 + 1] \in card.sent
      BY SMTT(40), <2>1, <3>3 DEF TxRing, n
    <3>5. QED
      BY <3>1, <3>3, <3>4 DEF Back
  <2>5. QED
    BY <2>1, <2>2, <2>3, <2>4 DEF CompletesSent
<1>2. QED
  BY <1>1, Always, PTL

\* realtek_poll() overlooks no completed descriptor and no change of the
\* link, however the card races with its reading, acknowledging and looking.
THEOREM NothingOverlooked == Spec => [](NoLostCompletion /\ LinkReported)
<1>1. Sound => NoLostCompletion /\ LinkReported
  BY DoneIsBack DEF Sound, Noticed, NoLostCompletion, LinkReported
<1>2. QED
  BY <1>1, Always, PTL

\* realtek_legacy_poll_rx() and the card agree on where packets begin, for
\* any buffer size that is a multiple of four and any lengths of packets.
THEOREM LegacyOffsetsAgree == Spec => []LegacyInSync
<1>1. Sound => LegacyInSync
  <2> SUFFICES ASSUME Sound, rtl.up, card.queue # << >>
               PROVE  Head(card.queue).off = rtl.offset
    BY SMTT(40) DEF LegacyInSync
  <2>1. card.queue[1].off = rtl.offset /\ card.queue \in Seq(Legacies)
    BY SMTT(40) DEF Sound, Chained, Types, Cards
  <2>2. QED
    BY <2>1
<1>2. QED
  BY <1>1, Always, PTL

\* The error labels of realtek_probe() and realtek_close() leave nothing
\* behind: what is held belongs to a child of the bus, and a closed device
\* has no rings and no buffers.
THEOREM NothingEverLeaked == Spec => []NothingLeaked
<1>1. Sound => NothingLeaked
  BY DEF Sound, Holding, Rests, NothingLeaked
<1>2. QED
  BY <1>1, Always, PTL

=============================================================================
