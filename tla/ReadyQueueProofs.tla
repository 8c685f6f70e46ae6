---- MODULE ReadyQueueProofs ----
EXTENDS ReadyQueue, ListLemmas

-----------------------------------------------------------------------------
(* The bits of a mask.                                                     *)

Power(p) == 2^p
BitOf(m, p) == (m \div Power(p)) % 2

\* The powers of two that the mask needs.
LEMMA Powers ==
  /\ Power(0) = 1 /\ Power(1) = 2 /\ Power(2) = 4 /\ Power(3) = 8 /\ Power(4) = 16
  /\ Power(5) = 32 /\ Power(6) = 64 /\ Power(7) = 128 /\ Power(8) = 256 /\ Power(9) = 512
  /\ Power(10) = 1024 /\ Power(11) = 2048 /\ Power(12) = 4096 /\ Power(13) = 8192
  /\ Power(14) = 16384 /\ Power(15) = 32768 /\ Power(16) = 65536
BY DEF Power

\* Each is twice the one before.
LEMMA NextPower ==
  /\ \A p \in 0 .. 16 : Power(p) \in Nat /\ Power(p) > 0
  /\ \A p \in 0 .. 15 : Power(p + 1) = 2 * Power(p)
<1>1. ASSUME NEW p \in 0 .. 16 PROVE Power(p) \in Nat /\ Power(p) > 0
  BY Powers
<1>2. ASSUME NEW p \in 0 .. 15 PROVE Power(p + 1) = 2 * Power(p)
  BY Powers
<1> QED BY <1>1, <1>2

\* A larger one is an even multiple.
LEMMA PowersDivide ==
  ASSUME NEW q \in 0 .. 16, NEW p \in 0 .. 16, q < p
  PROVE  \E d \in Nat : d > 0 /\ Power(p) = Power(q) * (2 * d)
<1> DEFINE Holds(r) == \E d \in Nat : d > 0 /\ Power(r) = Power(q) * (2 * d)
           bad == {r \in q + 1 .. 16 : ~Holds(r)}
<1>1. SUFFICES ASSUME bad # {} PROVE FALSE
  <2>1. p \in q + 1 .. 16
    OBVIOUS
  <2> QED BY <2>1
<1>2. bad \subseteq Nat
  OBVIOUS
<1>3. PICK r \in bad : \A e \in bad : r <= e
  <2> HIDE DEF bad
  <2> QED BY <1>1, <1>2, SomeLeast
<1>4. r - 1 \in 0 .. 15 /\ r - 1 \in 0 .. 16 /\ (r - 1) + 1 = r
  OBVIOUS
<1>5. Power((r - 1) + 1) = 2 * Power(r - 1) /\ Power(r - 1) \in Nat /\ Power(q) \in Nat
  <2> HIDE DEF bad
  <2> QED BY <1>4, NextPower
<1> DEFINE Q == Power(q)
           R == Power(r)
           S == Power(r - 1)
<1>6. Q \in Nat /\ R = 2 * S /\ S \in Nat
  BY <1>4, <1>5
<1>7. CASE r - 1 = q
  <2>1. S = Q
    BY <1>7
  <2> HIDE DEF Q, R, S
  <2>2. R = Q * (2 * 1)
    BY <1>6, <2>1
  <2> QED BY <2>2 DEF Q, R
<1>8. CASE r - 1 # q
  <2>1. r - 1 \in q + 1 .. 16 /\ ~(r <= r - 1)
    BY <1>4, <1>8
  <2>2. PICK d \in Nat : d > 0 /\ S = Q * (2 * d)
    BY <1>3, <2>1
  <2> HIDE DEF Q, R, S
  <2>3. R = Q * (2 * (2 * d)) /\ 2 * d \in Nat /\ 2 * d > 0
    BY <1>6, <2>2
  <2> QED BY <2>3 DEF Q, R
<1> QED BY <1>7, <1>8

\* What is divided and what is left over are the only such numbers.
LEMMA QuotientIs ==
  ASSUME NEW w \in Nat, w > 0, NEW lo \in 0 .. w - 1, NEW h \in Nat, NEW n, n = w * h + lo
  PROVE  n \div w = h
<1>1. n \in Nat
  OBVIOUS
<1>2. n \div w \in Nat /\ n % w \in 0 .. w - 1 /\ n = w * (n \div w) + (n % w)
  BY <1>1, Divided
<1> DEFINE k == n \div w
           r == n % w
<1> HIDE DEF k, r
<1>3. k \in Nat /\ r \in 0 .. w - 1 /\ w * k + r = w * h + lo
  BY <1>2 DEF k, r
<1>4. CASE k > h
  <2>1. k >= h + 1
    BY <1>3, <1>4
  <2>2. w * k >= w * (h + 1)
    BY <1>3, <2>1
  <2> QED BY <1>3, <2>2
<1>5. CASE k < h
  <2>1. h >= k + 1
    BY <1>3, <1>5
  <2>2. w * h >= w * (k + 1)
    BY <1>3, <2>1
  <2> QED BY <1>3, <2>2
<1> QED BY <1>3, <1>4, <1>5 DEF k

\* Adding an even multiple of w keeps the parity of the quotient by w.
LEMMA LowBits ==
  ASSUME NEW w \in Nat, w > 0, NEW d \in Nat, NEW m \in Nat
  PROVE  ((m + w * (2 * d)) \div w) % 2 = (m \div w) % 2
<1> DEFINE k == m \div w
           r == m % w
<1>1. k \in Nat /\ r \in 0 .. w - 1 /\ m = w * k + r
  BY Divided
<1> HIDE DEF k, r
<1>2. m + w * (2 * d) = w * (k + 2 * d) + r /\ k + 2 * d \in Nat
  BY <1>1
<1>3. (m + w * (2 * d)) \div w = k + 2 * d
  BY <1>1, <1>2, QuotientIs
<1>4. (k + 2 * d) % 2 = k % 2
  BY <1>1
<1> QED BY <1>3, <1>4 DEF k

\* Where w is missing from m, adding it does not carry.
LEMMA HighBits ==
  ASSUME NEW w \in Nat, w > 0, NEW d \in Nat, d > 0, NEW m \in Nat, (m \div w) % 2 = 0
  PROVE  (m + w) \div (w * (2 * d)) = m \div (w * (2 * d))
<1> DEFINE k == m \div w
           r == m % w
<1>1. k \in Nat /\ r \in 0 .. w - 1 /\ m = w * k + r /\ k % 2 = 0
  BY Divided
<1> HIDE DEF k, r
<1>2. PICK j \in Nat : k = 2 * j
  BY <1>1
<1> DEFINE e == j \div d
           s == j % d
<1>3. e \in Nat /\ s \in 0 .. d - 1 /\ j = d * e + s
  BY <1>2, Divided
<1> HIDE DEF e, s
<1> DEFINE W == w * (2 * d)
<1>4. W \in Nat /\ W > 0
  OBVIOUS
<1>5. m = W * e + (w * (2 * s) + r)
  <2>1. k = (2 * d) * e + 2 * s
    BY <1>2, <1>3
  <2>2. w * k = (w * (2 * d)) * e + w * (2 * s)
    BY <1>1, <1>3, <2>1
  <2> QED BY <1>1, <1>3, <2>2
<1>6. w * (2 * s) + w + r < W /\ w * (2 * s) \in Nat
  <2>1. 2 * s + 2 <= 2 * d
    BY <1>3
  <2>2. w * (2 * s + 2) <= w * (2 * d)
    BY <1>3, <2>1
  <2>3. w * (2 * s + 2) = w * (2 * s) + w + w
    BY <1>3
  <2> QED BY <1>1, <1>3, <2>2, <2>3
<1> HIDE DEF W
<1> DEFINE a == w * (2 * s)
<1>7. a \in Nat /\ a + w + r < W /\ m = W * e + (a + r)
  BY <1>5, <1>6
<1> HIDE DEF a
<1>8. /\ a + r \in 0 .. W - 1 /\ a + r + w \in 0 .. W - 1
      /\ m + w = W * e + (a + r + w)
  <2>1. W * e \in Nat
    BY <1>3, <1>4
  <2> QED BY <1>1, <1>4, <1>7, <2>1
<1>9. m \div W = e
  <2>1. a + r \in 0 .. W - 1 /\ m = W * e + (a + r)
    BY <1>7, <1>8
  <2> QED BY <1>3, <1>4, <2>1, QuotientIs
<1>10. (m + w) \div W = e
  BY <1>3, <1>4, <1>8, QuotientIs
<1> QED BY <1>9, <1>10 DEF W

\* A bit that was clear is set, and no other changes.
LEMMA BitAdded ==
  ASSUME NEW m \in Nat, m < Power(16), NEW p \in Levels, BitOf(m, p) = 0
  PROVE  /\ m + Power(p) \in Nat /\ m + Power(p) < Power(16)
         /\ \A q \in Levels : BitOf(m + Power(p), q) = IF q = p THEN 1 ELSE BitOf(m, q)
<1> DEFINE P == Power(p)
<1>1. p \in 0 .. 16 /\ p \in 0 .. 15 /\ m \in Nat /\ 16 \in 0 .. 16 /\ p < 16
  BY DEF Levels
<1>2. P \in Nat /\ P > 0
  BY <1>1, NextPower
<1>3. (m \div P) % 2 = 0
  BY DEF BitOf
<1>4. ASSUME NEW q \in 0 .. 16, p < q
      PROVE  (m + P) \div Power(q) = m \div Power(q)
  <2>1. PICK d \in Nat : d > 0 /\ Power(q) = P * (2 * d)
    BY <1>1, <1>4, PowersDivide
  <2> HIDE DEF P
  <2>2. (m + P) \div (P * (2 * d)) = m \div (P * (2 * d))
    BY <1>1, <1>2, <1>3, <2>1, HighBits
  <2> QED BY <2>1, <2>2
<1>5. m + P \in Nat /\ m + P < Power(16)
  <2> DEFINE W == Power(16)
  <2>1. W \in Nat /\ W > 0 /\ m < W
    BY <1>1, NextPower
  <2>2. (m + P) \div W = m \div W
    BY <1>1, <1>4
  <2> HIDE DEF P, W
  <2>3. m = W * 0 + m /\ m \in 0 .. W - 1
    BY <1>1, <2>1
  <2>4. m \div W = 0
    BY <1>1, <2>1, <2>3, QuotientIs
  <2> DEFINE r == (m + P) % W
  <2>5. r \in 0 .. W - 1 /\ m + P = W * 0 + r
    BY <1>1, <1>2, <2>1, <2>2, <2>4, Divided
  <2> HIDE DEF r
  <2>6. m + P \in Nat /\ m + P < W
    BY <1>2, <2>1, <2>5
  <2> QED BY <2>6 DEF W
<1>6. ASSUME NEW q \in Levels PROVE BitOf(m + P, q) = IF q = p THEN 1 ELSE BitOf(m, q)
  <2>1. q \in 0 .. 16
    BY DEF Levels
  <2>2. CASE q = p
    <3> DEFINE k == m \div P
               r == m % P
    <3>1. k \in Nat /\ r \in 0 .. P - 1 /\ m = P * k + r
      BY <1>1, <1>2, Divided
    <3>2. k % 2 = 0
      BY <1>3
    <3> HIDE DEF P, k, r
    <3>3. m + P = P * (k + 1) + r /\ k + 1 \in Nat
      BY <1>2, <3>1
    <3>4. (m + P) \div P = k + 1
      BY <1>2, <3>1, <3>3, QuotientIs
    <3>5. (k + 1) % 2 = 1
      BY <3>1, <3>2
    <3> QED BY <2>2, <3>4, <3>5 DEF BitOf, P
  <2>3. CASE p < q
    BY <1>4, <2>1, <2>3 DEF BitOf
  <2>4. CASE q < p
    <3>1. PICK d \in Nat : d > 0 /\ P = Power(q) * (2 * d)
      BY <1>1, <2>1, <2>4, PowersDivide
    <3>2. Power(q) \in Nat /\ Power(q) > 0
      BY <2>1, NextPower
    <3>3. ((m + Power(q) * (2 * d)) \div Power(q)) % 2 = (m \div Power(q)) % 2
      BY <1>1, <3>1, <3>2, LowBits
    <3>4. ((m + P) \div Power(q)) % 2 = (m \div Power(q)) % 2
      BY <3>1, <3>3
    <3> HIDE DEF P
    <3>5. q # p
      BY <1>1, <2>1, <2>4
    <3> QED BY <3>4, <3>5 DEF BitOf
  <2>5. q = p \/ p < q \/ q < p
    BY <1>1, <2>1
  <2> QED BY <2>2, <2>3, <2>4, <2>5
<1> QED BY <1>5, <1>6

\* A bit that was set is cleared, and no other changes.
LEMMA BitTaken ==
  ASSUME NEW m \in Nat, m < Power(16), NEW p \in Levels, BitOf(m, p) = 1
  PROVE  /\ m - Power(p) \in Nat /\ m - Power(p) < Power(16)
         /\ \A q \in Levels : BitOf(m - Power(p), q) = IF q = p THEN 0 ELSE BitOf(m, q)
<1> DEFINE P == Power(p)
           k == m \div P
           r == m % P
           n == m - P
<1>1. P \in Nat /\ P > 0 /\ m \in Nat
  BY NextPower DEF Levels
<1>2. k \in Nat /\ r \in 0 .. P - 1 /\ m = P * k + r
  BY <1>1, Divided
<1>3. k % 2 = 1
  BY DEF BitOf
<1> HIDE DEF P, k, r
<1>4. PICK j \in Nat : k = 2 * j + 1
  BY <1>2, <1>3
<1>5. n = P * (2 * j) + r /\ 2 * j \in Nat
  BY <1>1, <1>2, <1>4
<1>6. n \in Nat /\ n < Power(16) /\ n + P = m
  <2>1. P * (2 * j) \in Nat
    BY <1>1
  <2>2. Power(16) \in Nat
    BY NextPower
  <2>3. n \in Nat
    BY <1>2, <1>5, <2>1
  <2> QED BY <1>1, <2>2, <2>3
<1>7. BitOf(n, p) = 0
  <2>1. n \div P = 2 * j
    BY <1>1, <1>2, <1>5, QuotientIs
  <2>2. (2 * j) % 2 = 0
    OBVIOUS
  <2> QED BY <2>1, <2>2 DEF BitOf, P
<1>8. ASSUME NEW q \in Levels PROVE BitOf(n, q) = IF q = p THEN 0 ELSE BitOf(m, q)
  <2> HIDE DEF n
  <2>1. BitOf(n + Power(p), q) = IF q = p THEN 1 ELSE BitOf(n, q)
    BY <1>6, <1>7, BitAdded
  <2> QED BY <1>6, <1>7, <2>1 DEF P
<1> QED BY <1>6, <1>8 DEF P

\* A number between two powers has the lower one for its highest bit.
LEMMA TopBit ==
  ASSUME NEW m \in Nat, NEW p \in Levels, Power(p) =< m, m < Power(p + 1)
  PROVE  BitOf(m, p) = 1 /\ \A q \in Levels : q > p => BitOf(m, q) = 0
<1> DEFINE P == Power(p)
<1>1. P \in Nat /\ P > 0 /\ P =< m /\ m < 2 * P /\ p \in 0 .. 16
  BY NextPower DEF Levels
<1> HIDE DEF P
<1>2. BitOf(m, p) = 1
  <2>1. m = P * 1 + (m - P) /\ m - P \in 0 .. P - 1
    BY <1>1
  <2>2. m \div P = 1
    BY <1>1, <2>1, QuotientIs
  <2> QED BY <2>2 DEF BitOf, P
<1>3. ASSUME NEW q \in Levels, q > p PROVE BitOf(m, q) = 0
  <2>1. q \in 0 .. 16
    BY DEF Levels
  <2>2. PICK d \in Nat : d > 0 /\ Power(q) = P * (2 * d)
    BY <1>1, <1>3, <2>1, PowersDivide DEF P
  <2> DEFINE Q == Power(q)
  <2>3. Q \in Nat /\ Q > 0
    BY <2>1, NextPower
  <2>4. Q >= 2 * P
    <3>1. Q = (2 * P) * d
      BY <1>1, <2>2
    <3> HIDE DEF Q
    <3>2. (2 * P) * d >= (2 * P) * 1
      BY <1>1, <2>2
    <3> QED BY <1>1, <3>1, <3>2
  <2> HIDE DEF Q
  <2>5. m = Q * 0 + m /\ m \in 0 .. Q - 1
    BY <1>1, <2>3, <2>4
  <2>6. m \div Q = 0
    BY <2>3, <2>5, QuotientIs
  <2> QED BY <2>6 DEF BitOf, Q
<1> QED BY <1>2, <1>3

\* The lookup table finds the highest bit of a byte.
LEMMA LookupFinds ==
  ASSUME NEW byte \in 1 .. 255
  PROVE  /\ rq_lookup(byte) \in 0 .. 7
         /\ Power(rq_lookup(byte)) =< byte /\ byte < Power(rq_lookup(byte) + 1)
<1> DEFINE Found(x) == Power(x) =< byte /\ byte < Power(x + 1)
<1>1. rq_lookup(byte) = CHOOSE x \in 0 .. 7 : Found(x)
  <2>1. byte # 0
    OBVIOUS
  <2> QED BY <2>1, Zenon DEF rq_lookup, Power
<1>2. \E x \in 0 .. 7 : Found(x)
  <2>1. /\ Power(0 + 1) = 2 /\ Power(1 + 1) = 4 /\ Power(2 + 1) = 8 /\ Power(3 + 1) = 16
        /\ Power(4 + 1) = 32 /\ Power(5 + 1) = 64 /\ Power(6 + 1) = 128 /\ Power(7 + 1) = 256
    BY Powers
  <2>2. /\ Found(0) <=> 1 =< byte /\ byte < 2
        /\ Found(1) <=> 2 =< byte /\ byte < 4
        /\ Found(2) <=> 4 =< byte /\ byte < 8
        /\ Found(3) <=> 8 =< byte /\ byte < 16
        /\ Found(4) <=> 16 =< byte /\ byte < 32
        /\ Found(5) <=> 32 =< byte /\ byte < 64
        /\ Found(6) <=> 64 =< byte /\ byte < 128
        /\ Found(7) <=> 128 =< byte /\ byte < 256
    BY <2>1, Powers
  <2> HIDE DEF Found
  <2>3. \/ Found(0) \/ Found(1) \/ Found(2) \/ Found(3)
        \/ Found(4) \/ Found(5) \/ Found(6) \/ Found(7)
    BY <2>2
  <2> QED BY <2>3
<1> HIDE DEF Found
<1>3. rq_lookup(byte) \in 0 .. 7 /\ Found(rq_lookup(byte))
  BY <1>1, <1>2
<1> QED BY <1>3 DEF Found

\* The two lookups find the highest bit of the mask.
LEMMA HighestFinds ==
  ASSUME rq_bitmask \in Nat, rq_bitmask > 0, rq_bitmask < Power(16)
  PROVE  /\ HighestLevel \in Levels
         /\ Power(HighestLevel) =< rq_bitmask /\ rq_bitmask < Power(HighestLevel + 1)
<1> DEFINE h == rq_bitmask \div 256
           r == rq_bitmask % 256
<1>1. h \in 0 .. 255 /\ 256 * h =< rq_bitmask /\ rq_bitmask < 256 * h + 256
  <2>1. rq_bitmask < 65536
    BY Powers
  <2> QED BY <2>1
<1>2. CASE h # 0
  <2> DEFINE x == rq_lookup(h)
  <2>1. HighestLevel = x + 8
    BY <1>2 DEF HighestLevel
  <2> HIDE DEF h
  <2>2. x \in 0 .. 7 /\ Power(x) =< h /\ h < Power(x + 1)
    BY <1>1, <1>2, LookupFinds
  <2> HIDE DEF x
  <2>3. /\ Power(x + 8) = 256 * Power(x) /\ Power(x + 8 + 1) = 256 * Power(x + 1)
        /\ Power(x) \in Nat /\ Power(x + 1) \in Nat
    <3>1. \A y \in 0 .. 8 : Power(y + 8) = 256 * Power(y) /\ Power(y) \in Nat
      BY Powers
    <3>2. x \in 0 .. 8 /\ x + 1 \in 0 .. 8 /\ (x + 1) + 8 = x + 8 + 1
      BY <2>2
    <3> QED BY <3>1, <3>2
  <2>4. Power(x + 8) =< rq_bitmask /\ rq_bitmask < Power(x + 8 + 1)
    BY <1>1, <2>2, <2>3
  <2> QED BY <2>1, <2>2, <2>4 DEF Levels
<1>3. CASE h = 0
  <2>1. HighestLevel = rq_lookup(rq_bitmask) /\ rq_bitmask \in 1 .. 255
    BY <1>1, <1>3 DEF HighestLevel
  <2> QED BY <2>1, LookupFinds DEF Levels
<1> QED BY <1>2, <1>3

\* No bit of 0 is set.
LEMMA NoBit == \A p \in Levels : BitOf(0, p) = 0
<1> SUFFICES ASSUME NEW p \in Levels PROVE BitOf(0, p) = 0
  OBVIOUS
<1>1. Power(p) \in Nat /\ Power(p) > 0
  BY NextPower DEF Levels
<1> DEFINE P == Power(p)
<1> HIDE DEF P
<1>2. 0 = P * 0 + 0 /\ 0 \in 0 .. P - 1
  BY <1>1 DEF P
<1>3. 0 \div P = 0
  BY <1>1, <1>2, QuotientIs DEF P
<1> QED BY <1>3 DEF BitOf, P

-----------------------------------------------------------------------------
(* The lists, named.                                                       *)

Places == [Levels -> Seq(PairIds)]

\* What the variables range over.
RqTypes ==
  /\ pairs_next \in [PairIds -> PairIds \cup {-1}]
  /\ pairs_tid \in [PairIds -> Tasks \cup {NIL}]
  /\ queues_head \in [Levels -> PairIds \cup {-1}]
  /\ queues_tail \in [Levels -> PairIds \cup {-1}]
  /\ rq_free \in PairIds \cup {-1}
  /\ stkfirst \in Tasks \cup {NIL}
  /\ th_next \in [Tasks -> Tasks \cup {NIL}]

\* The links spell the queues q and the free list fr.
PairsSpell(q, fr) ==
  /\ \A p \in Levels : Spells(queues_head[p], pairs_next, -1, q[p])
  /\ \A p \in Levels : queues_tail[p] = LastOf(q[p], -1)
  /\ Spells(rq_free, pairs_next, -1, fr)

\* The stack is st.
StackSpells(st) == Spells(stkfirst, th_next, NIL, st) /\ Once(st)

\* Every pair has one place.
OnePlace(q, fr) ==
  /\ Once(fr) /\ \A p \in Levels : Once(q[p])
  /\ \A p, r \in Levels : \A x \in PairIds : Has(q[p], x) /\ Has(q[r], x) => p = r
  /\ \A x \in PairIds : Has(fr, x) <=> \A p \in Levels : ~Has(q[p], x)

\* A pair is queued at the level of its task.
AtItsLevel(q) ==
  \A p \in Levels : \A x \in PairIds :
    Has(q[p], x) => pairs_tid[x] \in Tasks /\ rq_link[pairs_tid[x]] = p

\* The mask has the bits of the queues with a head.
MaskIs ==
  /\ rq_bitmask \in Nat /\ rq_bitmask < Power(16)
  /\ \A p \in Levels : BitOf(rq_bitmask, p) = IF queues_head[p] = -1 THEN 0 ELSE 1

\* The positions of t in the queue q, and the pairs there that hold it.
Positions(q, tid, t) == {i \in 1 .. Len(q) : tid[q[i]] = t}
HeldBy(q, tid, t) == {x \in PairIds : Has(q, x) /\ tid[x] = t}

\* The pairs of t, and the activations of t that have not ended.
PairsOf(q, t) == HeldBy(q[rq_link[t]], pairs_tid, t)
Asked(q, st, t) == Cardinality(PairsOf(q, t)) + (IF Has(st, t) THEN 1 ELSE 0)

Ready(q, fr, st) ==
  /\ q \in Places /\ fr \in Seq(PairIds) /\ st \in Seq(Tasks)
  /\ PairsSpell(q, fr) /\ StackSpells(st) /\ OnePlace(q, fr) /\ AtItsLevel(q) /\ MaskIs
  /\ \A t \in Tasks : Asked(q, st, t) =< RnactMax[t]

RqInv == RqTypes /\ \E q, fr, st : Ready(q, fr, st)

-----------------------------------------------------------------------------
(* The lists of ReadyQueue are the named ones.                             *)

\* The pairs are as many as their numbers.
LEMMA PairsFinite == IsFiniteSet(PairIds) /\ Cardinality(PairIds) = Pairs /\ -1 \notin PairIds
<1>1. Pairs \in Nat /\ Pairs > 0
  BY ReadyQueueAssumption
<1>2. /\ IsFiniteSet(0 .. Pairs - 1)
      /\ Cardinality(0 .. Pairs - 1) = IF 0 > Pairs - 1 THEN 0 ELSE Pairs - 1 - 0 + 1
  BY <1>1, FS_Interval
<1> QED BY <1>1, <1>2 DEF PairIds

\* A task has one level and is asked for at least once.
LEMMA TaskLevels ==
  /\ \A t \in Tasks : rq_link[t] \in Levels /\ RnactMax[t] \in Nat /\ RnactMax[t] > 0
  /\ NIL \notin Tasks /\ IsFiniteSet(Tasks) /\ Cardinality(Tasks) \in Nat
BY ReadyQueueAssumption, FS_CardinalityType DEF Levels

\* The positions of a task in a queue are as many as its pairs there.
LEMMA SamePlaces ==
  ASSUME NEW q \in Seq(PairIds), Once(q), NEW tid, NEW t
  PROVE  Cardinality(Positions(q, tid, t)) = Cardinality(HeldBy(q, tid, t))
<1> DEFINE I == {i \in 1 .. Len(q) : tid[q[i]] = t}
           X == {x \in PairIds : Has(q, x) /\ tid[x] = t}
           f == [i \in I |-> q[i]]
<1>1. \A i \in 1 .. Len(q) : q[i] \in PairIds /\ Has(q, q[i])
  BY ElementOfSeq DEF Has
<1>2. \A i \in I : f[i] = q[i] /\ q[i] \in X
  BY <1>1
<1>3. \A i, j \in I : q[i] = q[j] => i = j
  BY DEF Once
<1>4. \A x \in X : \E i \in I : q[i] = x
  BY DEF Has
<1>5. f \in Bijection(I, X)
  <2>1. f \in [I -> X]
    BY <1>2
  <2> HIDE DEF I, X
  <2>2. \A i, j \in I : f[i] = f[j] => i = j
    BY <1>3
  <2>3. \A x \in X : \E i \in I : f[i] = x
    BY <1>4
  <2> HIDE DEF f
  <2> QED BY <2>1, <2>2, <2>3 DEF Bijection, Injection, IsInjective, Surjection
<1>6. IsFiniteSet(X)
  BY PairsFinite, FS_Subset
<1>7. IsFiniteSet(I)
  <2>1. Len(q) \in Nat
    BY LenProperties
  <2>2. IsFiniteSet(1 .. Len(q))
    BY <2>1, FS_Interval
  <2> QED BY <2>2, FS_Subset
<1> HIDE DEF I, X, f
<1>8. Cardinality(I) = Cardinality(X)
  <2>1. ExistsBijection(I, X)
    BY <1>5 DEF ExistsBijection
  <2> QED BY <1>7, <2>1, FS_Bijection
<1> QED BY <1>8 DEF I, X, Positions, HeldBy

\* The walks find the lists.
LEMMA ListsAre ==
  ASSUME NEW q, NEW fr, NEW st, Ready(q, fr, st)
  PROVE  /\ \A p \in Levels : QueuePairs(p) = q[p]
         /\ FreePairs = fr
         /\ StackSeq = st
         /\ \A t \in Tasks : t \in StackTasks <=> Has(st, t)
         /\ \A t \in Tasks : Instances(t) = Asked(q, st, t)
<1>1. /\ q \in Places /\ fr \in Seq(PairIds) /\ st \in Seq(Tasks)
      /\ PairsSpell(q, fr) /\ StackSpells(st) /\ OnePlace(q, fr)
  BY DEF Ready
<1>2. Pairs \in Nat /\ Pairs + 1 \in Nat
  BY ReadyQueueAssumption
<1>3. ASSUME NEW p \in Levels PROVE QueuePairs(p) = q[p]
  <2>1. q[p] \in Seq(PairIds) /\ Once(q[p]) /\ Spells(queues_head[p], pairs_next, -1, q[p])
    BY <1>1 DEF Places, OnePlace, PairsSpell
  <2>2. Len(q[p]) \in Nat /\ Len(q[p]) =< Pairs
    BY <2>1, PairsFinite, QueueFits
  <2>3. Len(q[p]) =< Pairs + 1
    BY <1>2, <2>2
  <2> QED BY <1>2, <2>1, <2>3, PairsFinite, FollowIs DEF QueuePairs
<1>4. FreePairs = fr
  <2>1. Once(fr) /\ Spells(rq_free, pairs_next, -1, fr)
    BY <1>1 DEF OnePlace, PairsSpell
  <2>2. Len(fr) \in Nat /\ Len(fr) =< Pairs
    BY <1>1, <2>1, PairsFinite, QueueFits
  <2>3. Len(fr) =< Pairs + 1
    BY <1>2, <2>2
  <2> QED BY <1>1, <1>2, <2>1, <2>3, PairsFinite, FollowIs DEF FreePairs
<1>5. StackSeq = st
  <2>1. Once(st) /\ Spells(stkfirst, th_next, NIL, st)
    BY <1>1 DEF StackSpells
  <2>2. Len(st) \in Nat /\ Cardinality(Tasks) \in Nat /\ Len(st) =< Cardinality(Tasks)
    BY <1>1, <2>1, TaskLevels, QueueFits
  <2>3. Len(st) =< Cardinality(Tasks) + 1 /\ Cardinality(Tasks) + 1 \in Nat
    BY <2>2
  <2> QED BY <1>1, <2>1, <2>3, TaskLevels, FollowIs DEF StackSeq
<1>6. \A t \in Tasks : t \in StackTasks <=> Has(st, t)
  <2>1. DOMAIN st = 1 .. Len(st)
    BY <1>1, LenProperties
  <2> QED BY <1>5, <2>1 DEF StackTasks, Has
<1>7. ASSUME NEW t \in Tasks PROVE Instances(t) = Asked(q, st, t)
  <2> DEFINE p == rq_link[t]
             s == q[p]
  <2>1. p \in Levels
    BY TaskLevels
  <2>2. QueuePairs(p) = s /\ s \in Seq(PairIds) /\ Once(s) /\ DOMAIN s = 1 .. Len(s)
    BY <1>1, <1>3, <2>1, LenProperties DEF Places, OnePlace
  <2>3. QueueSeq(p) = [i \in 1 .. Len(s) |-> pairs_tid[s[i]]]
    BY <2>2 DEF QueueSeq
  <2> HIDE DEF s
  <2>4. /\ DOMAIN QueueSeq(p) = 1 .. Len(s)
        /\ \A i \in 1 .. Len(s) : QueueSeq(p)[i] = pairs_tid[s[i]]
    BY <2>3
  <2>5. {i \in DOMAIN QueueSeq(p) : QueueSeq(p)[i] = t} = Positions(s, pairs_tid, t)
    BY <2>4 DEF Positions
  <2>6. Cardinality(Positions(s, pairs_tid, t)) = Cardinality(HeldBy(s, pairs_tid, t))
    BY <2>2, SamePlaces
  <2>7. Cardinality({i \in DOMAIN QueueSeq(p) : QueueSeq(p)[i] = t}) = Cardinality(PairsOf(q, t))
    BY <2>5, <2>6 DEF PairsOf, s
  <2> HIDE DEF p
  <2>8. Instances(t) = Cardinality(PairsOf(q, t)) + (IF t \in StackTasks THEN 1 ELSE 0)
    BY <2>7 DEF Instances, p
  <2> QED BY <1>6, <2>8 DEF Asked
<1> QED BY <1>3, <1>4, <1>5, <1>6, <1>7

-----------------------------------------------------------------------------
(* What the invariant says of the queues.                                  *)

\* Head and tail of a queue are -1 when it is empty.
LEMMA HeadIs ==
  ASSUME NEW q, NEW fr, NEW st, Ready(q, fr, st), NEW p \in Levels
  PROVE  /\ q[p] \in Seq(PairIds) /\ Len(q[p]) \in Nat
         /\ \A i \in 1 .. Len(q[p]) : q[p][i] \in PairIds /\ Has(q[p], q[p][i])
         /\ q[p] = <<>> => queues_head[p] = -1 /\ queues_tail[p] = -1
         /\ q[p] # <<>> => /\ 1 \in 1 .. Len(q[p]) /\ Len(q[p]) \in 1 .. Len(q[p])
                           /\ queues_head[p] = q[p][1] /\ queues_head[p] # -1
                           /\ queues_tail[p] = q[p][Len(q[p])] /\ queues_tail[p] # -1
<1>1. /\ q[p] \in Seq(PairIds) /\ Spells(queues_head[p], pairs_next, -1, q[p])
      /\ queues_tail[p] = LastOf(q[p], -1)
  BY DEF Ready, Places, PairsSpell
<1>2. Len(q[p]) \in Nat /\ \A i \in 1 .. Len(q[p]) : q[p][i] \in PairIds /\ Has(q[p], q[p][i])
  BY <1>1, LenProperties, ElementOfSeq DEF Has
<1>3. queues_head[p] = IF q[p] = <<>> THEN -1 ELSE q[p][1]
  BY <1>1 DEF Spells
<1>4. q[p] # <<>> => 1 \in 1 .. Len(q[p]) /\ Len(q[p]) \in 1 .. Len(q[p])
  BY <1>1, <1>2, EmptySeq
<1>5. -1 \notin PairIds
  BY PairsFinite
<1> QED BY <1>1, <1>2, <1>3, <1>4, <1>5 DEF LastOf

\* The mask leads to the first task of the highest level that has one.
LEMMA FirstIs ==
  ASSUME NEW q, NEW fr, NEW st, Ready(q, fr, st)
  PROVE  \/ /\ HighestLevel = -1 /\ rq_queryfirst = NIL
            /\ \A p \in Levels : q[p] = <<>>
         \/ /\ HighestLevel \in Levels /\ q[HighestLevel] # <<>>
            /\ \A p \in Levels : p > HighestLevel => q[p] = <<>>
            /\ queues_head[HighestLevel] = q[HighestLevel][1]
            /\ rq_queryfirst = pairs_tid[q[HighestLevel][1]]
            /\ rq_queryfirst \in Tasks /\ rq_link[rq_queryfirst] = HighestLevel
            /\ BitOf(rq_bitmask, HighestLevel) = 1
<1>1. MaskIs /\ AtItsLevel(q)
  BY DEF Ready
<1>2. /\ rq_bitmask \in Nat /\ rq_bitmask < Power(16)
      /\ \A p \in Levels : BitOf(rq_bitmask, p) = IF queues_head[p] = -1 THEN 0 ELSE 1
  BY <1>1 DEF MaskIs
<1>3. \A p \in Levels : q[p] = <<>> <=> BitOf(rq_bitmask, p) = 0
  BY <1>2, HeadIs
<1>4. CASE rq_bitmask = 0
  <2>1. \A p \in Levels : q[p] = <<>>
    BY <1>3, <1>4, NoBit
  <2>2. HighestLevel = -1
    <3>1. rq_bitmask \div 256 = 0
      BY <1>4
    <3> QED BY <1>4, <3>1 DEF HighestLevel, rq_lookup
  <2> QED BY <2>1, <2>2 DEF rq_queryfirst
<1>5. CASE rq_bitmask # 0
  <2> DEFINE h == HighestLevel
  <2>1. /\ h \in Levels /\ Power(h) =< rq_bitmask /\ rq_bitmask < Power(h + 1)
    BY <1>2, <1>5, HighestFinds
  <2> HIDE DEF h
  <2>2. BitOf(rq_bitmask, h) = 1 /\ \A p \in Levels : p > h => BitOf(rq_bitmask, p) = 0
    BY <1>2, <2>1, TopBit
  <2>3. q[h] # <<>> /\ \A p \in Levels : p > h => q[p] = <<>>
    BY <1>3, <2>1, <2>2
  <2>4. /\ 1 \in 1 .. Len(q[h]) /\ queues_head[h] = q[h][1]
        /\ q[h][1] \in PairIds /\ Has(q[h], q[h][1])
    BY <2>1, <2>3, HeadIs
  <2>5. pairs_tid[q[h][1]] \in Tasks /\ rq_link[pairs_tid[q[h][1]]] = h
    BY <1>1, <2>1, <2>4 DEF AtItsLevel
  <2>6. h # -1
    BY <2>1 DEF Levels
  <2>7. rq_queryfirst = pairs_tid[q[h][1]]
    BY <2>4, <2>6 DEF rq_queryfirst, h
  <2> QED BY <2>1, <2>2, <2>3, <2>4, <2>5, <2>7 DEF h
<1> QED BY <1>4, <1>5

\* Mask, heads and tails agree on the empty queues.
LEMMA MaskAgrees ==
  ASSUME RqInv
  PROVE  MaskHeadTailAgree
<1>1. PICK q, fr, st : Ready(q, fr, st)
  BY DEF RqInv
<1> SUFFICES ASSUME NEW p \in Levels
             PROVE  /\ (rq_bitmask \div 2^p) % 2 = (IF queues_head[p] = -1 THEN 0 ELSE 1)
                    /\ queues_head[p] = -1 <=> queues_tail[p] = -1
                    /\ queues_tail[p] # -1 => queues_tail[p] = QueuePairs(p)[Len(QueuePairs(p))]
  BY DEF MaskHeadTailAgree
<1>2. BitOf(rq_bitmask, p) = IF queues_head[p] = -1 THEN 0 ELSE 1
  BY <1>1 DEF Ready, MaskIs
<1>3. (rq_bitmask \div 2^p) % 2 = IF queues_head[p] = -1 THEN 0 ELSE 1
  BY <1>2, Zenon DEF BitOf, Power
<1>4. QueuePairs(p) = q[p]
  BY <1>1, ListsAre
<1>5. /\ queues_head[p] = -1 <=> queues_tail[p] = -1
      /\ queues_tail[p] # -1 => queues_tail[p] = q[p][Len(q[p])]
  BY <1>1, HeadIs
<1> QED BY <1>3, <1>4, <1>5

\* Every pair has one place.
LEMMA PairsKept ==
  ASSUME RqInv
  PROVE  PoolPartitioned
<1>1. PICK q, fr, st : Ready(q, fr, st)
  BY DEF RqInv
<1>2. /\ q \in Places /\ fr \in Seq(PairIds) /\ OnePlace(q, fr)
      /\ FreePairs = fr /\ \A p \in Levels : QueuePairs(p) = q[p]
  BY <1>1, ListsAre DEF Ready
<1> DEFINE queued == [p \in Levels |-> QueuePairs(p)]
           In(x) == {a \in Levels \X (1 .. Pairs + 1) :
                       a[2] \in DOMAIN queued[a[1]] /\ queued[a[1]][a[2]] = x}
           Free(x) == {i \in DOMAIN FreePairs : FreePairs[i] = x}
<1>3. \A p \in Levels : queued[p] = q[p] /\ DOMAIN q[p] = 1 .. Len(q[p])
  BY <1>2, LenProperties DEF Places
<1>4. DOMAIN fr = 1 .. Len(fr)
  BY <1>2, LenProperties
<1> HIDE DEF queued
<1>5. ASSUME NEW x \in PairIds PROVE Cardinality(In(x)) + Cardinality(Free(x)) = 1
  <2>1. CASE Has(fr, x)
    <3>1. \A p \in Levels : ~Has(q[p], x)
      BY <1>2, <2>1 DEF OnePlace
    <3>2. In(x) = {}
      BY <1>3, <3>1 DEF Has
    <3>3. PICK i \in 1 .. Len(fr) : fr[i] = x
      BY <2>1 DEF Has
    <3>4. Free(x) = {i}
      BY <1>2, <1>4, <3>3 DEF OnePlace, Once
    <3>5. Cardinality(In(x)) = 0 /\ Cardinality(Free(x)) = 1
      BY <3>2, <3>4, FS_EmptySet, FS_Singleton
    <3> QED BY <3>5
  <2>2. CASE ~Has(fr, x)
    <3>1. Free(x) = {}
      BY <1>2, <1>4, <2>2 DEF Has
    <3>2. PICK p \in Levels : Has(q[p], x)
      BY <1>2, <2>2 DEF OnePlace
    <3>3. PICK i \in 1 .. Len(q[p]) : q[p][i] = x
      BY <3>2 DEF Has
    <3>4. /\ q[p] \in Seq(PairIds) /\ Once(q[p])
          /\ \A r \in Levels : Has(q[r], x) => r = p
      BY <1>2, <3>2 DEF Places, OnePlace
    <3>5. i \in 1 .. Pairs + 1
      <4>1. Len(q[p]) \in Nat /\ Pairs \in Nat /\ Len(q[p]) =< Pairs
        BY <3>4, PairsFinite, QueueFits, ReadyQueueAssumption
      <4> QED BY <4>1
    <3>6. In(x) = {<<p, i>>}
      <4>1. <<p, i>> \in In(x)
        BY <1>3, <3>3, <3>5
      <4>2. ASSUME NEW a \in In(x) PROVE a = <<p, i>>
        <5>1. /\ a = <<a[1], a[2]>> /\ a[1] \in Levels
              /\ a[2] \in 1 .. Len(q[a[1]]) /\ q[a[1]][a[2]] = x
          BY <1>3
        <5>2. a[1] = p
          BY <3>4, <5>1 DEF Has
        <5>3. a[2] = i
          BY <3>3, <3>4, <5>1, <5>2 DEF Once
        <5> QED BY <5>1, <5>2, <5>3
      <4> HIDE DEF In
      <4> QED BY <4>1, <4>2
    <3>7. Cardinality(In(x)) = 1 /\ Cardinality(Free(x)) = 0
      BY <3>1, <3>6, FS_EmptySet, FS_Singleton
    <3> QED BY <3>7
  <2> QED BY <2>1, <2>2
<1> QED BY <1>5 DEF PoolPartitioned, queued

\* Who may be asked for once more finds a free pair: if every pair were in use, the
\* pairs of each task numbered up to its limit would take up all activations but one.
LEMMA FreeLeft ==
  ASSUME NEW q, NEW fr, NEW st, Ready(q, fr, st),
         NEW t \in Tasks, Asked(q, st, t) < RnactMax[t]
  PROVE  fr # <<>>
<1> SUFFICES ASSUME fr = <<>> PROVE FALSE
  OBVIOUS
<1>1. \A x : ~Has(fr, x)
  BY DEF Has
<1>2. /\ OnePlace(q, fr) /\ AtItsLevel(q)
      /\ \A u \in Tasks : Asked(q, st, u) =< RnactMax[u]
  BY DEF Ready
<1>3. \A x \in PairIds : pairs_tid[x] \in Tasks /\ x \in PairsOf(q, pairs_tid[x])
  BY <1>1, <1>2 DEF OnePlace, AtItsLevel, PairsOf, HeldBy
<1>4. ASSUME NEW u \in Tasks
      PROVE  /\ IsFiniteSet(PairsOf(q, u)) /\ Cardinality(PairsOf(q, u)) \in Nat
             /\ Cardinality(PairsOf(q, u)) =< RnactMax[u]
             /\ u = t => Cardinality(PairsOf(q, u)) < RnactMax[u]
  <2>1. IsFiniteSet(PairsOf(q, u))
    BY PairsFinite, FS_Subset DEF PairsOf, HeldBy
  <2>2. Cardinality(PairsOf(q, u)) \in Nat
    BY <2>1, FS_CardinalityType
  <2>3. Asked(q, st, u) >= Cardinality(PairsOf(q, u)) /\ Asked(q, st, u) \in Nat
    BY <2>2 DEF Asked
  <2> QED BY <1>2, <2>1, <2>2, <2>3, TaskLevels
<1> DEFINE Numbers(u) == 1 .. Cardinality(PairsOf(q, u))
           n == [u \in Tasks |-> CHOOSE f : f \in Injection(PairsOf(q, u), Numbers(u))]
           g == [x \in PairIds |-> <<pairs_tid[x], n[pairs_tid[x]][x]>>]
           rest == Activations \ {<<t, RnactMax[t]>>}
<1>5. ASSUME NEW u \in Tasks PROVE n[u] \in Injection(PairsOf(q, u), Numbers(u))
  <2> DEFINE S == PairsOf(q, u)
             k == Cardinality(S)
  <2>1. IsFiniteSet(S) /\ k \in Nat
    BY <1>4
  <2> HIDE DEF S
  <2>2. Cardinality(1 .. k) = k /\ IsFiniteSet(1 .. k)
    BY <2>1, UpTo, FS_Interval
  <2>3. ExistsBijection(S, 1 .. k)
    BY <2>1, <2>2, FS_SameCardinalityBij
  <2>4. \E f : f \in Injection(S, 1 .. k)
    BY <2>3 DEF ExistsBijection, Bijection
  <2>5. n[u] = CHOOSE f : f \in Injection(S, 1 .. k)
    BY DEF S
  <2> HIDE DEF n
  <2>6. n[u] \in Injection(S, 1 .. k)
    BY <2>4, <2>5
  <2> QED BY <2>6 DEF S
<1> HIDE DEF n
<1>6. ASSUME NEW x \in PairIds
      PROVE  /\ n[pairs_tid[x]][x] \in 1 .. RnactMax[pairs_tid[x]]
             /\ pairs_tid[x] = t => n[pairs_tid[x]][x] < RnactMax[t]
  <2> DEFINE u == pairs_tid[x]
             k == Cardinality(PairsOf(q, u))
  <2>1. u \in Tasks /\ x \in PairsOf(q, u)
    BY <1>3
  <2>2. n[u] \in [PairsOf(q, u) -> 1 .. k]
    BY <1>5, <2>1 DEF Injection
  <2>3. n[u][x] \in 1 .. k
    BY <2>1, <2>2
  <2>4. k \in Nat /\ k =< RnactMax[u] /\ (u = t => k < RnactMax[u]) /\ RnactMax[u] \in Nat
    BY <1>4, <2>1, TaskLevels
  <2> HIDE DEF k, u
  <2> QED BY <2>3, <2>4 DEF u
<1>7. g \in Injection(PairIds, rest)
  <2>1. ASSUME NEW x \in PairIds PROVE g[x] \in rest
    <3>1. g[x] = <<pairs_tid[x], n[pairs_tid[x]][x]>>
      OBVIOUS
    <3>2. g[x] \in Activations
      BY <1>3, <1>6, <3>1 DEF Activations
    <3>3. g[x] # <<t, RnactMax[t]>>
      <4>1. pairs_tid[x] = t => n[pairs_tid[x]][x] # RnactMax[t]
        BY <1>6, TaskLevels
      <4> QED BY <3>1, <4>1
    <3> QED BY <3>2, <3>3
  <2>2. ASSUME NEW x \in PairIds, NEW y \in PairIds, g[x] = g[y] PROVE x = y
    <3> DEFINE u == pairs_tid[x]
    <3>1. pairs_tid[y] = u /\ n[u][x] = n[u][y]
      BY <2>2
    <3>2. u \in Tasks /\ x \in PairsOf(q, u) /\ y \in PairsOf(q, u)
      BY <1>3, <3>1
    <3> HIDE DEF u
    <3>3. IsInjective(n[u]) /\ DOMAIN n[u] = PairsOf(q, u)
      BY <1>5, <3>2 DEF Injection
    <3> QED BY <3>1, <3>2, <3>3 DEF IsInjective
  <2>3. DOMAIN g = PairIds /\ g = [x \in PairIds |-> g[x]]
    OBVIOUS
  <2> HIDE DEF g, rest
  <2>4. g \in [PairIds -> rest]
    BY <2>1, <2>3
  <2> QED BY <2>2, <2>3, <2>4 DEF Injection, IsInjective
<1> HIDE DEF g
<1>8. IsFiniteSet(Activations) /\ Cardinality(Activations) = Pairs /\ Pairs \in Nat
  <2>1. Cardinality(Activations) = Pairs /\ Pairs \in Nat
    BY ReadyQueueAssumption
  <2>2. IsFiniteSet(Activations)
    <3> DEFINE Of(u) == {u} \X (1 .. RnactMax[u])
    <3>1. \A S \in {Of(u) : u \in Tasks} : IsFiniteSet(S)
      <4> SUFFICES ASSUME NEW u \in Tasks PROVE IsFiniteSet(Of(u))
        OBVIOUS
      <4>1. IsFiniteSet({u}) /\ IsFiniteSet(1 .. RnactMax[u])
        <5>1. RnactMax[u] \in Int /\ 1 \in Int
          BY TaskLevels
        <5> QED BY <5>1, FS_Singleton, FS_Interval
      <4> QED BY <4>1, FS_Product
    <3>2. IsFiniteSet({Of(u) : u \in Tasks})
      <4> DEFINE f == [u \in Tasks |-> Of(u)]
                 I == {Of(u) : u \in Tasks}
      <4>1. f \in [Tasks -> I] /\ \A S \in I : \E u \in Tasks : f[u] = S
        OBVIOUS
      <4> HIDE DEF f, I
      <4>2. f \in Surjection(Tasks, I)
        BY <4>1 DEF Surjection
      <4>3. IsFiniteSet(I)
        BY <4>2, TaskLevels, FS_Surjection
      <4> QED BY <4>3 DEF I
    <3> QED BY <3>1, <3>2, FS_UNION DEF Activations
  <2> QED BY <2>1, <2>2
<1>9. <<t, RnactMax[t]>> \in Activations
  BY TaskLevels DEF Activations
<1>10. IsFiniteSet(rest) /\ Cardinality(rest) = Pairs - 1
  <2> DEFINE a == <<t, RnactMax[t]>>
  <2> HIDE DEF a
  <2>1. IsFiniteSet(Activations \ {a}) /\ Cardinality(Activations \ {a}) = Cardinality(Activations) - 1
    BY <1>8, <1>9, FS_RemoveElement DEF a
  <2> QED BY <1>8, <2>1 DEF a
<1> HIDE DEF rest
<1>11. Cardinality(PairIds) =< Cardinality(rest)
  BY <1>7, <1>10, FS_Injection
<1> QED BY <1>8, <1>10, <1>11, PairsFinite

\* The insertion that the code does not protect finds a free pair.
LEMMA FreeFound ==
  ASSUME RqInv
  PROVE  FreePairLeft
<1>1. PICK q, fr, st : Ready(q, fr, st)
  BY DEF RqInv
<1> SUFFICES ASSUME NEW t \in Tasks, Instances(t) < RnactMax[t] PROVE rq_free # -1
  BY DEF FreePairLeft
<1>2. Asked(q, st, t) < RnactMax[t]
  BY <1>1, ListsAre
<1>3. fr # <<>>
  BY <1>1, <1>2, FreeLeft
<1>4. fr \in Seq(PairIds) /\ Spells(rq_free, pairs_next, -1, fr)
  BY <1>1 DEF Ready, PairsSpell
<1>5. rq_free = fr[1] /\ 1 \in 1 .. Len(fr)
  BY <1>3, <1>4, EmptySeq, LenProperties DEF Spells
<1>6. fr[1] \in PairIds
  BY <1>4, <1>5, ElementOfSeq
<1> QED BY <1>5, <1>6, PairsFinite

-----------------------------------------------------------------------------
(* A pair that is filled.                                                  *)

\* c, the first free pair, comes to the end of the queue p.
Fills(q, fr, p, c, q2, fr2) ==
  /\ q \in Places /\ fr \in Seq(PairIds) /\ OnePlace(q, fr)
  /\ fr # <<>> /\ c = Head(fr) /\ p \in Levels
  /\ q2 = [q EXCEPT ![p] = Append(q[p], c)]
  /\ fr2 = Tail(fr)

\* The pair has left the free list for the queue.
LEMMA FilledMoves ==
  ASSUME NEW q, NEW fr, NEW p, NEW c, NEW q2, NEW fr2, Fills(q, fr, p, c, q2, fr2)
  PROVE  /\ c \in PairIds /\ Has(fr, c) /\ \A r \in Levels : ~Has(q[r], c)
         /\ q2 \in Places /\ fr2 \in Seq(PairIds)
         /\ q2[p] = Append(q[p], c) /\ \A r \in Levels : r # p => q2[r] = q[r]
         /\ \A x \in PairIds : Has(fr2, x) <=> Has(fr, x) /\ x # c
         /\ \A r \in Levels : \A x \in PairIds :
              Has(q2[r], x) <=> Has(q[r], x) \/ (r = p /\ x = c)
<1> USE DEF Fills
<1>1. /\ fr2 \in Seq(PairIds) /\ Len(fr) \in Nat /\ Len(fr2) = Len(fr) - 1 /\ Len(fr) >= 1
      /\ c = fr[1] /\ 1 \in 1 .. Len(fr)
      /\ \A i \in 1 .. Len(fr2) : fr2[i] = fr[i + 1]
  BY EmptySeq, LenProperties, HeadTailProperties
<1>2. c \in PairIds /\ Has(fr, c)
  BY <1>1, ElementOfSeq DEF Has
<1>3. \A r \in Levels : ~Has(q[r], c)
  BY <1>2 DEF OnePlace
<1>4. /\ q[p] \in Seq(PairIds) /\ Append(q[p], c) \in Seq(PairIds)
  BY <1>2, AppendProperties DEF Places
<1>5. q2 \in Places /\ q2[p] = Append(q[p], c) /\ \A r \in Levels : r # p => q2[r] = q[r]
  BY <1>4 DEF Places
<1>6. ASSUME NEW x \in PairIds PROVE Has(fr2, x) <=> Has(fr, x) /\ x # c
  <2>1. Once(fr)
    BY DEF OnePlace
  <2>2. ASSUME NEW i \in 1 .. Len(fr2), fr2[i] = x PROVE Has(fr, x) /\ x # c
    <3>1. i + 1 \in 1 .. Len(fr) /\ i + 1 # 1 /\ fr[i + 1] = x
      BY <1>1, <2>2
    <3> QED BY <1>1, <2>1, <3>1 DEF Has, Once
  <2>3. ASSUME NEW i \in 1 .. Len(fr), fr[i] = x, x # c PROVE Has(fr2, x)
    <3>1. i - 1 \in 1 .. Len(fr2) /\ (i - 1) + 1 = i
      BY <1>1, <2>3
    <3>2. fr2[i - 1] = x
      BY <1>1, <2>3, <3>1
    <3> QED BY <3>1, <3>2 DEF Has
  <2> QED BY <2>2, <2>3 DEF Has
<1>7. ASSUME NEW r \in Levels, NEW x \in PairIds
      PROVE  Has(q2[r], x) <=> Has(q[r], x) \/ (r = p /\ x = c)
  <2>1. CASE r = p
    BY <1>2, <1>4, <1>5, <2>1, HasAppended
  <2>2. CASE r # p
    BY <1>5, <2>2
  <2> QED BY <2>1, <2>2
<1> QED BY <1>1, <1>2, <1>3, <1>5, <1>6, <1>7

\* How rq_insert sets the links for it.
FillLinks(p, c) ==
  /\ queues_head \in [Levels -> PairIds \cup {-1}] /\ c = rq_free
  /\ rq_free' = pairs_next[c]
  /\ pairs_next'[c] = -1
  /\ \A x \in PairIds : x # c => pairs_next'[x] = IF x = queues_tail[p] THEN c ELSE pairs_next[x]
  /\ queues_head'[p] = IF queues_head[p] = -1 THEN c ELSE queues_head[p]
  /\ queues_tail'[p] = c
  /\ \A r \in Levels : r # p => queues_head'[r] = queues_head[r] /\ queues_tail'[r] = queues_tail[r]

\* The links spell the new lists.
LEMMA FilledSpells ==
  ASSUME NEW q, NEW fr, NEW p, NEW c, NEW q2, NEW fr2, Fills(q, fr, p, c, q2, fr2),
         PairsSpell(q, fr), FillLinks(p, c)
  PROVE  PairsSpell(q2, fr2)' /\ OnePlace(q2, fr2)
<1>1. /\ c \in PairIds /\ Has(fr, c) /\ \A r \in Levels : ~Has(q[r], c)
      /\ q2 \in Places /\ fr2 \in Seq(PairIds)
      /\ q2[p] = Append(q[p], c) /\ \A r \in Levels : r # p => q2[r] = q[r]
      /\ \A x \in PairIds : Has(fr2, x) <=> Has(fr, x) /\ x # c
      /\ \A r \in Levels : \A x \in PairIds : Has(q2[r], x) <=> Has(q[r], x) \/ (r = p /\ x = c)
  BY FilledMoves
<1>2. /\ q \in Places /\ fr \in Seq(PairIds) /\ fr # <<>> /\ p \in Levels /\ fr2 = Tail(fr)
      /\ Once(fr) /\ \A r \in Levels : Once(q[r]) /\ q[r] \in Seq(PairIds)
      /\ \A r, s \in Levels : \A x \in PairIds : Has(q[r], x) /\ Has(q[s], x) => r = s
      /\ \A x \in PairIds : Has(fr, x) <=> \A r \in Levels : ~Has(q[r], x)
  BY DEF Fills, OnePlace, Places
<1>3. /\ \A r \in Levels : Spells(queues_head[r], pairs_next, -1, q[r])
      /\ \A r \in Levels : queues_tail[r] = LastOf(q[r], -1)
      /\ Spells(rq_free, pairs_next, -1, fr)
  BY DEF PairsSpell
<1>4. \A r \in Levels : \A x \in PairIds :
        Has(q[r], x) => pairs_next'[x] = IF r = p /\ x = queues_tail[p] THEN c ELSE pairs_next[x]
  <2> SUFFICES ASSUME NEW r \in Levels, NEW x \in PairIds, Has(q[r], x)
               PROVE  pairs_next'[x] = IF r = p /\ x = queues_tail[p] THEN c ELSE pairs_next[x]
    OBVIOUS
  <2>1. x # c
    BY <1>1
  <2>2. x = queues_tail[p] => r = p
    <3> SUFFICES ASSUME x = queues_tail[p] PROVE r = p
      OBVIOUS
    <3>1. q[p] # <<>>
      BY <1>2, <1>3, PairsFinite DEF LastOf
    <3>2. Has(q[p], x)
      BY <1>2, <1>3, <3>1, EmptySeq, LenProperties DEF LastOf, Has
    <3> QED BY <1>2, <3>2
  <2> QED BY <2>1, <2>2 DEF FillLinks
<1>5. /\ Spells(queues_head'[p], pairs_next', -1, q2[p])
      /\ queues_tail'[p] = LastOf(q2[p], -1) /\ Once(q2[p])
  <2>1. \A x \in PairIds : Has(q[p], x) => pairs_next'[x] = IF x = LastOf(q[p], -1) THEN c ELSE pairs_next[x]
    BY <1>2, <1>3, <1>4
  <2>2. /\ Spells(IF queues_head[p] = -1 THEN c ELSE queues_head[p], pairs_next', -1, Append(q[p], c))
        /\ LastOf(Append(q[p], c), -1) = c /\ Once(Append(q[p], c))
    <3>1. /\ q[p] \in Seq(PairIds) /\ Once(q[p]) /\ Spells(queues_head[p], pairs_next, -1, q[p])
          /\ ~Has(q[p], c) /\ pairs_next'[c] = -1
      BY <1>1, <1>2, <1>3 DEF FillLinks
    <3> QED BY <1>1, <2>1, <3>1, PairsFinite, AppendSpells
  <2> QED BY <1>1, <2>2 DEF FillLinks
<1>6. ASSUME NEW r \in Levels, r # p
      PROVE  /\ Spells(queues_head'[r], pairs_next', -1, q2[r])
             /\ queues_tail'[r] = LastOf(q2[r], -1) /\ Once(q2[r])
  <2>1. \A x \in PairIds : Has(q[r], x) => pairs_next'[x] = pairs_next[x]
    BY <1>4, <1>6
  <2>2. Spells(queues_head[r], pairs_next', -1, q[r])
    BY <1>2, <1>3, <2>1, SameSpells
  <2> QED BY <1>1, <1>2, <1>3, <1>6, <2>2 DEF FillLinks
<1>7. Spells(rq_free', pairs_next', -1, fr2) /\ Once(fr2)
  <2>1. /\ rq_free = c /\ Spells(pairs_next[rq_free], pairs_next, -1, Tail(fr)) /\ Once(Tail(fr))
    BY <1>2, <1>3, PairsFinite, TailSpells DEF FillLinks
  <2>2. ASSUME NEW x \in PairIds, Has(fr2, x) PROVE pairs_next'[x] = pairs_next[x]
    <3>1. x # c /\ ~Has(q[p], x)
      BY <1>1, <1>2, <2>2
    <3>2. x # queues_tail[p]
      <4> SUFFICES ASSUME x = queues_tail[p] PROVE FALSE
        OBVIOUS
      <4>1. q[p] # <<>>
        BY <1>2, <1>3, PairsFinite DEF LastOf
      <4>2. Has(q[p], x)
        BY <1>2, <1>3, <4>1, EmptySeq, LenProperties DEF LastOf, Has
      <4> QED BY <3>1, <4>2
    <3> QED BY <3>1, <3>2 DEF FillLinks
  <2>3. Spells(pairs_next[c], pairs_next, -1, fr2)
    BY <1>2, <2>1
  <2>4. Spells(pairs_next[c], pairs_next', -1, fr2)
    BY <1>1, <2>2, <2>3, SameSpells
  <2> QED BY <1>2, <2>1, <2>4 DEF FillLinks
<1>8. PairsSpell(q2, fr2)'
  BY <1>5, <1>6, <1>7 DEF PairsSpell
<1>9. OnePlace(q2, fr2)
  <2>1. Once(fr2) /\ \A r \in Levels : Once(q2[r])
    BY <1>5, <1>6, <1>7
  <2>2. \A r, s \in Levels : \A x \in PairIds : Has(q2[r], x) /\ Has(q2[s], x) => r = s
    BY <1>1, <1>2
  <2>3. \A x \in PairIds : Has(fr2, x) <=> \A r \in Levels : ~Has(q2[r], x)
    BY <1>1, <1>2
  <2> QED BY <2>1, <2>2, <2>3 DEF OnePlace
<1> QED BY <1>8, <1>9

\* The first of a list that is not empty is an entry of it.
LEMMA HeadHas ==
  ASSUME NEW fr \in Seq(PairIds), fr # <<>>, NEW next, Spells(rq_free, next, -1, fr)
  PROVE  rq_free = Head(fr) /\ rq_free \in PairIds /\ Has(fr, rq_free)
<1>1. Len(fr) \in Nat /\ 1 \in 1 .. Len(fr) /\ Head(fr) = fr[1]
  BY EmptySeq, LenProperties, HeadTailProperties
<1>2. rq_free = fr[1] /\ fr[1] \in PairIds
  BY <1>1, ElementOfSeq DEF Spells
<1> QED BY <1>1, <1>2 DEF Has

\* The task t is queued in the first free pair c at its level p.
QueuesAt(q, t, p, c, q2) ==
  /\ p = rq_link[t] /\ c = rq_free
  /\ q2 = [q EXCEPT ![p] = Append(q[p], c)]

\* An activation that is queued.
LEMMA InsertStep ==
  ASSUME RqTypes, NEW q, NEW fr, NEW st, Ready(q, fr, st), NEW t \in Tasks, RqInsert(t),
         NEW p, NEW c, NEW q2, QueuesAt(q, t, p, c, q2)
  PROVE  /\ RqTypes' /\ Ready(q2, Tail(fr), st)'
         /\ Fills(q, fr, p, c, q2, Tail(fr)) /\ pairs_tid' = [pairs_tid EXCEPT ![c] = t]
<1> DEFINE fr2 == Tail(fr)
<1>1. /\ q \in Places /\ fr \in Seq(PairIds) /\ st \in Seq(Tasks)
      /\ PairsSpell(q, fr) /\ StackSpells(st) /\ OnePlace(q, fr) /\ AtItsLevel(q) /\ MaskIs
      /\ \A u \in Tasks : Asked(q, st, u) =< RnactMax[u]
  BY DEF Ready
<1>2. Asked(q, st, t) < RnactMax[t]
  BY ListsAre DEF RqInsert
<1>3. fr # <<>>
  BY <1>2, FreeLeft
<1>4. p \in Levels /\ p = rq_link[t] /\ c = rq_free
  BY TaskLevels DEF QueuesAt
<1>5. c = Head(fr) /\ c \in PairIds
  BY <1>1, <1>3, <1>4, HeadHas DEF PairsSpell
<1>6. Fills(q, fr, p, c, q2, fr2)
  BY <1>1, <1>3, <1>4, <1>5 DEF Fills, QueuesAt
<1> HIDE DEF fr2
<1>7. /\ q2 \in Places /\ fr2 \in Seq(PairIds) /\ \A r \in Levels : ~Has(q[r], c)
      /\ \A r \in Levels : \A x \in PairIds : Has(q2[r], x) <=> Has(q[r], x) \/ (r = p /\ x = c)
  BY <1>6, FilledMoves
<1>8. /\ rq_free' = pairs_next[c]
      /\ pairs_tid' = [pairs_tid EXCEPT ![c] = t]
      /\ pairs_next' = IF queues_tail[p] = -1 THEN [pairs_next EXCEPT ![c] = -1]
                       ELSE [pairs_next EXCEPT ![c] = -1, ![queues_tail[p]] = c]
      /\ rq_bitmask' = IF queues_tail[p] = -1 THEN rq_bitmask + 2^p ELSE rq_bitmask
      /\ queues_head' = IF queues_tail[p] = -1 THEN [queues_head EXCEPT ![p] = c] ELSE queues_head
      /\ queues_tail' = [queues_tail EXCEPT ![p] = c]
      /\ UNCHANGED <<stkfirst, th_next>>
  BY <1>4 DEF RqInsert, rq_insert
<1>9. /\ queues_head[p] = -1 <=> queues_tail[p] = -1
      /\ queues_tail[p] # -1 => Has(q[p], queues_tail[p]) /\ queues_tail[p] # c
  BY <1>4, <1>7, HeadIs
<1>10. RqTypes'
  <2>1. pairs_next' \in [PairIds -> PairIds \cup {-1}]
    BY <1>5, <1>8 DEF RqTypes
  <2>2. queues_head' \in [Levels -> PairIds \cup {-1}] /\ queues_tail' \in [Levels -> PairIds \cup {-1}]
    BY <1>5, <1>8 DEF RqTypes
  <2>3. pairs_tid' \in [PairIds -> Tasks \cup {NIL}] /\ rq_free' \in PairIds \cup {-1}
    BY <1>5, <1>8 DEF RqTypes
  <2> QED BY <1>8, <2>1, <2>2, <2>3 DEF RqTypes
<1>11. FillLinks(p, c)
  <2>1. pairs_next'[c] = -1
    BY <1>5, <1>8, <1>9 DEF RqTypes
  <2>2. ASSUME NEW x \in PairIds, x # c
        PROVE  pairs_next'[x] = IF x = queues_tail[p] THEN c ELSE pairs_next[x]
    BY <1>5, <1>8, <2>2, PairsFinite DEF RqTypes
  <2>3. /\ queues_head'[p] = IF queues_head[p] = -1 THEN c ELSE queues_head[p]
        /\ queues_tail'[p] = c
        /\ \A r \in Levels : r # p => queues_head'[r] = queues_head[r] /\ queues_tail'[r] = queues_tail[r]
    BY <1>4, <1>8, <1>9 DEF RqTypes
  <2> QED BY <1>4, <1>8, <2>1, <2>2, <2>3 DEF FillLinks, RqTypes
<1>12. PairsSpell(q2, fr2)' /\ OnePlace(q2, fr2)
  BY <1>1, <1>6, <1>11, FilledSpells
<1>13. StackSpells(st)'
  BY <1>1, <1>8 DEF StackSpells
<1>14. \A x \in PairIds : pairs_tid'[x] = IF x = c THEN t ELSE pairs_tid[x]
  BY <1>5, <1>8 DEF RqTypes
<1>15. AtItsLevel(q2)'
  <2> SUFFICES ASSUME NEW r \in Levels, NEW x \in PairIds, Has(q2[r], x)
               PROVE  pairs_tid'[x] \in Tasks /\ rq_link[pairs_tid'[x]] = r
    BY DEF AtItsLevel
  <2>1. CASE x = c
    BY <1>4, <1>7, <1>14, <2>1
  <2>2. CASE x # c
    BY <1>1, <1>7, <1>14, <2>2 DEF AtItsLevel
  <2> QED BY <2>1, <2>2
<1>16. MaskIs'
  <2>1. /\ rq_bitmask \in Nat /\ rq_bitmask < Power(16)
        /\ \A r \in Levels : BitOf(rq_bitmask, r) = IF queues_head[r] = -1 THEN 0 ELSE 1
    BY <1>1 DEF MaskIs
  <2>2. /\ queues_head'[p] # -1
        /\ \A r \in Levels : r # p => queues_head'[r] = queues_head[r]
    BY <1>5, <1>11, PairsFinite DEF FillLinks
  <2>3. CASE queues_tail[p] = -1
    <3>1. BitOf(rq_bitmask, p) = 0 /\ rq_bitmask' = rq_bitmask + Power(p)
      BY <1>4, <1>8, <1>9, <2>1, <2>3 DEF Power
    <3>2. /\ rq_bitmask' \in Nat /\ rq_bitmask' < Power(16)
          /\ \A r \in Levels : BitOf(rq_bitmask', r) = IF r = p THEN 1 ELSE BitOf(rq_bitmask, r)
      BY <1>4, <2>1, <3>1, BitAdded
    <3>3. \A r \in Levels : BitOf(rq_bitmask', r) = IF queues_head'[r] = -1 THEN 0 ELSE 1
      BY <2>1, <2>2, <3>2
    <3> QED BY <3>2, <3>3 DEF MaskIs
  <2>4. CASE queues_tail[p] # -1
    <3>1. rq_bitmask' = rq_bitmask /\ queues_head' = queues_head
      BY <1>8, <2>4
    <3> QED BY <2>1, <3>1 DEF MaskIs
  <2> QED BY <2>3, <2>4
<1>17. \A u \in Tasks : Asked(q2, st, u)' =< RnactMax[u]
  <2> SUFFICES ASSUME NEW u \in Tasks
               PROVE  Cardinality(HeldBy(q2[rq_link[u]], pairs_tid', u))
                        + (IF Has(st, u) THEN 1 ELSE 0) =< RnactMax[u]
    BY DEF Asked, PairsOf
  <2> DEFINE H == HeldBy(q[rq_link[u]], pairs_tid, u)
             H2 == HeldBy(q2[rq_link[u]], pairs_tid', u)
  <2>1. rq_link[u] \in Levels /\ RnactMax[u] \in Nat
    BY TaskLevels
  <2>2. IsFiniteSet(H) /\ Cardinality(H) \in Nat
    BY PairsFinite, FS_Subset, FS_CardinalityType DEF HeldBy
  <2>3. Cardinality(H) + (IF Has(st, u) THEN 1 ELSE 0) =< RnactMax[u]
    BY <1>1 DEF Asked, PairsOf
  <2>4. u = t => Cardinality(H) + (IF Has(st, u) THEN 1 ELSE 0) < RnactMax[u]
    BY <1>2 DEF Asked, PairsOf
  <2>5. \A x \in PairIds : x \in H2 <=> Has(q2[rq_link[u]], x) /\ pairs_tid'[x] = u
    BY DEF HeldBy
  <2>6. \A x \in PairIds : x \in H <=> Has(q[rq_link[u]], x) /\ pairs_tid[x] = u
    BY DEF HeldBy
  <2>7. H \subseteq PairIds /\ H2 \subseteq PairIds
    BY DEF HeldBy
  <2> HIDE DEF H, H2
  <2>8. CASE u = t
    <3>1. c \notin H /\ H2 = H \cup {c}
      BY <1>4, <1>5, <1>7, <1>14, <2>1, <2>5, <2>6, <2>7, <2>8
    <3>2. Cardinality(H2) = Cardinality(H) + 1
      BY <2>2, <3>1, FS_AddElement
    <3> QED BY <2>1, <2>2, <2>4, <2>8, <3>2 DEF H2
  <2>9. CASE u # t
    <3>1. ASSUME NEW x \in PairIds PROVE x \in H2 <=> x \in H
      <4>1. CASE x = c
        BY <1>7, <1>14, <2>1, <2>5, <2>6, <2>9, <4>1
      <4>2. CASE x # c
        BY <1>7, <1>14, <2>1, <2>5, <2>6, <4>2
      <4> QED BY <4>1, <4>2
    <3>2. H2 = H
      BY <2>7, <3>1
    <3> QED BY <2>3, <3>2 DEF H2
  <2> QED BY <2>8, <2>9
<1>18. Ready(q2, fr2, st)'
  BY <1>1, <1>7, <1>12, <1>13, <1>15, <1>16, <1>17 DEF Ready
<1> QED BY <1>6, <1>8, <1>10, <1>18 DEF fr2

-----------------------------------------------------------------------------
(* A pair that is emptied.                                                 *)

\* c, the first pair of the queue p, comes to the front of the free list.
Empties(q, fr, p, c, q2, fr2) ==
  /\ q \in Places /\ fr \in Seq(PairIds) /\ OnePlace(q, fr)
  /\ p \in Levels /\ q[p] # <<>> /\ c = Head(q[p])
  /\ q2 = [q EXCEPT ![p] = Tail(q[p])]
  /\ fr2 = <<c>> \o fr

\* How rq2stk_exchange sets the links for it.
EmptyLinks(p, c) ==
  /\ c = queues_head[p]
  /\ rq_free' = c /\ pairs_next'[c] = rq_free
  /\ \A x \in PairIds : x # c => pairs_next'[x] = pairs_next[x]
  /\ queues_head'[p] = pairs_next[c]
  /\ queues_tail'[p] = IF pairs_next[c] = -1 THEN -1 ELSE queues_tail[p]
  /\ \A r \in Levels : r # p => queues_head'[r] = queues_head[r] /\ queues_tail'[r] = queues_tail[r]

\* The pair has left the queue for the free list, and the links spell the new lists.
LEMMA EmptiedSpells ==
  ASSUME NEW q, NEW fr, NEW p, NEW c, NEW q2, NEW fr2, Empties(q, fr, p, c, q2, fr2),
         PairsSpell(q, fr), EmptyLinks(p, c)
  PROVE  /\ PairsSpell(q2, fr2)' /\ OnePlace(q2, fr2)
         /\ c \in PairIds /\ Has(q[p], c) /\ q2 \in Places /\ fr2 \in Seq(PairIds)
         /\ q2[p] = Tail(q[p]) /\ \A r \in Levels : r # p => q2[r] = q[r]
         /\ \A r \in Levels : \A x \in PairIds : Has(q2[r], x) <=> Has(q[r], x) /\ x # c
         /\ pairs_next[c] = -1 <=> q2[p] = <<>>
<1>1. /\ q \in Places /\ fr \in Seq(PairIds) /\ p \in Levels /\ q[p] # <<>> /\ c = Head(q[p])
      /\ q2 = [q EXCEPT ![p] = Tail(q[p])] /\ fr2 = <<c>> \o fr
      /\ Once(fr) /\ \A r \in Levels : Once(q[r]) /\ q[r] \in Seq(PairIds)
      /\ \A r, s \in Levels : \A x \in PairIds : Has(q[r], x) /\ Has(q[s], x) => r = s
      /\ \A x \in PairIds : Has(fr, x) <=> \A r \in Levels : ~Has(q[r], x)
  BY DEF Empties, OnePlace, Places
<1>2. /\ \A r \in Levels : Spells(queues_head[r], pairs_next, -1, q[r])
      /\ \A r \in Levels : queues_tail[r] = LastOf(q[r], -1)
      /\ Spells(rq_free, pairs_next, -1, fr)
  BY DEF PairsSpell
<1>3. c = queues_head[p]
  BY DEF EmptyLinks
<1>4. /\ c \in PairIds /\ Has(q[p], c)
      /\ Spells(pairs_next[c], pairs_next, -1, Tail(q[p]))
      /\ LastOf(Tail(q[p]), -1) = IF pairs_next[c] = -1 THEN -1 ELSE LastOf(q[p], -1)
      /\ Once(Tail(q[p]))
      /\ \A x \in PairIds : Has(Tail(q[p]), x) <=> Has(q[p], x) /\ x # c
  <2> DEFINE s == q[p]
             h == queues_head[p]
  <2>1. s \in Seq(PairIds) /\ Once(s) /\ s # <<>> /\ Spells(h, pairs_next, -1, s)
    BY <1>1, <1>2
  <2> HIDE DEF s, h
  <2>2. /\ h \in PairIds /\ Has(s, h)
        /\ Spells(pairs_next[h], pairs_next, -1, Tail(s))
        /\ LastOf(Tail(s), -1) = IF pairs_next[h] = -1 THEN -1 ELSE LastOf(s, -1)
        /\ Once(Tail(s))
        /\ \A x \in PairIds : Has(Tail(s), x) <=> Has(s, x) /\ x # h
    BY <2>1, PairsFinite, TailSpells
  <2> QED BY <1>3, <2>2 DEF s, h
<1>5. /\ Tail(q[p]) \in Seq(PairIds)
      /\ q2 \in Places /\ q2[p] = Tail(q[p]) /\ \A r \in Levels : r # p => q2[r] = q[r]
  <2>1. Tail(q[p]) \in Seq(PairIds)
    BY <1>1, HeadTailProperties
  <2> QED BY <1>1, <2>1 DEF Places
<1>6. ASSUME NEW r \in Levels, NEW x \in PairIds PROVE Has(q2[r], x) <=> Has(q[r], x) /\ x # c
  <2>1. CASE r = p
    BY <1>4, <1>5, <2>1
  <2>2. CASE r # p
    BY <1>1, <1>4, <1>5, <2>2
  <2> QED BY <2>1, <2>2
<1>7. ~Has(fr, c)
  BY <1>1, <1>4
<1>8. /\ fr2 \in Seq(PairIds) /\ Once(fr2) /\ Spells(rq_free', pairs_next', -1, fr2)
      /\ \A x \in PairIds : Has(fr2, x) <=> Has(fr, x) \/ x = c
  <2>1. \A x \in PairIds : Has(fr, x) => pairs_next'[x] = pairs_next[x]
    BY <1>7 DEF EmptyLinks
  <2>2. pairs_next'[c] = rq_free /\ rq_free' = c
    BY DEF EmptyLinks
  <2>3. /\ <<c>> \o fr \in Seq(PairIds) /\ Once(<<c>> \o fr)
        /\ Spells(c, pairs_next', -1, <<c>> \o fr)
        /\ \A x \in PairIds : Has(<<c>> \o fr, x) <=> Has(fr, x) \/ x = c
    BY <1>1, <1>2, <1>4, <1>7, <2>1, <2>2, PairsFinite, PushSpells
  <2> QED BY <1>1, <2>2, <2>3
<1>9. ASSUME NEW r \in Levels
      PROVE  /\ Spells(queues_head'[r], pairs_next', -1, q2[r])
             /\ queues_tail'[r] = LastOf(q2[r], -1) /\ Once(q2[r])
  <2>1. \A x \in PairIds : Has(q2[r], x) => pairs_next'[x] = pairs_next[x]
    BY <1>6 DEF EmptyLinks
  <2>2. /\ Spells(queues_head'[r], pairs_next, -1, q2[r])
        /\ queues_tail'[r] = LastOf(q2[r], -1) /\ Once(q2[r])
    <3>1. CASE r = p
      BY <1>2, <1>4, <1>5, <3>1 DEF EmptyLinks
    <3>2. CASE r # p
      BY <1>1, <1>2, <1>5, <3>2 DEF EmptyLinks
    <3> QED BY <3>1, <3>2
  <2>3. q2[r] \in Seq(PairIds)
    BY <1>5 DEF Places
  <2>4. Spells(queues_head'[r], pairs_next', -1, q2[r])
    BY <2>1, <2>2, <2>3, SameSpells
  <2> QED BY <2>2, <2>4
<1>10. PairsSpell(q2, fr2)'
  BY <1>8, <1>9 DEF PairsSpell
<1>11. OnePlace(q2, fr2)
  <2>1. \A r, s \in Levels : \A x \in PairIds : Has(q2[r], x) /\ Has(q2[s], x) => r = s
    BY <1>1, <1>6
  <2>2. \A x \in PairIds : Has(fr2, x) <=> \A r \in Levels : ~Has(q2[r], x)
    BY <1>1, <1>4, <1>6, <1>8
  <2> QED BY <1>8, <1>9, <2>1, <2>2 DEF OnePlace
<1>12. pairs_next[c] = -1 <=> q2[p] = <<>>
  <2>1. pairs_next[c] = IF q2[p] = <<>> THEN -1 ELSE q2[p][1]
    BY <1>4, <1>5 DEF Spells
  <2>2. q2[p] # <<>> => q2[p][1] \in PairIds
    <3> DEFINE s == q2[p]
    <3>1. s \in Seq(PairIds)
      BY <1>5
    <3> HIDE DEF s
    <3>2. s # <<>> => s[1] \in PairIds
      BY <3>1, EmptySeq, LenProperties, ElementOfSeq
    <3> QED BY <3>2 DEF s
  <2> QED BY <2>1, <2>2, PairsFinite
<1> QED BY <1>4, <1>5, <1>6, <1>8, <1>10, <1>11, <1>12

\* The pair c at the head of the highest level p, with its task t, which goes on the
\* stack st.
DispatchesAt(q, fr, st, p, c, t, q2, fr2, st2) ==
  /\ p = HighestLevel /\ c = queues_head[p] /\ t = pairs_tid[c]
  /\ q2 = [q EXCEPT ![p] = Tail(q[p])]
  /\ fr2 = <<c>> \o fr
  /\ st2 = <<t>> \o st

\* The first task that is dispatched.
LEMMA ExchangeStep ==
  ASSUME RqTypes, NEW q, NEW fr, NEW st, Ready(q, fr, st), Exchange,
         NEW p, NEW c, NEW t, NEW q2, NEW fr2, NEW st2,
         DispatchesAt(q, fr, st, p, c, t, q2, fr2, st2)
  PROVE  /\ RqTypes' /\ Ready(q2, fr2, st2)'
         /\ p \in Levels /\ q[p] # <<>> /\ c = Head(q[p])
<1>1. /\ q \in Places /\ fr \in Seq(PairIds) /\ st \in Seq(Tasks)
      /\ PairsSpell(q, fr) /\ StackSpells(st) /\ OnePlace(q, fr) /\ AtItsLevel(q) /\ MaskIs
      /\ \A u \in Tasks : Asked(q, st, u) =< RnactMax[u]
  BY DEF Ready
<1>2. /\ p = HighestLevel /\ c = queues_head[p] /\ t = pairs_tid[c]
      /\ q2 = [q EXCEPT ![p] = Tail(q[p])] /\ fr2 = <<c>> \o fr /\ st2 = <<t>> \o st
  BY DEF DispatchesAt
<1>3. rq_queryfirst # NIL /\ rq_queryfirst \notin StackTasks
  BY DEF Exchange
<1>4. /\ p \in Levels /\ q[p] # <<>> /\ c = q[p][1] /\ t \in Tasks /\ rq_link[t] = p
      /\ BitOf(rq_bitmask, p) = 1 /\ ~Has(st, t)
  BY <1>2, <1>3, FirstIs, ListsAre
<1>5. c = Head(q[p])
  BY <1>1, <1>4, HeadTailProperties DEF Places
<1>6. Empties(q, fr, p, c, q2, fr2)
  BY <1>1, <1>2, <1>4, <1>5 DEF Empties
<1>7. /\ queues_head' = [queues_head EXCEPT ![p] = pairs_next[c]]
      /\ pairs_next' = [pairs_next EXCEPT ![c] = rq_free]
      /\ rq_free' = c
      /\ queues_tail' = IF pairs_next[c] = -1 THEN [queues_tail EXCEPT ![p] = -1] ELSE queues_tail
      /\ rq_bitmask' = IF pairs_next[c] = -1 THEN rq_bitmask - 2^p ELSE rq_bitmask
      /\ th_next' = [th_next EXCEPT ![t] = stkfirst]
      /\ stkfirst' = t
      /\ pairs_tid' = pairs_tid
  BY <1>2 DEF Exchange, rq2stk_exchange
<1>8. c \in PairIds
  BY <1>1, <1>4, HeadIs
<1>9. EmptyLinks(p, c)
  <2>1. pairs_next'[c] = rq_free /\ \A x \in PairIds : x # c => pairs_next'[x] = pairs_next[x]
    BY <1>7, <1>8 DEF RqTypes
  <2>2. /\ queues_head'[p] = pairs_next[c]
        /\ queues_tail'[p] = IF pairs_next[c] = -1 THEN -1 ELSE queues_tail[p]
        /\ \A r \in Levels : r # p => queues_head'[r] = queues_head[r] /\ queues_tail'[r] = queues_tail[r]
    BY <1>4, <1>7 DEF RqTypes
  <2> QED BY <1>2, <1>7, <2>1, <2>2 DEF EmptyLinks
<1>10. /\ PairsSpell(q2, fr2)' /\ OnePlace(q2, fr2)
       /\ c \in PairIds /\ Has(q[p], c) /\ q2 \in Places /\ fr2 \in Seq(PairIds)
       /\ q2[p] = Tail(q[p]) /\ \A r \in Levels : r # p => q2[r] = q[r]
       /\ \A r \in Levels : \A x \in PairIds : Has(q2[r], x) <=> Has(q[r], x) /\ x # c
       /\ pairs_next[c] = -1 <=> q2[p] = <<>>
  BY <1>1, <1>6, <1>9, EmptiedSpells
<1>11. RqTypes'
  BY <1>4, <1>7, <1>8 DEF RqTypes
<1>12. /\ st2 \in Seq(Tasks) /\ StackSpells(st2)'
       /\ \A u \in Tasks : Has(st2, u) <=> Has(st, u) \/ u = t
  <2>1. Spells(stkfirst, th_next, NIL, st) /\ Once(st)
    BY <1>1 DEF StackSpells
  <2>2. th_next'[t] = stkfirst /\ \A u \in Tasks : Has(st, u) => th_next'[u] = th_next[u]
    BY <1>4, <1>7 DEF RqTypes
  <2>3. /\ <<t>> \o st \in Seq(Tasks) /\ Spells(t, th_next', NIL, <<t>> \o st) /\ Once(<<t>> \o st)
        /\ \A u \in Tasks : Has(<<t>> \o st, u) <=> Has(st, u) \/ u = t
    BY <1>1, <1>4, <2>1, <2>2, TaskLevels, PushSpells
  <2> QED BY <1>2, <1>7, <2>3 DEF StackSpells
<1>13. AtItsLevel(q2)'
  BY <1>1, <1>7, <1>10 DEF AtItsLevel
<1>14. MaskIs'
  <2>1. /\ rq_bitmask \in Nat /\ rq_bitmask < Power(16)
        /\ \A r \in Levels : BitOf(rq_bitmask, r) = IF queues_head[r] = -1 THEN 0 ELSE 1
    BY <1>1 DEF MaskIs
  <2>2. queues_head'[p] = pairs_next[c] /\ \A r \in Levels : r # p => queues_head'[r] = queues_head[r]
    BY <1>9 DEF EmptyLinks
  <2>3. CASE pairs_next[c] = -1
    <3>1. rq_bitmask' = rq_bitmask - Power(p)
      BY <1>7, <2>3 DEF Power
    <3>2. /\ rq_bitmask' \in Nat /\ rq_bitmask' < Power(16)
          /\ \A r \in Levels : BitOf(rq_bitmask', r) = IF r = p THEN 0 ELSE BitOf(rq_bitmask, r)
      BY <1>4, <2>1, <3>1, BitTaken
    <3>3. \A r \in Levels : BitOf(rq_bitmask', r) = IF queues_head'[r] = -1 THEN 0 ELSE 1
      BY <2>1, <2>2, <2>3, <3>2
    <3> QED BY <3>2, <3>3 DEF MaskIs
  <2>4. CASE pairs_next[c] # -1
    <3>1. rq_bitmask' = rq_bitmask
      BY <1>7, <2>4
    <3>2. \A r \in Levels : BitOf(rq_bitmask', r) = IF queues_head'[r] = -1 THEN 0 ELSE 1
      BY <1>4, <2>1, <2>2, <2>4, <3>1
    <3> QED BY <2>1, <3>1, <3>2 DEF MaskIs
  <2> QED BY <2>3, <2>4
<1>15. \A u \in Tasks : Asked(q2, st2, u)' =< RnactMax[u]
  <2> SUFFICES ASSUME NEW u \in Tasks
               PROVE  Cardinality(HeldBy(q2[rq_link[u]], pairs_tid', u))
                        + (IF Has(st2, u) THEN 1 ELSE 0) =< RnactMax[u]
    BY DEF Asked, PairsOf
  <2> DEFINE H == HeldBy(q[rq_link[u]], pairs_tid, u)
             H2 == HeldBy(q2[rq_link[u]], pairs_tid', u)
  <2>1. rq_link[u] \in Levels /\ RnactMax[u] \in Nat
    BY TaskLevels
  <2>2. IsFiniteSet(H) /\ Cardinality(H) \in Nat
    BY PairsFinite, FS_Subset, FS_CardinalityType DEF HeldBy
  <2>3. Cardinality(H) + (IF Has(st, u) THEN 1 ELSE 0) =< RnactMax[u]
    BY <1>1 DEF Asked, PairsOf
  <2>4. \A x \in PairIds : x \in H2 <=> Has(q2[rq_link[u]], x) /\ pairs_tid'[x] = u
    BY DEF HeldBy
  <2>5. \A x \in PairIds : x \in H <=> Has(q[rq_link[u]], x) /\ pairs_tid[x] = u
    BY DEF HeldBy
  <2>6. H \subseteq PairIds /\ H2 \subseteq PairIds
    BY DEF HeldBy
  <2> HIDE DEF H, H2
  <2>7. H2 = H \ {c}
    <3>1. ASSUME NEW x \in PairIds PROVE x \in H2 <=> x \in H /\ x # c
      BY <1>7, <1>10, <2>1, <2>4, <2>5
    <3> QED BY <2>6, <3>1
  <2>8. c \in H <=> u = t
    <3>1. u = t => c \in H
      BY <1>2, <1>4, <1>10, <2>5
    <3>2. c \in H => u = t
      BY <1>2, <1>8, <2>5
    <3> QED BY <3>1, <3>2
  <2>9. Cardinality(H2) = IF u = t THEN Cardinality(H) - 1 ELSE Cardinality(H)
    BY <2>2, <2>7, <2>8, FS_RemoveElement
  <2>10. CASE u = t
    BY <1>4, <1>12, <2>1, <2>2, <2>3, <2>9, <2>10 DEF H2
  <2>11. CASE u # t
    BY <1>12, <2>3, <2>9, <2>11 DEF H2
  <2> QED BY <2>10, <2>11
<1>16. Ready(q2, fr2, st2)'
  BY <1>10, <1>12, <1>13, <1>14, <1>15 DEF Ready
<1> QED BY <1>4, <1>5, <1>11, <1>16

-----------------------------------------------------------------------------
(* The invariant holds.                                                    *)

\* The task on the top of the stack goes.
LEMMA PopStep ==
  ASSUME RqTypes, NEW q, NEW fr, NEW st, Ready(q, fr, st), PopStack
  PROVE  RqTypes' /\ Ready(q, fr, Tail(st))' /\ st # <<>>
<1>1. /\ q \in Places /\ fr \in Seq(PairIds) /\ st \in Seq(Tasks)
      /\ PairsSpell(q, fr) /\ StackSpells(st) /\ OnePlace(q, fr) /\ AtItsLevel(q) /\ MaskIs
      /\ \A u \in Tasks : Asked(q, st, u) =< RnactMax[u]
  BY DEF Ready
<1>2. /\ stkfirst # NIL /\ stkfirst' = th_next[stkfirst] /\ th_next' = th_next
      /\ pairs_next' = pairs_next /\ pairs_tid' = pairs_tid /\ queues_head' = queues_head
      /\ queues_tail' = queues_tail /\ rq_free' = rq_free /\ rq_bitmask' = rq_bitmask
  BY DEF PopStack, rqVars
<1>3. Spells(stkfirst, th_next, NIL, st) /\ Once(st)
  BY <1>1 DEF StackSpells
<1>4. st # <<>>
  BY <1>2, <1>3 DEF Spells
<1> DEFINE st2 == Tail(st)
<1>5. /\ stkfirst \in Tasks /\ Spells(th_next[stkfirst], th_next, NIL, st2) /\ Once(st2)
      /\ \A u \in Tasks : Has(st2, u) <=> Has(st, u) /\ u # stkfirst
  BY <1>1, <1>3, <1>4, TaskLevels, TailSpells
<1>6. st2 \in Seq(Tasks)
  BY <1>1, <1>4, HeadTailProperties
<1> HIDE DEF st2
<1>7. StackSpells(st2)'
  BY <1>2, <1>5 DEF StackSpells
<1>8. PairsSpell(q, fr)' /\ AtItsLevel(q)' /\ MaskIs'
  BY <1>1, <1>2 DEF PairsSpell, AtItsLevel, MaskIs
<1>9. \A u \in Tasks : Asked(q, st2, u)' =< RnactMax[u]
  <2> SUFFICES ASSUME NEW u \in Tasks
               PROVE  Cardinality(HeldBy(q[rq_link[u]], pairs_tid, u))
                        + (IF Has(st2, u) THEN 1 ELSE 0) =< RnactMax[u]
    BY <1>2 DEF Asked, PairsOf
  <2> DEFINE H == HeldBy(q[rq_link[u]], pairs_tid, u)
  <2>1. IsFiniteSet(H) /\ Cardinality(H) \in Nat /\ RnactMax[u] \in Nat
    BY TaskLevels, PairsFinite, FS_Subset, FS_CardinalityType DEF HeldBy
  <2>2. Cardinality(H) + (IF Has(st, u) THEN 1 ELSE 0) =< RnactMax[u]
    BY <1>1 DEF Asked, PairsOf
  <2> HIDE DEF H
  <2>3. Cardinality(H) + (IF Has(st2, u) THEN 1 ELSE 0) =< RnactMax[u]
    BY <1>5, <2>1, <2>2
  <2> QED BY <2>3 DEF H
<1>10. RqTypes'
  BY <1>2, <1>5 DEF RqTypes
<1>11. Ready(q, fr, st2)'
  BY <1>1, <1>6, <1>7, <1>8, <1>9 DEF Ready
<1> QED BY <1>4, <1>10, <1>11 DEF st2

\* At the start all pairs are free, in the order of their numbers.
LEMMA InitReady ==
  ASSUME RqInit
  PROVE  RqTypes /\ Ready([p \in Levels |-> <<>>], [i \in 1 .. Pairs |-> i - 1], <<>>)
<1> DEFINE q == [p \in Levels |-> <<>>]
           fr == [i \in 1 .. Pairs |-> i - 1]
<1>1. Pairs \in Nat /\ Pairs > 0
  BY ReadyQueueAssumption
<1>2. /\ pairs_next = [x \in PairIds |-> IF x = Pairs - 1 THEN -1 ELSE x + 1]
      /\ pairs_tid = [x \in PairIds |-> NIL]
      /\ queues_head = [p \in Levels |-> -1] /\ queues_tail = [p \in Levels |-> -1]
      /\ rq_free = 0 /\ rq_bitmask = 0 /\ stkfirst = NIL /\ th_next = [t \in Tasks |-> NIL]
  BY DEF RqInit
<1>3. RqTypes
  BY <1>1, <1>2 DEF RqTypes, PairIds
<1>4. /\ fr \in Seq(PairIds) /\ Len(fr) = Pairs /\ fr # <<>>
      /\ \A i \in 1 .. Pairs : fr[i] = i - 1
  <2>1. fr \in [1 .. Pairs -> PairIds]
    BY <1>1 DEF PairIds
  <2>2. fr \in Seq(PairIds)
    BY <1>1, <2>1, SeqDef
  <2>3. DOMAIN fr = 1 .. Pairs /\ \A i \in 1 .. Pairs : fr[i] = i - 1
    OBVIOUS
  <2> HIDE DEF fr
  <2>4. Len(fr) \in Nat /\ DOMAIN fr = 1 .. Len(fr)
    BY <2>2, LenProperties
  <2>5. Len(fr) = Pairs
    BY <1>1, <2>3, <2>4
  <2> QED BY <1>1, <2>2, <2>3, <2>5, EmptySeq
<1>5. \A p \in Levels : q[p] = <<>> /\ q[p] \in Seq(PairIds) /\ Len(q[p]) = 0
  BY EmptySeq
<1>6. q \in Places
  BY <1>5 DEF Places
<1>7. <<>> \in Seq(Tasks) /\ Len(<<>>) = 0
  BY EmptySeq
<1> HIDE DEF q, fr
<1>8. \A p \in Levels : \A x : ~Has(q[p], x)
  BY <1>5 DEF Has
<1>9. \A x \in PairIds : Has(fr, x)
  <2> SUFFICES ASSUME NEW x \in PairIds PROVE Has(fr, x)
    OBVIOUS
  <2>1. x + 1 \in 1 .. Pairs /\ (x + 1) - 1 = x
    BY <1>1 DEF PairIds
  <2> QED BY <1>4, <2>1 DEF Has
<1>10. OnePlace(q, fr)
  <2>1. Once(fr)
    BY <1>4 DEF Once
  <2>2. \A p \in Levels : Once(q[p])
    BY <1>5 DEF Once
  <2> QED BY <1>8, <1>9, <2>1, <2>2 DEF OnePlace
<1>11. PairsSpell(q, fr)
  <2>1. Spells(rq_free, pairs_next, -1, fr)
    <3>1. rq_free = fr[1]
      BY <1>1, <1>2, <1>4
    <3>2. ASSUME NEW i \in 1 .. Pairs
          PROVE  pairs_next[fr[i]] = IF i = Pairs THEN -1 ELSE fr[i + 1]
      <4>1. fr[i] = i - 1 /\ i - 1 \in PairIds /\ (i - 1 = Pairs - 1 <=> i = Pairs)
        BY <1>1, <1>4 DEF PairIds
      <4>2. pairs_next[i - 1] = IF i = Pairs THEN -1 ELSE (i - 1) + 1
        BY <1>2, <4>1
      <4>3. i # Pairs => fr[i + 1] = (i - 1) + 1
        <5>1. i # Pairs => i + 1 \in 1 .. Pairs /\ (i + 1) - 1 = (i - 1) + 1
          BY <1>1
        <5> QED BY <1>4, <5>1
      <4> QED BY <4>1, <4>2, <4>3
    <3> QED BY <1>4, <3>1, <3>2 DEF Spells
  <2>2. \A p \in Levels : Spells(queues_head[p], pairs_next, -1, q[p]) /\ queues_tail[p] = LastOf(q[p], -1)
    BY <1>2, <1>5 DEF Spells, LastOf
  <2> QED BY <2>1, <2>2 DEF PairsSpell
<1>12. StackSpells(<<>>)
  BY <1>2, <1>7 DEF StackSpells, Spells, Once
<1>13. AtItsLevel(q)
  BY <1>8 DEF AtItsLevel
<1>14. MaskIs
  BY <1>2, NoBit, NextPower DEF MaskIs
<1>15. \A t \in Tasks : Asked(q, <<>>, t) =< RnactMax[t]
  <2> SUFFICES ASSUME NEW t \in Tasks PROVE Asked(q, <<>>, t) =< RnactMax[t]
    OBVIOUS
  <2>1. PairsOf(q, t) = {}
    BY <1>8, TaskLevels DEF PairsOf, HeldBy
  <2>2. Cardinality(PairsOf(q, t)) = 0
    BY <2>1, FS_EmptySet
  <2>3. ~Has(<<>>, t)
    BY <1>7 DEF Has
  <2> QED BY <2>2, <2>3, TaskLevels DEF Asked
<1>16. Ready(q, fr, <<>>)
  BY <1>4, <1>6, <1>7, <1>10, <1>11, <1>12, <1>13, <1>14, <1>15 DEF Ready
<1> QED BY <1>3, <1>16 DEF q, fr

\* How a step changes the lists q, fr and st.
ListStep(q, fr, st, q2, fr2, st2) ==
  \/ \E t \in Tasks : \E p, c :
       /\ QueuesAt(q, t, p, c, q2) /\ Fills(q, fr, p, c, q2, fr2) /\ st2 = st
       /\ pairs_tid' = [pairs_tid EXCEPT ![c] = t]
  \/ \E p, c, t :
       /\ DispatchesAt(q, fr, st, p, c, t, q2, fr2, st2)
       /\ p \in Levels /\ q[p] # <<>> /\ c = Head(q[p]) /\ pairs_tid' = pairs_tid
       /\ rq_queryfirst # NIL
  \/ q2 = q /\ st # <<>> /\ st2 = Tail(st) /\ pairs_tid' = pairs_tid
       /\ rq_queryfirst' = rq_queryfirst
  \/ UNCHANGED rqStkVars

\* Every step leaves lists, and makes them so.
LEMMA StepReady ==
  ASSUME RqTypes, NEW q, NEW fr, NEW st, Ready(q, fr, st), [RqNext]_rqStkVars
  PROVE  RqTypes' /\ \E q2, fr2, st2 : Ready(q2, fr2, st2)' /\ ListStep(q, fr, st, q2, fr2, st2)
<1>1. ASSUME NEW t \in Tasks, RqInsert(t)
      PROVE  RqTypes' /\ \E q2, fr2, st2 : Ready(q2, fr2, st2)' /\ ListStep(q, fr, st, q2, fr2, st2)
  <2>1. PICK p, c, q2 : QueuesAt(q, t, p, c, q2)
    BY DEF QueuesAt
  <2>2. /\ RqTypes' /\ Ready(q2, Tail(fr), st)'
        /\ Fills(q, fr, p, c, q2, Tail(fr)) /\ pairs_tid' = [pairs_tid EXCEPT ![c] = t]
    BY <1>1, <2>1, InsertStep
  <2>3. ListStep(q, fr, st, q2, Tail(fr), st)
    BY <2>1, <2>2 DEF ListStep
  <2> QED BY <2>2, <2>3
<1>2. ASSUME Exchange
      PROVE  RqTypes' /\ \E q2, fr2, st2 : Ready(q2, fr2, st2)' /\ ListStep(q, fr, st, q2, fr2, st2)
  <2>1. PICK p, c, t, q2, fr2, st2 : DispatchesAt(q, fr, st, p, c, t, q2, fr2, st2)
    BY DEF DispatchesAt
  <2>2. /\ RqTypes' /\ Ready(q2, fr2, st2)'
        /\ p \in Levels /\ q[p] # <<>> /\ c = Head(q[p])
    BY <1>2, <2>1, ExchangeStep
  <2>3. pairs_tid' = pairs_tid /\ rq_queryfirst # NIL
    BY <1>2 DEF Exchange, rq2stk_exchange
  <2>4. ListStep(q, fr, st, q2, fr2, st2)
    BY <2>1, <2>2, <2>3 DEF ListStep
  <2> QED BY <2>2, <2>4
<1>3. ASSUME PopStack
      PROVE  RqTypes' /\ \E q2, fr2, st2 : Ready(q2, fr2, st2)' /\ ListStep(q, fr, st, q2, fr2, st2)
  <2>1. RqTypes' /\ Ready(q, fr, Tail(st))' /\ st # <<>>
    BY <1>3, PopStep
  <2>2. pairs_tid' = pairs_tid /\ queues_head' = queues_head /\ rq_bitmask' = rq_bitmask
    BY <1>3 DEF PopStack, rqVars
  <2>3. rq_queryfirst' = rq_queryfirst
    BY <2>2 DEF rq_queryfirst, HighestLevel
  <2>4. ListStep(q, fr, st, q, fr, Tail(st))
    BY <2>1, <2>2, <2>3 DEF ListStep
  <2> QED BY <2>1, <2>4
<1>4. ASSUME UNCHANGED rqStkVars
      PROVE  RqTypes' /\ \E q2, fr2, st2 : Ready(q2, fr2, st2)' /\ ListStep(q, fr, st, q2, fr2, st2)
  <2>1. RqTypes'
    BY <1>4 DEF rqStkVars, rqVars, RqTypes
  <2>2. Ready(q, fr, st)'
    BY <1>4 DEF rqStkVars, rqVars, Ready, PairsSpell, StackSpells, AtItsLevel, MaskIs, Asked, PairsOf
  <2> QED BY <1>4, <2>1, <2>2 DEF ListStep
<1> QED BY <1>1, <1>2, <1>3, <1>4 DEF RqNext

\* Whatever is queued, dispatched and popped, the links spell queues, a free list
\* and a stack that share no entry, and the mask has the bits of the queues.
THEOREM ReadyInductive == RqSpec => []RqInv
<1>1. RqInit => RqInv
  BY InitReady DEF RqInv
<1>2. RqInv /\ [RqNext]_rqStkVars => RqInv'
  <2> SUFFICES ASSUME RqInv, [RqNext]_rqStkVars PROVE RqInv'
    OBVIOUS
  <2>1. PICK q, fr, st : Ready(q, fr, st)
    BY DEF RqInv
  <2>2. RqTypes
    BY DEF RqInv
  <2>3. RqTypes' /\ \E q2, fr2, st2 : Ready(q2, fr2, st2)'
    BY <2>1, <2>2, StepReady
  <2> QED BY <2>3 DEF RqInv
<1> QED BY <1>1, <1>2, PTL DEF RqSpec

\* No pair leaks, is shared by two lists or comes twice in one.
THEOREM PoolStaysPartitioned == RqSpec => []PoolPartitioned
BY ReadyInductive, PairsKept, PTL

\* Mask, heads and tails agree on which queues are empty, and tails are last pairs.
THEOREM MaskStaysRight == RqSpec => []MaskHeadTailAgree
BY ReadyInductive, MaskAgrees, PTL

\* An activation that the kernel lets through never finds the free list empty.
THEOREM FreePairsSuffice == RqSpec => []FreePairLeft
BY ReadyInductive, FreeFound, PTL

-----------------------------------------------------------------------------
(* The lists behave as ReadyFifo.                                          *)

\* The tasks of the pairs s.
TasksOf(s, tid) == [i \in 1 .. Len(s) |-> tid[s[i]]]

\* The pair c, that is not in s, gets the task t.
Brings(s, c, t, tid, tid2) ==
  /\ s \in Seq(PairIds) /\ c \in PairIds /\ ~Has(s, c)
  /\ t \in Tasks /\ tid \in [PairIds -> Tasks \cup {NIL}]
  /\ tid2[c] = t /\ \A x \in PairIds : x # c => tid2[x] = tid[x]

\* A pair that comes at the end brings its task.
LEMMA TasksAppended ==
  ASSUME NEW s, NEW c, NEW t, NEW tid, NEW tid2, Brings(s, c, t, tid, tid2)
  PROVE  TasksOf(Append(s, c), tid2) = Append(TasksOf(s, tid), t)
<1> USE DEF Brings
<1> DEFINE T == Tasks \cup {NIL}
           a == Append(s, c)
           n == Len(s)
           u == TasksOf(a, tid2)
           v == TasksOf(s, tid)
<1>1. n \in Nat /\ Len(a) = n + 1 /\ a[n + 1] = c /\ \A i \in 1 .. n : a[i] = s[i]
  BY AppendProperties
<1>2. \A i \in 1 .. n : s[i] \in PairIds /\ s[i] # c
  BY ElementOfSeq DEF Has
<1>3. tid2[c] = t /\ \A x \in PairIds : tid2[x] \in T /\ (x # c => tid2[x] = tid[x])
  OBVIOUS
<1>4. v \in [1 .. n -> T] /\ v \in Seq(T) /\ Len(v) = n /\ \A i \in 1 .. n : v[i] = tid[s[i]]
  <2>1. v \in [1 .. n -> T]
    BY <1>2 DEF TasksOf
  <2>2. v \in Seq(T)
    BY <1>1, <2>1, SeqDef
  <2>3. DOMAIN v = 1 .. n /\ \A i \in 1 .. n : v[i] = tid[s[i]]
    BY DEF TasksOf
  <2> HIDE DEF v, n
  <2>4. Len(v) \in Nat /\ DOMAIN v = 1 .. Len(v)
    BY <2>2, LenProperties
  <2>5. Len(v) = n
    BY <1>1, <2>3, <2>4
  <2> QED BY <2>1, <2>2, <2>3, <2>5
<1>5. \A i \in 1 .. n + 1 : a[i] \in PairIds /\ (i = n + 1 \/ i \in 1 .. n)
  BY <1>1, <1>2
<1>6. u = [i \in 1 .. n + 1 |-> tid2[a[i]]]
  BY <1>1 DEF TasksOf
<1> HIDE DEF a, n, v
<1>7. u \in Seq(T) /\ Len(u) = n + 1 /\ \A i \in 1 .. n + 1 : u[i] = tid2[a[i]]
  <2>1. u \in [1 .. n + 1 -> T] /\ n + 1 \in Nat
    BY <1>1, <1>3, <1>5, <1>6
  <2>2. u \in Seq(T)
    BY <2>1, SeqDef
  <2>3. DOMAIN u = 1 .. n + 1 /\ \A i \in 1 .. n + 1 : u[i] = tid2[a[i]]
    BY <1>6
  <2> HIDE DEF u
  <2>4. Len(u) \in Nat /\ DOMAIN u = 1 .. Len(u)
    BY <2>2, LenProperties
  <2>5. Len(u) = n + 1
    BY <1>1, <2>3, <2>4
  <2> QED BY <2>2, <2>3, <2>5
<1> HIDE DEF u
<1>8. /\ Append(v, t) \in Seq(T) /\ Len(Append(v, t)) = n + 1
      /\ Append(v, t)[n + 1] = t /\ \A i \in 1 .. n : Append(v, t)[i] = v[i]
  BY <1>4, AppendProperties
<1>9. \A i \in 1 .. n + 1 : u[i] = Append(v, t)[i]
  <2>1. u[n + 1] = t
    BY <1>1, <1>3, <1>7
  <2>2. \A i \in 1 .. n : u[i] = v[i]
    <3> SUFFICES ASSUME NEW i \in 1 .. n PROVE u[i] = v[i]
      OBVIOUS
    <3>1. i \in 1 .. n + 1
      BY <1>1
    <3> QED BY <1>1, <1>2, <1>3, <1>4, <1>7, <3>1
  <2> QED BY <1>5, <1>8, <2>1, <2>2
<1>10. u = Append(v, t)
  BY <1>7, <1>8, <1>9, SeqEqual
<1> QED BY <1>10 DEF u, v, a

\* The tasks of other pairs do not see it.
LEMMA TasksKept ==
  ASSUME NEW T, NEW s \in Seq(PairIds), NEW c \in PairIds, ~Has(s, c),
         NEW tid, NEW tid2, \A x \in PairIds : x # c => tid2[x] = tid[x]
  PROVE  TasksOf(s, tid2) = TasksOf(s, tid)
<1>1. \A i \in 1 .. Len(s) : s[i] \in PairIds /\ s[i] # c
  BY ElementOfSeq DEF Has
<1> QED BY <1>1 DEF TasksOf

\* No pairs have no tasks.
LEMMA NoTasks == \A tid : TasksOf(<<>>, tid) = <<>>
<1> SUFFICES ASSUME NEW tid PROVE TasksOf(<<>>, tid) = <<>>
  OBVIOUS
<1> DEFINE T == {tid[<<>>[i]] : i \in 1 .. 0}
           b == [i \in 1 .. 0 |-> tid[<<>>[i]]]
<1>1. TasksOf(<<>>, tid) = b
  BY DEF TasksOf
<1>2. b \in [1 .. 0 -> T] /\ DOMAIN b = 1 .. 0
  OBVIOUS
<1> HIDE DEF b, T
<1>3. b \in Seq(T)
  BY <1>2, SeqDef
<1>4. Len(b) \in Nat /\ DOMAIN b = 1 .. Len(b)
  BY <1>3, LenProperties
<1>5. Len(b) = 0
  BY <1>2, <1>4
<1> QED BY <1>1, <1>3, <1>5, EmptySeq

\* The first pair takes its task along.
LEMMA TasksTail ==
  ASSUME NEW T, NEW s \in Seq(PairIds), s # <<>>, NEW tid \in [PairIds -> T]
  PROVE  /\ TasksOf(Tail(s), tid) = Tail(TasksOf(s, tid))
         /\ TasksOf(s, tid) # <<>> /\ Head(TasksOf(s, tid)) = tid[Head(s)]
<1> DEFINE b == Tail(s)
           n == Len(s)
           u == TasksOf(b, tid)
           v == TasksOf(s, tid)
<1>1. /\ n \in Nat /\ n >= 1 /\ 1 \in 1 .. n /\ Head(s) = s[1] /\ b \in Seq(PairIds) /\ Len(b) = n - 1
      /\ \A i \in 1 .. n - 1 : b[i] = s[i + 1]
  BY EmptySeq, LenProperties, HeadTailProperties
<1>2. /\ \A i \in 1 .. n : s[i] \in PairIds
      /\ \A i \in 1 .. n - 1 : i + 1 \in 1 .. n
  BY <1>1, ElementOfSeq
<1>3. /\ v = [i \in 1 .. n |-> tid[s[i]]] /\ u = [i \in 1 .. n - 1 |-> tid[b[i]]]
  BY <1>1 DEF TasksOf
<1> HIDE DEF b, n, u, v
<1>4. v \in Seq(T) /\ Len(v) = n /\ \A i \in 1 .. n : v[i] = tid[s[i]]
  <2>1. v \in [1 .. n -> T]
    BY <1>2, <1>3
  <2>2. v \in Seq(T)
    BY <1>1, <2>1, SeqDef
  <2>3. DOMAIN v = 1 .. n /\ \A i \in 1 .. n : v[i] = tid[s[i]]
    BY <1>3
  <2>4. Len(v) \in Nat /\ DOMAIN v = 1 .. Len(v)
    BY <2>2, LenProperties
  <2>5. Len(v) = n
    BY <1>1, <2>3, <2>4
  <2> QED BY <2>2, <2>3, <2>5
<1>5. u \in Seq(T) /\ Len(u) = n - 1 /\ \A i \in 1 .. n - 1 : u[i] = tid[b[i]]
  <2>1. u \in [1 .. n - 1 -> T] /\ n - 1 \in Nat
    BY <1>1, <1>2, <1>3
  <2>2. u \in Seq(T)
    BY <2>1, SeqDef
  <2>3. DOMAIN u = 1 .. n - 1 /\ \A i \in 1 .. n - 1 : u[i] = tid[b[i]]
    BY <1>3
  <2>4. Len(u) \in Nat /\ DOMAIN u = 1 .. Len(u)
    BY <2>2, LenProperties
  <2>5. Len(u) = n - 1
    BY <1>1, <2>3, <2>4
  <2> QED BY <2>2, <2>3, <2>5
<1>6. v # <<>> /\ Head(v) = v[1]
  BY <1>1, <1>4, EmptySeq, HeadTailProperties
<1>7. /\ Tail(v) \in Seq(T) /\ Len(Tail(v)) = n - 1
      /\ \A i \in 1 .. n - 1 : Tail(v)[i] = v[i + 1]
  BY <1>4, <1>6, HeadTailProperties
<1>8. ASSUME NEW i \in 1 .. n - 1 PROVE u[i] = Tail(v)[i]
  <2>1. u[i] = tid[b[i]] /\ b[i] = s[i + 1]
    BY <1>1, <1>5
  <2>2. i + 1 \in 1 .. n /\ Tail(v)[i] = v[i + 1]
    BY <1>2, <1>7
  <2>3. v[i + 1] = tid[s[i + 1]]
    BY <1>4, <2>2
  <2> QED BY <2>1, <2>2, <2>3
<1>9. u = Tail(v)
  BY <1>5, <1>7, <1>8, SeqEqual
<1> QED BY <1>1, <1>4, <1>6, <1>9 DEF u, v, b

\* The queues of ReadyFifo.
Bar == [p \in Levels |-> QueueSeq(p)]

\* The lists q and st seen as ReadyFifo does.
Seen(q, st) ==
  /\ Bar = [p \in Levels |-> TasksOf(q[p], pairs_tid)]
  /\ StackSeq = st
  /\ rq_queryfirst = Fifo!FirstOf(Bar)
  /\ rq_queryfirst # NIL => HighestLevel = Fifo!TopLevel(Bar)

\* The mask finds what ReadyFifo takes for the first task.
LEMMA BarsAre ==
  \A q, fr, st : RqTypes /\ Ready(q, fr, st) => Seen(q, st)
<1> SUFFICES ASSUME NEW q, NEW fr, NEW st, RqTypes, Ready(q, fr, st) PROVE Seen(q, st)
  OBVIOUS
<1> DEFINE T == Tasks \cup {NIL}
           h == HighestLevel
<1>1. /\ \A p \in Levels : QueuePairs(p) = q[p]
      /\ StackSeq = st /\ pairs_tid \in [PairIds -> T] /\ q \in Places
  BY ListsAre DEF RqTypes, Ready
<1>2. \A p \in Levels : q[p] \in Seq(PairIds) /\ DOMAIN q[p] = 1 .. Len(q[p])
  BY <1>1, LenProperties DEF Places
<1>3. \A p \in Levels : QueueSeq(p) = TasksOf(q[p], pairs_tid)
  BY <1>1, <1>2 DEF QueueSeq, TasksOf
<1>4. \A p \in Levels : Bar[p] = TasksOf(q[p], pairs_tid)
  BY <1>3 DEF Bar
<1>5. Bar = [p \in Levels |-> TasksOf(q[p], pairs_tid)]
  BY <1>3 DEF Bar
<1>6. \A p \in Levels : Bar[p] = <<>> <=> q[p] = <<>>
  <2> SUFFICES ASSUME NEW p \in Levels PROVE Bar[p] = <<>> <=> q[p] = <<>>
    OBVIOUS
  <2>1. CASE q[p] # <<>>
    BY <1>1, <1>2, <1>4, <2>1, TasksTail
  <2>2. CASE q[p] = <<>>
    BY <1>4, <2>2, NoTasks
  <2> QED BY <2>1, <2>2
<1>7. Fifo!NonEmptyLevels(Bar) = {p \in Levels : q[p] # <<>>}
  BY <1>6 DEF Fifo!NonEmptyLevels
<1>8. CASE h = -1
  <2>1. rq_queryfirst = NIL /\ \A p \in Levels : q[p] = <<>>
    BY <1>8, FirstIs DEF Levels
  <2>2. Fifo!NonEmptyLevels(Bar) = {}
    BY <1>7, <2>1
  <2>3. Fifo!FirstOf(Bar) = NIL
    BY <2>2 DEF Fifo!FirstOf
  <2> QED BY <1>1, <1>5, <2>1, <2>3 DEF Seen
<1>9. CASE h # -1
  <2>1. /\ h \in Levels /\ q[h] # <<>>
        /\ \A p \in Levels : p > h => q[p] = <<>>
        /\ rq_queryfirst = pairs_tid[q[h][1]] /\ rq_queryfirst \in Tasks
    BY <1>9, FirstIs
  <2> HIDE DEF h
  <2> DEFINE N == Fifo!NonEmptyLevels(Bar)
  <2>2. h \in N /\ N \subseteq Levels /\ \A m \in N : m =< h
    BY <1>7, <2>1 DEF Levels
  <2>3. \A l \in N : (\A m \in N : m =< l) => l = h
    BY <2>2 DEF Levels
  <2>4. Fifo!TopLevel(Bar) = h
    <3>1. Fifo!TopLevel(Bar) = CHOOSE l \in N : \A m \in N : m =< l
      BY DEF Fifo!TopLevel
    <3> HIDE DEF N
    <3> QED BY <2>2, <2>3, <3>1
  <2>5. Fifo!FirstOf(Bar) = Head(Bar[h])
    BY <2>2, <2>4 DEF Fifo!FirstOf
  <2>6. q[h] \in Seq(PairIds) /\ Head(q[h]) = q[h][1]
    BY <1>2, <2>1, HeadTailProperties
  <2>7. Head(Bar[h]) = pairs_tid[Head(q[h])]
    BY <1>1, <1>4, <2>1, <2>6, TasksTail
  <2> QED BY <1>1, <1>5, <2>1, <2>4, <2>5, <2>6, <2>7 DEF Seen, h
<1> QED BY <1>8, <1>9

\* The step of the lists is one of ReadyFifo.
LEMMA FifoStep ==
  ASSUME RqTypes, RqTypes', NEW q, NEW fr, NEW st, NEW q2, NEW fr2, NEW st2,
         Ready(q, fr, st), Ready(q2, fr2, st2)', Seen(q, st), Seen(q2, st2)',
         ListStep(q, fr, st, q2, fr2, st2)
  PROVE  [Fifo!Next]_(Fifo!vars)
<1> DEFINE T == Tasks \cup {NIL}
<1>1. /\ q \in Places /\ q2 \in Places /\ pairs_tid \in [PairIds -> T]
      /\ \A p \in Levels : q[p] \in Seq(PairIds)
  BY DEF Ready, RqTypes, Places
<1>2. /\ Bar = [p \in Levels |-> TasksOf(q[p], pairs_tid)] /\ StackSeq = st
      /\ rq_queryfirst = Fifo!FirstOf(Bar)
      /\ rq_queryfirst # NIL => HighestLevel = Fifo!TopLevel(Bar)
  BY DEF Seen
<1>3. /\ Bar' = [p \in Levels |-> TasksOf(q2[p], pairs_tid')] /\ StackSeq' = st2
      /\ rq_queryfirst' = Fifo!FirstOf(Bar')
  BY DEF Seen
<1>4. ASSUME NEW t \in Tasks, NEW p, NEW c,
             QueuesAt(q, t, p, c, q2), Fills(q, fr, p, c, q2, fr2), st2 = st,
             pairs_tid' = [pairs_tid EXCEPT ![c] = t]
      PROVE  Fifo!Insert(t)
  <2>1. /\ c \in PairIds /\ \A r \in Levels : ~Has(q[r], c)
        /\ q2[p] = Append(q[p], c) /\ \A r \in Levels : r # p => q2[r] = q[r]
    BY <1>4, FilledMoves
  <2>2. p = rq_link[t] /\ p \in Levels /\ t \in T
    BY <1>4, TaskLevels DEF QueuesAt
  <2>7. pairs_tid'[c] = t /\ \A x \in PairIds : x # c => pairs_tid'[x] = pairs_tid[x]
    BY <1>1, <1>4, <2>1
  <2>3. TasksOf(q2[p], pairs_tid') = Append(Bar[p], t)
    <3>1. q[p] \in Seq(PairIds) /\ ~Has(q[p], c)
      BY <1>1, <2>1, <2>2
    <3>2. TasksOf(Append(q[p], c), pairs_tid') = Append(TasksOf(q[p], pairs_tid), t)
      <4> DEFINE s == q[p]
                 tid2 == pairs_tid'
      <4>1. Brings(s, c, t, pairs_tid, tid2)
        BY <1>1, <2>1, <2>2, <2>7, <3>1 DEF Brings
      <4> HIDE DEF s, tid2
      <4>2. TasksOf(Append(s, c), tid2) = Append(TasksOf(s, pairs_tid), t)
        BY <4>1, TasksAppended
      <4> QED BY <4>2 DEF s, tid2
    <3> QED BY <1>2, <2>1, <2>2, <3>2
  <2>4. \A r \in Levels : r # p => TasksOf(q2[r], pairs_tid') = Bar[r]
    <3> SUFFICES ASSUME NEW r \in Levels, r # p PROVE TasksOf(q2[r], pairs_tid') = Bar[r]
      OBVIOUS
    <3>1. q[r] \in Seq(PairIds) /\ ~Has(q[r], c)
      BY <1>1, <2>1
    <3>2. TasksOf(q[r], pairs_tid') = TasksOf(q[r], pairs_tid)
      BY <2>1, <2>7, <3>1, TasksKept
    <3> QED BY <1>2, <2>1, <3>2
  <2>5. DOMAIN Bar = Levels
    BY <1>2
  <2>6. Bar' = [Bar EXCEPT ![p] = Append(Bar[p], t)]
    <3> DEFINE B2 == [Bar EXCEPT ![p] = Append(Bar[p], t)]
    <3>1. B2 = [r \in Levels |-> IF r = p THEN Append(Bar[p], t) ELSE Bar[r]]
      BY <2>5
    <3>2. \A r \in Levels : TasksOf(q2[r], pairs_tid') = IF r = p THEN Append(Bar[p], t) ELSE Bar[r]
      BY <2>3, <2>4
    <3> HIDE DEF B2
    <3>3. Bar' = B2
      BY <1>3, <3>1, <3>2
    <3> QED BY <3>3 DEF B2
  <2> QED BY <1>2, <1>3, <1>4, <2>2, <2>6 DEF Fifo!Insert, Bar
<1>5. ASSUME NEW p, NEW c, NEW t,
             DispatchesAt(q, fr, st, p, c, t, q2, fr2, st2),
             p \in Levels, q[p] # <<>>, c = Head(q[p]), pairs_tid' = pairs_tid,
             rq_queryfirst # NIL
      PROVE  Fifo!Exchange
  <2>1. /\ p = HighestLevel /\ c = queues_head[p] /\ t = pairs_tid[c]
        /\ q2 = [q EXCEPT ![p] = Tail(q[p])] /\ st2 = <<t>> \o st
    BY <1>5 DEF DispatchesAt
  <2>2. p = Fifo!TopLevel(Bar)
    BY <1>2, <1>5, <2>1
  <2>3. t = rq_queryfirst
    <3>1. q[p][1] = Head(q[p])
      BY <1>1, <1>5, HeadTailProperties
    <3>2. p # -1
      BY <1>5 DEF Levels
    <3> QED BY <2>1, <3>2 DEF rq_queryfirst
  <2>4. q2[p] = Tail(q[p]) /\ \A r \in Levels : r # p => q2[r] = q[r]
    BY <1>1, <1>5, <2>1 DEF Places
  <2>5. TasksOf(Tail(q[p]), pairs_tid) = Tail(TasksOf(q[p], pairs_tid))
    BY <1>1, <1>5, TasksTail
  <2>6. Bar' = [Bar EXCEPT ![p] = Tail(Bar[p])]
    <3> DEFINE B2 == [Bar EXCEPT ![p] = Tail(Bar[p])]
    <3>1. DOMAIN Bar = Levels /\ \A r \in Levels : Bar[r] = TasksOf(q[r], pairs_tid)
      BY <1>2
    <3>2. B2 = [r \in Levels |-> IF r = p THEN Tail(Bar[p]) ELSE Bar[r]]
      BY <3>1
    <3>3. \A r \in Levels : TasksOf(q2[r], pairs_tid') = IF r = p THEN Tail(Bar[p]) ELSE Bar[r]
      BY <1>5, <2>4, <2>5, <3>1
    <3> HIDE DEF B2
    <3>4. Bar' = B2
      BY <1>3, <3>2, <3>3
    <3> QED BY <3>4 DEF B2
  <2>7. StackSeq' = <<rq_queryfirst>> \o StackSeq
    BY <1>2, <1>3, <2>1, <2>3
  <2> QED BY <1>3, <1>5, <2>2, <2>6, <2>7 DEF Fifo!Exchange, Bar
<1>6. ASSUME q2 = q, st # <<>>, st2 = Tail(st), pairs_tid' = pairs_tid,
             rq_queryfirst' = rq_queryfirst
      PROVE  Fifo!PopStack
  <2>1. Bar' = Bar /\ StackSeq # <<>> /\ StackSeq' = Tail(StackSeq)
    BY <1>2, <1>3, <1>6
  <2> QED BY <1>6, <2>1 DEF Fifo!PopStack, Bar
<1>7. ASSUME UNCHANGED rqStkVars
      PROVE  UNCHANGED Fifo!vars
  <2>1. rq_queryfirst' = rq_queryfirst /\ StackSeq' = StackSeq
    BY <1>7 DEF rqStkVars, rqVars, rq_queryfirst, HighestLevel, StackSeq
  <2>2. Bar' = Bar
    BY <1>7 DEF rqStkVars, rqVars, Bar, QueueSeq, QueuePairs
  <2> QED BY <2>1, <2>2 DEF Fifo!vars, Bar
<1> QED BY <1>4, <1>5, <1>6, <1>7 DEF ListStep, Fifo!Next

\* At the start ReadyFifo is empty.
LEMMA FifoInit ==
  ASSUME RqInit
  PROVE  Fifo!Init
<1> DEFINE q == [p \in Levels |-> <<>>]
<1>1. Seen(q, <<>>)
  BY InitReady, BarsAre
<1>2. \A p \in Levels : TasksOf(q[p], pairs_tid) = <<>>
  <2> SUFFICES ASSUME NEW p \in Levels PROVE TasksOf(q[p], pairs_tid) = <<>>
    OBVIOUS
  <2> QED BY NoTasks
<1>3. Bar = q /\ StackSeq = <<>>
  BY <1>1, <1>2 DEF Seen
<1>4. rq_queryfirst = NIL
  BY DEF RqInit, rq_queryfirst, HighestLevel, rq_lookup
<1> QED BY <1>3, <1>4 DEF Fifo!Init, Bar

\* The linked pairs behave as a FIFO of tasks at every level and a stack, and the
\* lookup through the mask finds the head of the highest queue that is not empty.
THEOREM ReadyIsFifo == RqSpec => FifoSpec
<1>1. RqInit => Fifo!Init
  BY FifoInit
<1>2. \A q, fr, st : RqTypes /\ Ready(q, fr, st) => Seen(q, st)
  BY BarsAre
<1>3. (\A q, fr, st : RqTypes /\ Ready(q, fr, st) => Seen(q, st))'
  BY <1>2, PTL
<1>4. RqInv /\ [RqNext]_rqStkVars => [Fifo!Next]_(Fifo!vars)
  <2> SUFFICES ASSUME RqInv, [RqNext]_rqStkVars PROVE [Fifo!Next]_(Fifo!vars)
    OBVIOUS
  <2>1. PICK q, fr, st : Ready(q, fr, st)
    BY DEF RqInv
  <2>2. RqTypes
    BY DEF RqInv
  <2>3. RqTypes' /\ \E q2, fr2, st2 : Ready(q2, fr2, st2)' /\ ListStep(q, fr, st, q2, fr2, st2)
    BY <2>1, <2>2, StepReady
  <2>4. PICK q2, fr2, st2 : Ready(q2, fr2, st2)' /\ ListStep(q, fr, st, q2, fr2, st2)
    BY <2>3
  <2>5. Seen(q, st) /\ Seen(q2, st2)'
    BY <1>2, <1>3, <2>1, <2>2, <2>3, <2>4
  <2> QED BY <2>1, <2>2, <2>3, <2>4, <2>5, FifoStep
<1> QED BY <1>1, <1>4, ReadyInductive, PTL DEF RqSpec, FifoSpec, Fifo!Spec
====
