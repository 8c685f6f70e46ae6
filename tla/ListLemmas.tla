------------------------------- MODULE ListLemmas -------------------------------
(***************************************************************************)
(* Facts that several proofs need: what cutting a list, putting an entry   *)
(* into it and taking one out of it make, lists made of links, the least   *)
(* number of a set, and remainders.                                        *)
(***************************************************************************)
EXTENDS Links, FiniteSetTheorems, SequenceTheorems, WellFoundedInduction, TLAPS

-----------------------------------------------------------------------------
(* Numbers.                                                                *)

\* A set of natural numbers that is not empty has a least member.
LEMMA SomeLeast ==
  ASSUME NEW S, S \subseteq Nat, S # {}
  PROVE  \E e \in S : \A f \in S : e <= f
<1>1. PICK e \in S : \A f \in S : <<f, e>> \notin OpToRel(<, Nat)
  BY NatLessThanWellFounded, WFMin
<1>2. \A f \in S : ~(f < e)
  BY <1>1 DEF OpToRel
<1> QED BY <1>2

\* A number is quotient times divisor and remainder.
LEMMA Divided ==
  ASSUME NEW n \in Nat, n > 0, NEW c \in Nat
  PROVE  c \div n \in Nat /\ c % n \in 0 .. n - 1 /\ c = n * (c \div n) + (c % n)
OBVIOUS

\* The remainder is the only one.
LEMMA OneRemainder ==
  ASSUME NEW n \in Nat, n > 0, NEW p \in Nat, NEW q \in Nat, NEW r \in Nat, NEW s \in Nat,
         r < n, s < n, n * p + r = n * q + s
  PROVE  r = s
BY SMTT(30)

\* The remainder of the next number.
LEMMA NextRemainder ==
  ASSUME NEW n \in Nat, n > 0, NEW c \in Nat
  PROVE  (c + 1) % n = IF c % n = n - 1 THEN 0 ELSE (c % n) + 1
<1> DEFINE q == c \div n
           r == c % n
           p == (c + 1) \div n
           s == (c + 1) % n
<1>1. q \in Nat /\ r \in 0 .. n - 1 /\ c = n * q + r
  BY Divided
<1>2. p \in Nat /\ s \in 0 .. n - 1 /\ c + 1 = n * p + s
  BY Divided
<1> HIDE DEF p, q, r, s
<1>3. CASE r = n - 1
  <2>1. c + 1 = n * (q + 1) + 0
    BY <1>1, <1>3
  <2>2. n * p + s = n * (q + 1) + 0 /\ q + 1 \in Nat /\ 0 \in Nat /\ 0 < n /\ s \in Nat /\ s < n
    BY <1>1, <1>2, <2>1
  <2>3. s = 0
    BY <1>2, <2>2, OneRemainder
  <2> QED BY <1>3, <2>3 DEF r, s
<1>4. CASE r # n - 1
  <2>1. c + 1 = n * q + (r + 1)
    BY <1>1
  <2>2. n * p + s = n * q + (r + 1) /\ r + 1 \in Nat /\ r + 1 < n /\ s \in Nat /\ s < n
    BY <1>1, <1>2, <1>4, <2>1
  <2>3. s = r + 1
    BY <1>1, <1>2, <2>2, OneRemainder
  <2> QED BY <1>4, <2>3 DEF r, s
<1> QED BY <1>3, <1>4

-----------------------------------------------------------------------------
(* Lists.                                                                  *)

\* The first k entries of p.
IsFront(q, p, k) == Len(q) = k /\ \A j \in 1 .. k : q[j] = p[j]

\* p without its first k entries.
IsBack(q, p, k) == Len(q) = Len(p) - k /\ \A j \in 1 .. Len(p) - k : q[j] = p[k + j]

\* p with c behind its entry i.
IsAfter(q, p, i, c) ==
  /\ Len(q) = Len(p) + 1
  /\ \A k \in 1 .. Len(p) + 1 : q[k] = IF k <= i THEN p[k] ELSE IF k = i + 1 THEN c ELSE p[k - 1]

\* p without its entry i.
IsWithout(q, p, i) ==
  /\ Len(q) = Len(p) - 1
  /\ \A k \in 1 .. Len(p) - 1 : q[k] = IF k < i THEN p[k] ELSE p[k + 1]

\* What is cut off in front.
LEMMA FrontIs ==
  ASSUME NEW T, NEW p \in Seq(T), NEW k \in 0 .. Len(p)
  PROVE  SubSeq(p, 1, k) \in Seq(T) /\ IsFront(SubSeq(p, 1, k), p, k)
<1> DEFINE a == SubSeq(p, 1, k)
<1>1. Len(p) \in Nat /\ k \in Nat /\ k <= Len(p)
  OBVIOUS
<1>2. k \in Int /\ 1 \in Int /\ \A j \in 1 .. k : p[j] \in T
  BY <1>1
<1>3. /\ a \in Seq(T) /\ Len(a) = IF 1 <= k THEN k - 1 + 1 ELSE 0
      /\ \A j \in 1 .. k - 1 + 1 : a[j] = p[1 + j - 1]
  BY <1>2, SubSeqProperties
<1> HIDE DEF a
<1>4. a \in Seq(T) /\ IsFront(a, p, k)
  BY <1>1, <1>3 DEF IsFront
<1> QED BY <1>4 DEF a

\* What is left behind it.
LEMMA BackIs ==
  ASSUME NEW T, NEW p \in Seq(T), NEW k \in 0 .. Len(p)
  PROVE  SubSeq(p, k + 1, Len(p)) \in Seq(T) /\ IsBack(SubSeq(p, k + 1, Len(p)), p, k)
<1> DEFINE b == SubSeq(p, k + 1, Len(p))
<1>1. Len(p) \in Nat /\ k \in Nat /\ k <= Len(p)
  OBVIOUS
<1>2. k + 1 \in Int /\ Len(p) \in Int /\ \A j \in k + 1 .. Len(p) : p[j] \in T
  BY <1>1
<1>3. /\ b \in Seq(T) /\ Len(b) = IF k + 1 <= Len(p) THEN Len(p) - (k + 1) + 1 ELSE 0
      /\ \A j \in 1 .. Len(p) - (k + 1) + 1 : b[j] = p[k + 1 + j - 1]
  BY <1>2, SubSeqProperties
<1> HIDE DEF b
<1>4. b \in Seq(T) /\ IsBack(b, p, k)
  BY <1>1, <1>3 DEF IsBack
<1> QED BY <1>4 DEF b

\* An entry is taken out.
LEMMA OutIs ==
  ASSUME NEW T, NEW p \in Seq(T), NEW i \in 1 .. Len(p)
  PROVE  /\ SubSeq(p, 1, i - 1) \o SubSeq(p, i + 1, Len(p)) \in Seq(T)
         /\ IsWithout(SubSeq(p, 1, i - 1) \o SubSeq(p, i + 1, Len(p)), p, i)
<1> DEFINE a == SubSeq(p, 1, i - 1)
           b == SubSeq(p, i + 1, Len(p))
<1>1. Len(p) \in Nat /\ i \in Nat /\ 1 <= i /\ i <= Len(p) /\ i - 1 \in 0 .. Len(p) /\ i \in 0 .. Len(p)
  OBVIOUS
<1>2. a \in Seq(T) /\ Len(a) = i - 1 /\ \A k \in 1 .. i - 1 : a[k] = p[k]
  BY <1>1, FrontIs DEF IsFront
<1>3. b \in Seq(T) /\ Len(b) = Len(p) - i /\ \A k \in 1 .. Len(p) - i : b[k] = p[i + k]
  BY <1>1, BackIs DEF IsBack
<1> HIDE DEF a, b
<1>4. /\ a \o b \in Seq(T) /\ Len(a \o b) = Len(a) + Len(b)
      /\ \A k \in 1 .. Len(a) + Len(b) : (a \o b)[k] = IF k <= Len(a) THEN a[k] ELSE b[k - Len(a)]
  BY <1>2, <1>3, ConcatProperties
<1>5. \A k \in 1 .. Len(p) - 1 : (a \o b)[k] = IF k < i THEN p[k] ELSE p[k + 1]
  BY <1>1, <1>2, <1>3, <1>4
<1>6. Len(a \o b) = Len(p) - 1
  BY <1>1, <1>2, <1>3, <1>4
<1>7. IsWithout(a \o b, p, i)
  BY <1>5, <1>6, Zenon DEF IsWithout
<1> QED BY <1>4, <1>7 DEF a, b

\* An entry is put in.
LEMMA InIs ==
  ASSUME NEW T, NEW p \in Seq(T), NEW i \in 0 .. Len(p), NEW c \in T
  PROVE  /\ SubSeq(p, 1, i) \o <<c>> \o SubSeq(p, i + 1, Len(p)) \in Seq(T)
         /\ IsAfter(SubSeq(p, 1, i) \o <<c>> \o SubSeq(p, i + 1, Len(p)), p, i, c)
<1> DEFINE a == SubSeq(p, 1, i)
           b == SubSeq(p, i + 1, Len(p))
           ac == a \o <<c>>
<1>1. Len(p) \in Nat /\ i \in Nat /\ 0 <= i /\ i <= Len(p)
  OBVIOUS
<1>2. a \in Seq(T) /\ Len(a) = i /\ \A k \in 1 .. i : a[k] = p[k]
  BY FrontIs DEF IsFront
<1>3. b \in Seq(T) /\ Len(b) = Len(p) - i /\ \A k \in 1 .. Len(p) - i : b[k] = p[i + k]
  BY BackIs DEF IsBack
<1> HIDE DEF a, b
<1>4. <<c>> \in Seq(T) /\ Len(<<c>>) = 1 /\ <<c>>[1] = c
  OBVIOUS
<1>5. /\ ac \in Seq(T) /\ Len(ac) = i + 1
      /\ \A k \in 1 .. i + 1 : ac[k] = IF k <= i THEN p[k] ELSE c
  <2>1. /\ ac \in Seq(T) /\ Len(ac) = Len(a) + Len(<<c>>)
        /\ \A k \in 1 .. Len(a) + Len(<<c>>) : ac[k] = IF k <= Len(a) THEN a[k] ELSE <<c>>[k - Len(a)]
    BY <1>2, <1>4, ConcatProperties
  <2> HIDE DEF ac
  <2>2. ASSUME NEW k \in 1 .. i + 1 PROVE ac[k] = IF k <= i THEN p[k] ELSE c
    <3>1. CASE k <= i
      BY <1>1, <1>2, <1>4, <2>1, <3>1
    <3>2. CASE k > i
      <4>1. k - i = 1 /\ k = i + 1
        BY <1>1, <3>2
      <4> QED BY <1>1, <1>2, <1>4, <2>1, <4>1
    <3> QED BY <1>1, <3>1, <3>2
  <2> QED BY <1>2, <1>4, <2>1, <2>2
<1> HIDE DEF ac
<1>6. /\ ac \o b \in Seq(T) /\ Len(ac \o b) = Len(ac) + Len(b)
      /\ \A k \in 1 .. Len(ac) + Len(b) : (ac \o b)[k] = IF k <= Len(ac) THEN ac[k] ELSE b[k - Len(ac)]
  BY <1>3, <1>5, ConcatProperties
<1>7. \A k \in 1 .. Len(p) + 1 :
        (ac \o b)[k] = IF k <= i THEN p[k] ELSE IF k = i + 1 THEN c ELSE p[k - 1]
  <2> SUFFICES ASSUME NEW k \in 1 .. Len(p) + 1
               PROVE  (ac \o b)[k] = IF k <= i THEN p[k] ELSE IF k = i + 1 THEN c ELSE p[k - 1]
    OBVIOUS
  <2>1. k \in 1 .. Len(ac) + Len(b)
    BY <1>1, <1>3, <1>5
  <2>2. (ac \o b)[k] = IF k <= Len(ac) THEN ac[k] ELSE b[k - Len(ac)]
    BY <1>6, <2>1
  <2>3. CASE k <= i
    <3>1. k \in 1 .. i + 1 /\ k <= Len(ac)
      BY <1>1, <1>5, <2>3
    <3>2. ac[k] = p[k]
      BY <1>5, <2>3, <3>1
    <3> QED BY <2>2, <2>3, <3>1, <3>2
  <2>4. CASE k = i + 1
    <3>1. k \in 1 .. i + 1 /\ k <= Len(ac) /\ ~(k <= i)
      BY <1>1, <1>5, <2>4
    <3>2. ac[k] = c
      BY <1>5, <3>1
    <3> QED BY <2>2, <2>4, <3>1, <3>2
  <2>5. CASE k > i + 1
    <3>1. /\ ~(k <= Len(ac)) /\ ~(k <= i) /\ k # i + 1 /\ k - Len(ac) \in 1 .. Len(p) - i
          /\ i + (k - Len(ac)) = k - 1
      <4>1. i \in Nat /\ Len(p) \in Nat /\ k \in Nat /\ k <= Len(p) + 1 /\ Len(ac) = i + 1 /\ k > i + 1
        BY <1>1, <1>5, <2>5
      <4> QED BY <4>1
    <3>2. b[k - Len(ac)] = p[k - 1]
      BY <1>3, <3>1
    <3> QED BY <2>2, <3>1, <3>2
  <2>6. k <= i \/ k = i + 1 \/ k > i + 1
    BY <1>1
  <2> QED BY <2>3, <2>4, <2>5, <2>6
<1>8. Len(ac \o b) = Len(p) + 1
  BY <1>1, <1>3, <1>5, <1>6
<1>9. IsAfter(ac \o b, p, i, c)
  BY <1>7, <1>8, Zenon DEF IsAfter
<1> QED BY <1>6, <1>9 DEF a, b, ac

-----------------------------------------------------------------------------
(* Lists without repetitions.                                              *)

Has(q, x) == \E i \in 1 .. Len(q) : q[i] = x
Once(q) == \A i, j \in 1 .. Len(q) : q[i] = q[j] => i = j

\* Where the entries come from when one was put in,
LEMMA AfterEach ==
  ASSUME NEW T, NEW p \in Seq(T), NEW q, NEW i \in 0 .. Len(p), NEW c, IsAfter(q, p, i, c),
         NEW k \in 1 .. Len(q)
  PROVE  \/ k <= i /\ k \in 1 .. Len(p) /\ q[k] = p[k]
         \/ k = i + 1 /\ q[k] = c
         \/ k > i + 1 /\ k - 1 \in 1 .. Len(p) /\ q[k] = p[k - 1]
<1>1. Len(p) \in Nat /\ i \in Nat /\ i <= Len(p) /\ Len(q) = Len(p) + 1
  BY DEF IsAfter
<1>2. k \in Nat /\ 1 <= k /\ k <= Len(p) + 1
  BY <1>1
<1>3. q[k] = IF k <= i THEN p[k] ELSE IF k = i + 1 THEN c ELSE p[k - 1]
  BY <1>1 DEF IsAfter
<1>4. CASE k <= i
  <2>1. k \in 1 .. Len(p)
    BY <1>1, <1>2, <1>4
  <2> QED BY <1>3, <1>4, <2>1
<1>5. CASE k = i + 1
  <2>1. ~(k <= i)
    BY <1>1, <1>5
  <2> QED BY <1>3, <1>5, <2>1
<1>6. CASE k > i + 1
  <2>1. k - 1 \in 1 .. Len(p) /\ ~(k <= i) /\ k # i + 1
    BY <1>1, <1>2, <1>6
  <2> QED BY <1>3, <1>6, <2>1
<1> QED BY <1>1, <1>2, <1>4, <1>5, <1>6

\* and where they go.
LEMMA AfterFinds ==
  ASSUME NEW T, NEW p \in Seq(T), NEW q, NEW i \in 0 .. Len(p), NEW c, IsAfter(q, p, i, c)
  PROVE  /\ i + 1 \in 1 .. Len(q) /\ q[i + 1] = c
         /\ \A j \in 1 .. Len(p) : j <= i => j \in 1 .. Len(q) /\ q[j] = p[j]
         /\ \A j \in 1 .. Len(p) : j > i => j + 1 \in 1 .. Len(q) /\ q[j + 1] = p[j]
<1>1. Len(p) \in Nat /\ i \in Nat /\ i <= Len(p) /\ Len(q) = Len(p) + 1
  BY DEF IsAfter
<1>2. i + 1 \in 1 .. Len(q) /\ q[i + 1] = c
  <2>1. i + 1 \in 1 .. Len(p) + 1 /\ ~(i + 1 <= i)
    BY <1>1
  <2> QED BY <1>1, <2>1 DEF IsAfter
<1>3. ASSUME NEW j \in 1 .. Len(p), j <= i PROVE j \in 1 .. Len(q) /\ q[j] = p[j]
  <2>1. j \in 1 .. Len(p) + 1
    BY <1>1
  <2> QED BY <1>1, <1>3, <2>1 DEF IsAfter
<1>4. ASSUME NEW j \in 1 .. Len(p), j > i PROVE j + 1 \in 1 .. Len(q) /\ q[j + 1] = p[j]
  <2>1. j + 1 \in 1 .. Len(p) + 1 /\ ~(j + 1 <= i) /\ j + 1 # i + 1 /\ j + 1 - 1 = j
    BY <1>1, <1>4
  <2> QED BY <1>1, <2>1 DEF IsAfter
<1> QED BY <1>2, <1>3, <1>4

\* A new entry is one more.
LEMMA HasAfter ==
  ASSUME NEW T, NEW p \in Seq(T), NEW q, NEW i \in 0 .. Len(p), NEW c, IsAfter(q, p, i, c)
  PROVE  \A x : Has(q, x) <=> Has(p, x) \/ x = c
<1> SUFFICES ASSUME NEW x PROVE Has(q, x) <=> Has(p, x) \/ x = c
  OBVIOUS
<1>1. Has(q, x) => Has(p, x) \/ x = c
  BY AfterEach DEF Has
<1>2. Has(q, c)
  <2>1. i + 1 \in 1 .. Len(q) /\ q[i + 1] = c
    BY AfterFinds
  <2> QED BY <2>1 DEF Has
<1>3. ASSUME NEW j \in 1 .. Len(p), p[j] = x PROVE Has(q, x)
  <2>1. j <= i \/ j > i
    OBVIOUS
  <2>2. CASE j <= i
    BY <1>3, <2>2, AfterFinds DEF Has
  <2>3. CASE j > i
    BY <1>3, <2>3, AfterFinds DEF Has
  <2> QED BY <2>1, <2>2, <2>3
<1> QED BY <1>1, <1>2, <1>3 DEF Has

\* One that was not there does not repeat.
LEMMA OnceAfter ==
  ASSUME NEW T, NEW p \in Seq(T), NEW q, NEW i \in 0 .. Len(p), NEW c, IsAfter(q, p, i, c),
         Once(p), ~Has(p, c)
  PROVE  Once(q)
<1> SUFFICES ASSUME NEW k \in 1 .. Len(q), NEW l \in 1 .. Len(q), q[k] = q[l]
             PROVE  k = l
  BY DEF Once
<1>1. i \in Nat /\ \A j \in 1 .. Len(p) : p[j] # c
  BY DEF Has
<1>2. k \in Nat /\ l \in Nat
  BY DEF IsAfter
<1>a. q[i + 1] = c
  BY AfterFinds
<1>3. CASE k = i + 1
  BY <1>1, <1>3, <1>a, AfterEach
<1>4. CASE l = i + 1
  BY <1>1, <1>4, <1>a, AfterEach
<1>5. CASE k # i + 1 /\ l # i + 1
  <2>1. PICK j \in 1 .. Len(p) : q[k] = p[j] /\ ((k <= i /\ j = k) \/ (k > i + 1 /\ j = k - 1))
    <3>1. CASE k <= i /\ k \in 1 .. Len(p) /\ q[k] = p[k]
      BY <3>1
    <3>2. CASE k > i + 1 /\ k - 1 \in 1 .. Len(p) /\ q[k] = p[k - 1]
      BY <3>2
    <3> QED BY <1>5, <3>1, <3>2, AfterEach
  <2>2. PICK m \in 1 .. Len(p) : q[l] = p[m] /\ ((l <= i /\ m = l) \/ (l > i + 1 /\ m = l - 1))
    <3>1. CASE l <= i /\ l \in 1 .. Len(p) /\ q[l] = p[l]
      BY <3>1
    <3>2. CASE l > i + 1 /\ l - 1 \in 1 .. Len(p) /\ q[l] = p[l - 1]
      BY <3>2
    <3> QED BY <1>5, <3>1, <3>2, AfterEach
  <2>3. j = m
    BY <2>1, <2>2 DEF Once
  <2>4. j \in Nat
    OBVIOUS
  <2> QED BY <1>1, <1>2, <2>1, <2>2, <2>3, <2>4
<1> QED BY <1>3, <1>4, <1>5

\* Where the entries come from when one was taken out,
LEMMA WithoutEach ==
  ASSUME NEW T, NEW p \in Seq(T), NEW q, NEW i \in 1 .. Len(p), IsWithout(q, p, i),
         NEW k \in 1 .. Len(q)
  PROVE  \/ k < i /\ k \in 1 .. Len(p) /\ q[k] = p[k]
         \/ k >= i /\ k + 1 \in 1 .. Len(p) /\ q[k] = p[k + 1]
<1>1. Len(p) \in Nat /\ i \in Nat /\ 1 <= i /\ i <= Len(p) /\ Len(q) = Len(p) - 1
  BY DEF IsWithout
<1>2. q[k] = IF k < i THEN p[k] ELSE p[k + 1]
  BY <1>1 DEF IsWithout
<1>3. k \in 1 .. Len(p) /\ k + 1 \in 1 .. Len(p)
  BY <1>1
<1> QED BY <1>1, <1>2, <1>3

\* and where they go.
LEMMA WithoutFinds ==
  ASSUME NEW T, NEW p \in Seq(T), NEW q, NEW i \in 1 .. Len(p), IsWithout(q, p, i)
  PROVE  /\ \A j \in 1 .. Len(p) : j < i => j \in 1 .. Len(q) /\ q[j] = p[j]
         /\ \A j \in 1 .. Len(p) : j > i => j - 1 \in 1 .. Len(q) /\ q[j - 1] = p[j]
<1>1. Len(p) \in Nat /\ i \in Nat /\ 1 <= i /\ i <= Len(p) /\ Len(q) = Len(p) - 1
  BY DEF IsWithout
<1>2. ASSUME NEW j \in 1 .. Len(p), j < i PROVE j \in 1 .. Len(q) /\ q[j] = p[j]
  <2>1. j \in 1 .. Len(p) - 1
    BY <1>1, <1>2
  <2> QED BY <1>1, <1>2, <2>1 DEF IsWithout
<1>3. ASSUME NEW j \in 1 .. Len(p), j > i PROVE j - 1 \in 1 .. Len(q) /\ q[j - 1] = p[j]
  <2>1. j - 1 \in 1 .. Len(p) - 1 /\ ~(j - 1 < i) /\ j - 1 + 1 = j
    BY <1>1, <1>3
  <2> QED BY <1>1, <2>1 DEF IsWithout
<1> QED BY <1>2, <1>3

\* The entry is gone, the others are there, and no entry repeats.
LEMMA OnceWithout ==
  ASSUME NEW T, NEW p \in Seq(T), NEW q, NEW i \in 1 .. Len(p), IsWithout(q, p, i), Once(p)
  PROVE  Once(q) /\ \A x : Has(q, x) <=> Has(p, x) /\ x # p[i]
<1>1. Once(q)
  <2> SUFFICES ASSUME NEW k \in 1 .. Len(q), NEW l \in 1 .. Len(q), q[k] = q[l]
               PROVE  k = l
    BY DEF Once
  <2>1. k \in Nat /\ l \in Nat /\ i \in Nat
    BY DEF IsWithout
  <2>2. PICK j \in 1 .. Len(p) : q[k] = p[j] /\ ((k < i /\ j = k) \/ (k >= i /\ j = k + 1))
    BY WithoutEach
  <2>3. PICK m \in 1 .. Len(p) : q[l] = p[m] /\ ((l < i /\ m = l) \/ (l >= i /\ m = l + 1))
    BY WithoutEach
  <2>4. j = m
    BY <2>2, <2>3 DEF Once
  <2> QED BY <2>1, <2>2, <2>3, <2>4
<1>2. ASSUME NEW x PROVE Has(q, x) <=> Has(p, x) /\ x # p[i]
  <2>1. ASSUME NEW k \in 1 .. Len(q), q[k] = x PROVE Has(p, x) /\ x # p[i]
    <3>1. k \in Nat /\ i \in Nat
      BY DEF IsWithout
    <3>2. PICK j \in 1 .. Len(p) : q[k] = p[j] /\ ((k < i /\ j = k) \/ (k >= i /\ j = k + 1))
      BY WithoutEach
    <3>3. j # i
      BY <3>1, <3>2
    <3> QED BY <2>1, <3>2, <3>3 DEF Once, Has
  <2>2. ASSUME NEW j \in 1 .. Len(p), p[j] = x, x # p[i] PROVE Has(q, x)
    <3>1. j < i \/ j > i
      BY <2>2
    <3>2. CASE j < i
      BY <2>2, <3>2, WithoutFinds DEF Has
    <3>3. CASE j > i
      BY <2>2, <3>3, WithoutFinds DEF Has
    <3> QED BY <3>1, <3>2, <3>3
  <2> QED BY <2>1, <2>2 DEF Has
<1> QED BY <1>1, <1>2

\* A list that has no repetitions, cut in two.
LEMMA OnceCut ==
  ASSUME NEW T, NEW p \in Seq(T), NEW f, NEW b, NEW k \in 0 .. Len(p),
         IsFront(f, p, k), IsBack(b, p, k), Once(p)
  PROVE  /\ Once(f) /\ Once(b)
         /\ \A x : Has(p, x) <=> Has(f, x) \/ Has(b, x)
         /\ \A x : ~(Has(f, x) /\ Has(b, x))
<1>1. Len(p) \in Nat /\ k \in Nat /\ k <= Len(p) /\ Len(f) = k /\ Len(b) = Len(p) - k
  BY DEF IsFront, IsBack
<1>2. ASSUME NEW j \in 1 .. Len(f) PROVE j \in 1 .. Len(p) /\ f[j] = p[j] /\ j <= k /\ j \in Nat
  BY <1>1 DEF IsFront
<1>3. ASSUME NEW j \in 1 .. Len(b) PROVE k + j \in 1 .. Len(p) /\ b[j] = p[k + j] /\ k + j > k /\ j \in Nat
  BY <1>1 DEF IsBack
<1>4. Once(f)
  BY <1>2 DEF Once
<1>5. Once(b)
  <2> SUFFICES ASSUME NEW i \in 1 .. Len(b), NEW j \in 1 .. Len(b), b[i] = b[j]
               PROVE  i = j
    BY DEF Once
  <2>1. k + i = k + j
    BY <1>3 DEF Once
  <2> QED BY <1>1, <1>3, <2>1
<1>6. ASSUME NEW x, NEW i \in 1 .. Len(p), p[i] = x PROVE Has(f, x) \/ Has(b, x)
  <2>1. CASE i <= k
    <3>1. i \in 1 .. Len(f)
      BY <1>1, <2>1
    <3> QED BY <1>2, <1>6, <3>1 DEF Has
  <2>2. CASE i > k
    <3>1. i - k \in 1 .. Len(b) /\ k + (i - k) = i
      BY <1>1, <2>2
    <3> QED BY <1>3, <1>6, <3>1 DEF Has
  <2> QED BY <1>1, <2>1, <2>2
<1>7. ASSUME NEW x, Has(f, x) \/ Has(b, x) PROVE Has(p, x)
  BY <1>2, <1>3, <1>7 DEF Has
<1>8. ASSUME NEW x, Has(f, x), Has(b, x) PROVE FALSE
  <2>1. PICK i \in 1 .. Len(f) : f[i] = x
    BY <1>8 DEF Has
  <2>2. PICK j \in 1 .. Len(b) : b[j] = x
    BY <1>8 DEF Has
  <2>3. i \in 1 .. Len(p) /\ p[i] = x /\ i <= k /\ i \in Nat
    BY <1>2, <2>1
  <2>4. k + j \in 1 .. Len(p) /\ p[k + j] = x /\ k + j > k
    BY <1>3, <2>2
  <2>5. i = k + j
    BY <2>3, <2>4 DEF Once
  <2> QED BY <1>1, <2>3, <2>4, <2>5
<1> QED BY <1>4, <1>5, <1>6, <1>7, <1>8 DEF Has

-----------------------------------------------------------------------------
(* Lists made of links, over plain values.                                 *)

\* The links next give q, from first to nil.
Spells(first, next, nil, q) ==
  /\ first = IF q = <<>> THEN nil ELSE q[1]
  /\ \A i \in 1 .. Len(q) : next[q[i]] = IF i = Len(q) THEN nil ELSE q[i + 1]

\* The last entry.
LastOf(q, nil) == IF q = <<>> THEN nil ELSE q[Len(q)]

\* The numbers up to n are n.
LEMMA UpTo == \A n \in Nat : Cardinality(1 .. n) = n
<1>1. \A n \in Nat : Cardinality(1 .. n) = IF 1 > n THEN 0 ELSE n - 1 + 1
  BY FS_Interval
<1>2. \A n \in Nat : (IF 1 > n THEN 0 ELSE n - 1 + 1) = n
  OBVIOUS
<1> QED BY <1>1, <1>2

\* A sequence without repetitions is no longer than its set.
LEMMA QueueFits ==
  ASSUME NEW T, IsFiniteSet(T), NEW q \in Seq(T), Once(q)
  PROVE  Len(q) \in Nat /\ Cardinality(T) \in Nat /\ Len(q) =< Cardinality(T)
<1>1. IsFiniteSet(T)
  OBVIOUS
<1>2. Len(q) \in Nat /\ q \in [1 .. Len(q) -> T]
  BY LenProperties
<1>3. q \in Injection(1 .. Len(q), T)
  BY <1>2 DEF Once, Injection, IsInjective
<1>4. Cardinality(1 .. Len(q)) = Len(q)
  BY <1>2, UpTo
<1> QED BY <1>1, <1>2, <1>3, <1>4, FS_Injection, FS_CardinalityType

\* A walk along the links finds the queue they spell.
LEMMA FollowIs ==
  ASSUME NEW T, NEW nil, nil \notin T, NEW q \in Seq(T), NEW N \in Nat, Len(q) =< N,
         NEW first, NEW next, Spells(first, next, nil, q)
  PROVE  Follow(first, next, nil, N) = q
<1> DEFINE w == [n \in 1 .. N |-> IF n =< Len(q) THEN q[n] ELSE nil]
           At(g) == g = [n \in 1 .. N |-> IF n = 1 THEN first
                                          ELSE IF g[n - 1] = nil THEN nil ELSE next[g[n - 1]]]
<1>1. Len(q) \in Nat /\ N \in Nat /\ Len(q) =< N
  BY LenProperties
<1>2. \A n \in 1 .. Len(q) : q[n] \in T /\ q[n] # nil /\ n \in 1 .. N
  BY <1>1, ElementOfSeq
<1>3. At(w)
  <2>1. ASSUME NEW n \in 1 .. N
        PROVE  w[n] = IF n = 1 THEN first ELSE IF w[n - 1] = nil THEN nil ELSE next[w[n - 1]]
    <3>1. CASE n = 1
      <4>1. q = <<>> <=> Len(q) = 0
        BY EmptySeq
      <4> QED BY <1>1, <3>1, <4>1 DEF Spells
    <3>2. CASE n # 1 /\ n - 1 =< Len(q)
      <4>1. n - 1 \in 1 .. Len(q) /\ w[n - 1] = q[n - 1] /\ q[n - 1] # nil
        BY <1>1, <1>2, <3>2
      <4>2. next[q[n - 1]] = IF n - 1 = Len(q) THEN nil ELSE q[(n - 1) + 1]
        BY <4>1 DEF Spells
      <4>3. (n - 1) + 1 = n /\ (n - 1 = Len(q) <=> ~(n =< Len(q)))
        BY <1>1, <3>2
      <4> QED BY <3>2, <4>1, <4>2, <4>3
    <3>3. CASE n # 1 /\ ~(n - 1 =< Len(q))
      <4>1. w[n - 1] = nil /\ ~(n =< Len(q))
        BY <1>1, <3>3
      <4> QED BY <3>3, <4>1
    <3> QED BY <3>1, <3>2, <3>3
  <2> HIDE DEF w
  <2>2. w = [n \in 1 .. N |-> w[n]]
    BY DEF w
  <2> QED BY <2>1, <2>2
<1>4. ASSUME NEW g, At(g) PROVE g = w
  <2>1. /\ g = [n \in 1 .. N |-> g[n]] /\ w = [n \in 1 .. N |-> w[n]]
        /\ \A n \in 1 .. N : g[n] = IF n = 1 THEN first
                                    ELSE IF g[n - 1] = nil THEN nil ELSE next[g[n - 1]]
    BY <1>4
  <2>2. \A n \in 1 .. N : w[n] = IF n = 1 THEN first
                                 ELSE IF w[n - 1] = nil THEN nil ELSE next[w[n - 1]]
    BY <1>3
  <2> HIDE DEF w
  <2>3. \A n \in 1 .. N : g[n] = w[n]
    <3> DEFINE bad == {n \in 1 .. N : g[n] # w[n]}
    <3>1. SUFFICES bad = {}
      OBVIOUS
    <3>2. CASE bad # {}
      <4>1. bad \in SUBSET Nat
        BY <1>1
      <4>2. PICK n \in bad : \A i \in bad : n <= i
        <5> HIDE DEF bad
        <5> QED BY <3>2, <4>1, SomeLeast
      <4>3. CASE n = 1
        BY <2>1, <2>2, <4>2, <4>3
      <4>4. CASE n # 1
        <5>1. n \in 1 .. N /\ n - 1 \in 1 .. N /\ ~(n <= n - 1)
          BY <1>1, <4>4
        <5>2. g[n - 1] = w[n - 1]
          BY <4>2, <5>1
        <5>3. /\ g[n] = IF g[n - 1] = nil THEN nil ELSE next[g[n - 1]]
              /\ w[n] = IF w[n - 1] = nil THEN nil ELSE next[w[n - 1]]
          BY <2>1, <2>2, <4>4, <5>1
        <5>4. g[n] = w[n]
          BY <5>2, <5>3
        <5> QED BY <5>4
      <4> QED BY <4>3, <4>4
    <3> QED BY <3>2
  <2> QED BY <2>1, <2>3
<1>5. Trail(first, next, nil, N) = w
  <2>1. Trail(first, next, nil, N) = CHOOSE g : At(g)
    BY DEF Trail
  <2> HIDE DEF At, w
  <2> QED BY <1>3, <1>4, <2>1
<1>6. {m \in 1 .. N : w[m] # nil} = 1 .. Len(q)
  BY <1>1, <1>2
<1>7. Cardinality(1 .. Len(q)) = Len(q)
  BY <1>1, UpTo
<1>8. [n \in 1 .. Len(q) |-> w[n]] = q
  <2>1. \A n \in 1 .. Len(q) : w[n] = q[n]
    BY <1>1, <1>2
  <2>2. q = [n \in 1 .. Len(q) |-> q[n]]
    BY LenProperties
  <2> HIDE DEF w
  <2> QED BY <2>1, <2>2
<1>9. DOMAIN w = 1 .. N
  OBVIOUS
<1> HIDE DEF w
<1>10. CASE first = nil
  <2>1. q = <<>>
    <3>1. CASE q # <<>>
      BY <1>2, <1>10, <3>1, EmptySeq DEF Spells
    <3> QED BY <3>1
  <2> QED BY <1>10, <2>1 DEF Follow
<1>11. CASE first # nil
  BY <1>5, <1>6, <1>7, <1>8, <1>9, <1>11 DEF Follow
<1> QED BY <1>10, <1>11

\* What a list has after an entry came at the end.
LEMMA HasAppended ==
  ASSUME NEW T, NEW q \in Seq(T), NEW c \in T
  PROVE  \A x : Has(Append(q, c), x) <=> Has(q, x) \/ x = c
<1> DEFINE a == Append(q, c)
           n == Len(q)
<1>1. n \in Nat /\ Len(a) = n + 1 /\ a[n + 1] = c /\ \A i \in 1 .. n : a[i] = q[i]
  BY AppendProperties
<1>2. \A i \in 1 .. n + 1 : i = n + 1 \/ i \in 1 .. n
  BY <1>1
<1>3. n + 1 \in 1 .. n + 1 /\ \A i \in 1 .. n : i \in 1 .. n + 1
  BY <1>1
<1> HIDE DEF a, n
<1>4. \A x : (\E i \in 1 .. n + 1 : a[i] = x) <=> (\E i \in 1 .. n : q[i] = x) \/ x = c
  BY <1>1, <1>2, <1>3
<1> QED BY <1>1, <1>4 DEF Has, a, n

\* An entry that comes at the end.
LEMMA AppendSpells ==
  ASSUME NEW T, NEW nil, nil \notin T, NEW q \in Seq(T), Once(q), NEW first, NEW next, Spells(first, next, nil, q),
         NEW c \in T, ~Has(q, c),
         NEW next2, next2[c] = nil,
         \A t \in T : Has(q, t) => next2[t] = IF t = LastOf(q, nil) THEN c ELSE next[t]
  PROVE  /\ Spells(IF first = nil THEN c ELSE first, next2, nil, Append(q, c))
         /\ LastOf(Append(q, c), nil) = c
         /\ Once(Append(q, c))
<1> DEFINE a == Append(q, c)
           n == Len(q)
<1>1. n \in Nat /\ Len(a) = n + 1 /\ a # <<>> /\ (q = <<>> <=> n = 0)
  BY AppendProperties, EmptySeq
<1>2. /\ \A i \in 1 .. n : a[i] = q[i] /\ q[i] \in T /\ Has(q, q[i]) /\ q[i] # c /\ q[i] # nil
      /\ a[n + 1] = c
  BY AppendProperties, ElementOfSeq DEF Has
<1>3. q # <<>> => LastOf(q, nil) = q[n]
  BY DEF LastOf
<1> HIDE DEF a, n
<1>4. LastOf(a, nil) = c
  BY <1>1, <1>2 DEF LastOf
<1>5. Once(a)
  <2> SUFFICES ASSUME NEW i \in 1 .. n + 1, NEW j \in 1 .. n + 1, a[i] = a[j] PROVE i = j
    BY <1>1 DEF Once
  <2>1. \A k \in 1 .. n + 1 : k = n + 1 \/ k \in 1 .. n
    BY <1>1
  <2>2. CASE i \in 1 .. n /\ j \in 1 .. n
    BY <1>2, <2>2 DEF Once, n
  <2> QED BY <1>2, <2>1, <2>2
<1>6. (IF first = nil THEN c ELSE first) = a[1]
  <2>1. CASE q = <<>>
    BY <1>1, <1>2, <2>1 DEF Spells
  <2>2. CASE q # <<>>
    <3>1. 1 \in 1 .. n
      BY <1>1, <2>2
    <3>2. first = q[1]
      BY <2>2 DEF Spells
    <3> QED BY <1>2, <3>1, <3>2
  <2> QED BY <2>1, <2>2
<1>7. ASSUME NEW i \in 1 .. n + 1
      PROVE  next2[a[i]] = IF i = n + 1 THEN nil ELSE a[i + 1]
  <2>1. CASE i = n + 1
    BY <1>2, <2>1
  <2>2. CASE i = n /\ i \in 1 .. n
    <3>1. q # <<>> /\ q[i] = LastOf(q, nil) /\ i # n + 1
      BY <1>1, <1>3, <2>2
    <3> QED BY <1>2, <2>2, <3>1
  <2>3. CASE i \in 1 .. n - 1
    <3>1. /\ i \in 1 .. n /\ i + 1 \in 1 .. n /\ n \in 1 .. n /\ i # n /\ i # n + 1 /\ q # <<>>
      BY <1>1, <2>3
    <3>2. q[i] # LastOf(q, nil)
      BY <1>3, <3>1 DEF Once, n
    <3>3. next[q[i]] = q[i + 1]
      BY <3>1 DEF Spells, n
    <3> QED BY <1>2, <3>1, <3>2, <3>3
  <2>4. i = n + 1 \/ (i = n /\ i \in 1 .. n) \/ i \in 1 .. n - 1
    BY <1>1
  <2> QED BY <2>1, <2>2, <2>3, <2>4
<1>8. Spells(IF first = nil THEN c ELSE first, next2, nil, a)
  BY <1>1, <1>6, <1>7 DEF Spells
<1> QED BY <1>4, <1>5, <1>8 DEF a

\* The first entry goes.
LEMMA TailSpells ==
  ASSUME NEW T, NEW nil, nil \notin T, NEW q \in Seq(T), Once(q), q # <<>>,
         NEW first, NEW next, Spells(first, next, nil, q)
  PROVE  /\ first = Head(q) /\ first \in T /\ Has(q, first)
         /\ Spells(next[first], next, nil, Tail(q))
         /\ LastOf(Tail(q), nil) = IF next[first] = nil THEN nil ELSE LastOf(q, nil)
         /\ Once(Tail(q))
         /\ \A t \in T : Has(Tail(q), t) <=> Has(q, t) /\ t # first
<1> DEFINE b == Tail(q)
           n == Len(q)
<1>1. n \in Nat /\ n >= 1 /\ 1 \in 1 .. n /\ Head(q) = q[1] /\ b \in Seq(T)
  BY EmptySeq, HeadTailProperties
<1>2. Len(b) = n - 1 /\ \A i \in 1 .. n - 1 : b[i] = q[i + 1]
  BY HeadTailProperties
<1>3. \A i \in 1 .. n : q[i] \in T /\ q[i] # nil
  BY ElementOfSeq
<1>4. first = q[1] /\ next[q[1]] = IF 1 = n THEN nil ELSE q[1 + 1]
  BY <1>1 DEF Spells
<1>5. b = <<>> <=> n = 1
  <2>1. b = <<>> <=> Len(b) = 0
    BY <1>1, EmptySeq
  <2> HIDE DEF b, n
  <2> QED BY <1>1, <1>2, <2>1
<1>6. \A i \in 1 .. n - 1 : i + 1 \in 1 .. n /\ i + 1 # 1 /\ (i = n - 1 <=> i + 1 = n)
  BY <1>1
<1> HIDE DEF b, n
<1>7. Once(b)
  <2> SUFFICES ASSUME NEW i \in 1 .. n - 1, NEW j \in 1 .. n - 1, b[i] = b[j] PROVE i = j
    BY <1>2 DEF Once
  <2>1. q[i + 1] = q[j + 1]
    BY <1>2
  <2>2. i + 1 = j + 1
    BY <1>6, <2>1 DEF Once, n
  <2> QED BY <1>1, <2>2
<1>8. n # 1 => 1 \in 1 .. n - 1 /\ n - 1 \in 1 .. n - 1 /\ n \in 1 .. n /\ 2 \in 1 .. n
  BY <1>1
<1>9. Spells(next[first], next, nil, b)
  <2>1. next[first] = IF b = <<>> THEN nil ELSE b[1]
    <3>1. CASE n = 1
      BY <1>4, <1>5, <3>1
    <3>2. CASE n # 1
      BY <1>2, <1>4, <1>5, <1>8, <3>2
    <3> QED BY <3>1, <3>2
  <2>2. ASSUME NEW i \in 1 .. n - 1
        PROVE  next[b[i]] = IF i = n - 1 THEN nil ELSE b[i + 1]
    <3>1. b[i] = q[i + 1] /\ i + 1 \in 1 .. n /\ (i = n - 1 <=> i + 1 = n)
      BY <1>2, <1>6
    <3>2. next[q[i + 1]] = IF i + 1 = n THEN nil ELSE q[(i + 1) + 1]
      BY <3>1 DEF Spells, n
    <3>3. i # n - 1 => b[i + 1] = q[(i + 1) + 1]
      <4>1. i # n - 1 => i + 1 \in 1 .. n - 1
        BY <1>1
      <4> QED BY <1>2, <4>1
    <3> QED BY <3>1, <3>2, <3>3
  <2> QED BY <1>2, <2>1, <2>2 DEF Spells
<1>10. LastOf(b, nil) = IF next[first] = nil THEN nil ELSE LastOf(q, nil)
  <2>1. CASE n = 1
    BY <1>4, <1>5, <2>1 DEF LastOf
  <2>2. CASE n # 1
    <3>1. LastOf(b, nil) = b[n - 1] /\ LastOf(q, nil) = q[n]
      BY <1>2, <1>5, <2>2 DEF LastOf, n
    <3>2. b[n - 1] = q[(n - 1) + 1] /\ (n - 1) + 1 = n
      BY <1>1, <1>2, <1>8, <2>2
    <3>3. next[first] # nil
      BY <1>3, <1>4, <1>8, <2>2
    <3> QED BY <3>1, <3>2, <3>3
  <2> QED BY <2>1, <2>2
<1>11. ASSUME NEW t \in T PROVE Has(b, t) <=> Has(q, t) /\ t # first
  <2>1. ASSUME NEW i \in 1 .. n - 1, b[i] = t PROVE Has(q, t) /\ t # first
    <3>1. q[i + 1] = t /\ i + 1 \in 1 .. n /\ i + 1 # 1
      BY <1>2, <1>6, <2>1
    <3>2. q[i + 1] # q[1]
      BY <1>1, <3>1 DEF Once, n
    <3> QED BY <1>4, <3>1, <3>2 DEF Has, n
  <2>2. ASSUME NEW i \in 1 .. n, q[i] = t, t # first PROVE Has(b, t)
    <3>1. i # 1
      BY <1>4, <2>2
    <3>2. i - 1 \in 1 .. n - 1 /\ (i - 1) + 1 = i
      BY <1>1, <3>1
    <3>3. b[i - 1] = t
      BY <1>2, <2>2, <3>2
    <3> QED BY <1>2, <3>2, <3>3 DEF Has
  <2> QED BY <1>2, <2>1, <2>2 DEF Has, n
<1>12. first = Head(q) /\ first \in T /\ Has(q, first)
  BY <1>1, <1>3, <1>4 DEF Has, n
<1> QED BY <1>7, <1>9, <1>10, <1>11, <1>12 DEF b

\* An entry is put in front.
LEMMA PushSpells ==
  ASSUME NEW T, NEW nil, nil \notin T, NEW q \in Seq(T), Once(q),
         NEW first, NEW next, Spells(first, next, nil, q),
         NEW c \in T, ~Has(q, c),
         NEW next2, next2[c] = first, \A t \in T : Has(q, t) => next2[t] = next[t]
  PROVE  /\ <<c>> \o q \in Seq(T)
         /\ Spells(c, next2, nil, <<c>> \o q)
         /\ Once(<<c>> \o q)
         /\ \A t \in T : Has(<<c>> \o q, t) <=> Has(q, t) \/ t = c
<1> DEFINE a == <<c>> \o q
           n == Len(q)
<1>1. /\ n \in Nat /\ a \in Seq(T) /\ Len(a) = n + 1
      /\ \A i \in 1 .. n + 1 : a[i] = IF i = 1 THEN c ELSE q[i - 1]
  <2>1. <<c>> \in Seq(T) /\ Len(<<c>>) = 1 /\ <<c>>[1] = c
    OBVIOUS
  <2>2. a \in Seq(T) /\ Len(a) = 1 + n
    BY <2>1, ConcatProperties
  <2>3. \A i \in 1 .. 1 + n : a[i] = IF i <= 1 THEN <<c>>[i] ELSE q[i - 1]
    BY <2>1, ConcatProperties
  <2>4. n \in Nat /\ \A i \in 1 .. n + 1 : (i <= 1 <=> i = 1) /\ i \in 1 .. 1 + n
    BY LenProperties
  <2> HIDE DEF a, n
  <2> QED BY <2>1, <2>2, <2>3, <2>4
<1>2. \A i \in 1 .. n : q[i] \in T /\ Has(q, q[i]) /\ q[i] # c
  BY ElementOfSeq DEF Has
<1>3. q = <<>> <=> n = 0
  BY EmptySeq
<1>4. first = IF n = 0 THEN nil ELSE q[1]
  BY <1>3 DEF Spells
<1>5. \A i \in 1 .. n : next[q[i]] = IF i = n THEN nil ELSE q[i + 1]
  BY DEF Spells
<1>6. \A i, j \in 1 .. n : q[i] = q[j] => i = j
  BY DEF Once
<1>7. \A t : Has(q, t) <=> \E i \in 1 .. n : q[i] = t
  BY DEF Has
<1> HIDE DEF a, n
<1>8. \A i \in 1 .. n + 1 : i = 1 \/ (i - 1 \in 1 .. n /\ (i - 1) + 1 = i /\ a[i] = q[i - 1])
  BY <1>1
<1>9. Spells(c, next2, nil, a)
  <2>1. a # <<>> /\ a[1] = c
    BY <1>1, EmptySeq
  <2>2. ASSUME NEW i \in 1 .. n + 1
        PROVE  next2[a[i]] = IF i = n + 1 THEN nil ELSE a[i + 1]
    <3>1. i # n + 1 => i + 1 \in 1 .. n + 1 /\ a[i + 1] = q[i] /\ i \in 1 .. n
      <4>1. i # n + 1 => i + 1 \in 1 .. n + 1 /\ i + 1 # 1 /\ (i + 1) - 1 = i /\ i \in 1 .. n
        BY <1>1
      <4> QED BY <1>1, <4>1
    <3>2. CASE i = 1
      <4>1. next2[a[i]] = first
        BY <2>1, <3>2
      <4>2. i = n + 1 <=> n = 0
        BY <1>1, <3>2
      <4> QED BY <1>4, <3>1, <3>2, <4>1, <4>2
    <3>3. CASE i # 1
      <4>1. i - 1 \in 1 .. n /\ (i - 1) + 1 = i /\ a[i] = q[i - 1]
        BY <1>8, <3>3
      <4>2. next2[a[i]] = next[q[i - 1]]
        BY <1>2, <4>1
      <4>3. next[q[i - 1]] = IF i - 1 = n THEN nil ELSE q[i]
        BY <1>5, <4>1
      <4>4. i - 1 = n <=> i = n + 1
        BY <1>1
      <4> QED BY <3>1, <4>2, <4>3, <4>4
    <3> QED BY <3>2, <3>3
  <2> QED BY <1>1, <2>1, <2>2 DEF Spells
<1>10. Once(a)
  <2> SUFFICES ASSUME NEW i \in 1 .. n + 1, NEW j \in 1 .. n + 1, a[i] = a[j] PROVE i = j
    BY <1>1 DEF Once
  <2>1. CASE i = 1 \/ j = 1
    BY <1>1, <1>2, <1>8, <2>1
  <2>2. CASE i # 1 /\ j # 1
    <3>1. i - 1 \in 1 .. n /\ j - 1 \in 1 .. n /\ q[i - 1] = q[j - 1]
      BY <1>8, <2>2
    <3>2. i - 1 = j - 1
      BY <1>6, <3>1
    <3> QED BY <1>1, <3>2
  <2> QED BY <2>1, <2>2
<1>11. ASSUME NEW t \in T PROVE Has(a, t) <=> Has(q, t) \/ t = c
  <2>1. ASSUME NEW i \in 1 .. n + 1, a[i] = t PROVE Has(q, t) \/ t = c
    BY <1>1, <1>7, <1>8, <2>1
  <2>2. ASSUME NEW i \in 1 .. n, q[i] = t PROVE Has(a, t)
    <3>1. i + 1 \in 1 .. n + 1 /\ i + 1 # 1 /\ (i + 1) - 1 = i
      BY <1>1
    <3>2. a[i + 1] = t
      BY <1>1, <2>2, <3>1
    <3> QED BY <1>1, <3>1, <3>2 DEF Has
  <2>3. Has(a, c)
    <3>1. 1 \in 1 .. n + 1 /\ a[1] = c
      BY <1>1
    <3> QED BY <1>1, <3>1 DEF Has
  <2> QED BY <1>1, <1>7, <2>1, <2>2, <2>3 DEF Has
<1> QED BY <1>1, <1>9, <1>10, <1>11 DEF a

\* Links of entries that are not in the list do not matter.
LEMMA SameSpells ==
  ASSUME NEW T, NEW nil, NEW q \in Seq(T),
         NEW first, NEW next, Spells(first, next, nil, q),
         NEW next2, \A t \in T : Has(q, t) => next2[t] = next[t]
  PROVE  Spells(first, next2, nil, q)
<1>1. \A i \in 1 .. Len(q) : q[i] \in T /\ Has(q, q[i])
  BY ElementOfSeq DEF Has
<1> QED BY <1>1 DEF Spells
=============================================================================
