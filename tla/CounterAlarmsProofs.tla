-------------------------- MODULE CounterAlarmsProofs --------------------------
(***************************************************************************)
(* The delta queue of the counter in general, for any alarms and any       *)
(* maximum: the sums of its deltas exist, never decrease and stay below a  *)
(* turn of the counter (QueueOK), each operation changes the ticks of the  *)
(* alarm it is about and of no other, and the lists together hold each     *)
(* alarm in use once. From that the queue implements AlarmTimes.           *)
(***************************************************************************)
EXTENDS CounterAlarms, ListLemmas

Deltas == [Alarms -> 0 .. maxallowedvalue]

\* s holds the ticks, after the next one, before each entry of q expires.
Timed(q, d, s) ==
  /\ s \in [0 .. Len(q) -> 0 .. maxallowedvalue]
  /\ s[0] = 0
  /\ \A j \in 1 .. Len(q) : s[j] = s[j - 1] + d[q[j]]
  /\ \A i, j \in 0 .. Len(q) : i <= j => s[i] <= s[j]

QueueOK(q, d) ==
  /\ q \in Seq(Alarms) /\ d \in Deltas
  /\ Once(q)
  /\ \E s : Timed(q, d, s)

\* Walk, of any queue.
WalkOf(q, d, a) ==
  IF a \notin Elems(q) THEN PastEnd
  ELSE Offsets(q, d)[CHOOSE i \in DOMAIN q : q[i] = a] + 1

\* The entries of a list.
LEMMA ElemsAre ==
  ASSUME NEW q \in Seq(Alarms)
  PROVE  \A x : x \in Elems(q) <=> Has(q, x)
<1>1. DOMAIN q = 1 .. Len(q)
  OBVIOUS
<1> QED BY <1>1 DEF Elems, Has

\* The sums are the only ones.
LEMMA OffsetsAre ==
  ASSUME NEW q \in Seq(Alarms), NEW d \in Deltas, NEW s, Timed(q, d, s)
  PROVE  Offsets(q, d) = s
<1> DEFINE n == Len(q)
           Sums(g) == g = [j \in 0 .. n |-> IF j = 0 THEN 0 ELSE g[j - 1] + d[q[j]]]
<1>1. /\ n \in Nat /\ s \in [0 .. n -> 0 .. maxallowedvalue] /\ s[0] = 0
      /\ \A j \in 1 .. n : s[j] = s[j - 1] + d[q[j]]
  BY DEF Timed
<1>2. Sums(s)
  <2>1. ASSUME NEW j \in 0 .. n PROVE s[j] = IF j = 0 THEN 0 ELSE s[j - 1] + d[q[j]]
    BY <1>1
  <2>2. s = [j \in 0 .. n |-> s[j]]
    BY <1>1
  <2> QED BY <2>1, <2>2
<1>3. ASSUME NEW g, Sums(g) PROVE g = s
  <2>1. /\ g = [j \in 0 .. n |-> g[j]]
        /\ \A j \in 0 .. n : g[j] = IF j = 0 THEN 0 ELSE g[j - 1] + d[q[j]]
    BY <1>3
  <2>2. \A j \in 0 .. n : g[j] = s[j]
    <3> DEFINE bad == {j \in 0 .. n : g[j] # s[j]}
    <3>1. SUFFICES bad = {}
      OBVIOUS
    <3>2. CASE bad # {}
      <4>1. bad \subseteq Nat
        BY <1>1
      <4>2. PICK j \in bad : \A i \in bad : j <= i
        <5> HIDE DEF bad
        <5> QED BY <3>2, <4>1, SomeLeast
      <4>3. CASE j = 0
        BY <1>1, <2>1, <4>2, <4>3
      <4>4. CASE j # 0
        <5>1. j \in 1 .. n /\ j - 1 \in 0 .. n /\ ~(j <= j - 1)
          BY <1>1, <4>4
        <5>2. g[j - 1] = s[j - 1]
          BY <4>2, <5>1
        <5>3. g[j] = g[j - 1] + d[q[j]] /\ s[j] = s[j - 1] + d[q[j]]
          BY <1>1, <2>1, <4>4, <5>1
        <5> QED BY <5>2, <5>3
      <4> QED BY <4>3, <4>4
    <3> QED BY <3>2
  <2> QED BY <1>1, <2>1, <2>2
<1>4. Offsets(q, d) = CHOOSE g : Sums(g)
  BY DEF Offsets
<1> HIDE DEF Sums
<1> QED BY <1>2, <1>3, <1>4

\* What the walk finds.
LEMMA WalkIs ==
  ASSUME NEW q \in Seq(Alarms), NEW d \in Deltas, NEW s, Timed(q, d, s), Once(q), NEW i \in 1 .. Len(q)
  PROVE  WalkOf(q, d, q[i]) = s[i] + 1
<1>1. DOMAIN q = 1 .. Len(q) /\ q[i] \in Elems(q)
  BY DEF Elems
<1>2. (CHOOSE j \in DOMAIN q : q[j] = q[i]) = i
  BY <1>1 DEF Once
<1>3. Offsets(q, d) = s
  BY OffsetsAre
<1> QED BY <1>1, <1>2, <1>3 DEF WalkOf

\* The entries that expire no later than a given tick come first.
LEMMA FirstOnes ==
  ASSUME NEW q \in Seq(Alarms), NEW d \in Deltas, NEW s, Timed(q, d, s), NEW e \in 0 .. maxallowedvalue
  PROVE  \E n \in 0 .. Len(q) :
           /\ Cardinality({i \in DOMAIN q : Offsets(q, d)[i] =< e}) = n
           /\ s[n] <= e
           /\ \A i \in 1 .. n : s[i] <= e
           /\ n < Len(q) => s[n + 1] > e
<1> DEFINE l == Len(q)
           late == {i \in 1 .. l : s[i] > e}
           early == {i \in DOMAIN q : Offsets(q, d)[i] =< e}
<1>1. /\ l \in Nat /\ DOMAIN q = 1 .. l /\ e \in Nat /\ s[0] = 0
      /\ \A i \in 0 .. l : s[i] \in Nat
      /\ \A i, j \in 0 .. l : i <= j => s[i] <= s[j]
  BY CounterAssumption DEF Timed
<1>2. \A i : i \in early <=> i \in 1 .. l /\ s[i] <= e
  BY <1>1, OffsetsAre
<1> HIDE DEF early
<1>3. PICK n \in 0 .. l : /\ s[n] <= e
                          /\ \A i \in 1 .. n : s[i] <= e
                          /\ \A i \in 1 .. l : i > n => s[i] > e
  <2>1. CASE late = {}
    <3>1. \A i \in 1 .. l : s[i] <= e
      BY <1>1, <2>1
    <3>2. l \in 0 .. l /\ (l = 0 \/ l \in 1 .. l)
      BY <1>1
    <3>3. s[l] <= e
      BY <1>1, <3>1, <3>2
    <3> QED BY <1>1, <3>1, <3>2, <3>3
  <2>2. CASE late # {}
    <3>1. PICK f \in late : \A i \in late : f <= i
      <4>1. late \subseteq Nat
        BY <1>1
      <4> HIDE DEF late
      <4> QED BY <2>2, <4>1, SomeLeast
    <3>2. f \in 1 .. l /\ s[f] > e /\ f - 1 \in 0 .. l
      BY <1>1
    <3>3. \A i \in 1 .. f - 1 : s[i] <= e
      <4> SUFFICES ASSUME NEW i \in 1 .. f - 1 PROVE s[i] <= e
        OBVIOUS
      <4>1. i \in 1 .. l /\ ~(f <= i)
        BY <3>2
      <4>2. i \notin late
        BY <3>1, <4>1
      <4> QED BY <1>1, <4>1, <4>2
    <3>4. s[f - 1] <= e
      <4>1. CASE f = 1
        BY <1>1, <4>1
      <4>2. CASE f # 1
        <5>1. f - 1 \in 1 .. f - 1
          BY <3>2, <4>2
        <5> QED BY <3>3, <5>1
      <4> QED BY <4>1, <4>2
    <3>5. \A i \in 1 .. l : i > f - 1 => s[i] > e
      <4> SUFFICES ASSUME NEW i \in 1 .. l, i > f - 1 PROVE s[i] > e
        OBVIOUS
      <4>1. f <= i /\ f \in 0 .. l /\ i \in 0 .. l
        BY <3>2
      <4>2. s[f] <= s[i] /\ s[f] \in Nat /\ s[i] \in Nat
        BY <1>1, <4>1
      <4> QED BY <1>1, <3>2, <4>2
    <3> QED BY <3>2, <3>3, <3>4, <3>5
  <2> QED BY <2>1, <2>2
<1> HIDE DEF late
<1>4. early = 1 .. n
  <2>1. ASSUME NEW i \in early PROVE i \in 1 .. n
    <3>1. i \in 1 .. l /\ s[i] <= e /\ s[i] \in Nat
      BY <1>1, <1>2
    <3>2. ~(i > n)
      BY <1>1, <1>3, <3>1
    <3> QED BY <1>1, <3>1, <3>2
  <2>2. ASSUME NEW i \in 1 .. n PROVE i \in early
    <3>1. i \in 1 .. l
      BY <1>1
    <3> QED BY <1>2, <1>3, <3>1
  <2> QED BY <2>1, <2>2
<1>5. Cardinality(early) = n
  <2>1. n \in Int /\ 1 \in Int
    BY <1>1
  <2>2. Cardinality(1 .. n) = IF 1 <= n THEN n - 1 + 1 ELSE 0
    <3> HIDE DEF l
    <3> QED BY <2>1, FS_Interval
  <2> QED BY <1>1, <1>4, <2>2
<1>6. n < l => s[n + 1] > e
  <2> SUFFICES ASSUME n < l PROVE s[n + 1] > e
    OBVIOUS
  <2>1. n + 1 \in 1 .. l /\ n + 1 > n
    BY <1>1
  <2> QED BY <1>3, <2>1
<1> QED BY <1>3, <1>5, <1>6 DEF early

-----------------------------------------------------------------------------
(* What the operations do to the times.                                    *)

\* q2 is q with a, which expires e ticks after the next one.
Joined(q2, d2, q, d, a, e) ==
  /\ QueueOK(q2, d2) /\ Len(q2) = Len(q) + 1
  /\ \A x : x \in Elems(q2) <=> x \in Elems(q) \/ x = a
  /\ WalkOf(q2, d2, a) = e + 1
  /\ \A x \in Elems(q) : WalkOf(q2, d2, x) = WalkOf(q, d, x)

\* Insert does that.
LEMMA InsertKeeps ==
  ASSUME NEW q, NEW d, QueueOK(q, d), NEW a \in Alarms, a \notin Elems(q),
         NEW e \in 0 .. maxallowedvalue
  PROVE  Joined(Insert(q, d, a, e).queue, Insert(q, d, a, e).delta, q, d, a, e)
<1> DEFINE l == Len(q)
           q2 == Insert(q, d, a, e).queue
           d2 == Insert(q, d, a, e).delta
<1>1. q \in Seq(Alarms) /\ d \in Deltas /\ Once(q) /\ l \in Nat /\ e \in Nat
      /\ \A i \in 1 .. l : q[i] \in Alarms /\ q[i] # a
  <2>1. q \in Seq(Alarms) /\ ~Has(q, a)
    BY ElemsAre DEF QueueOK
  <2> QED BY <2>1, CounterAssumption DEF QueueOK, Has
<1>2. PICK s : Timed(q, d, s)
  BY DEF QueueOK
<1>3. /\ s \in [0 .. l -> 0 .. maxallowedvalue] /\ s[0] = 0
      /\ \A j \in 1 .. l : s[j] = s[j - 1] + d[q[j]]
      /\ \A i, j \in 0 .. l : i <= j => s[i] <= s[j]
      /\ \A i \in 0 .. l : s[i] \in Nat /\ s[i] <= maxallowedvalue
  <2>1. /\ s \in [0 .. l -> 0 .. maxallowedvalue] /\ s[0] = 0
        /\ \A j \in 1 .. l : s[j] = s[j - 1] + d[q[j]]
        /\ \A i, j \in 0 .. l : i <= j => s[i] <= s[j]
    BY <1>2 DEF Timed
  <2>2. \A i \in 0 .. l : s[i] \in 0 .. maxallowedvalue
    BY <2>1
  <2> QED BY <2>1, <2>2, CounterAssumption
<1>4. PICK n \in 0 .. l :
        /\ Cardinality({i \in DOMAIN q : Offsets(q, d)[i] =< e}) = n
        /\ s[n] <= e
        /\ \A i \in 1 .. n : s[i] <= e
        /\ n < l => s[n + 1] > e
  BY <1>1, <1>2, FirstOnes
<1>5. n \in Nat /\ n <= l /\ s[n] \in Nat
  BY <1>1, <1>3
<1>6. /\ q2 = SubSeq(q, 1, n) \o <<a>> \o SubSeq(q, n + 1, l)
      /\ d2 = [x \in Alarms |-> CASE x = a -> e - s[n]
                                  [] n < l /\ x = q[n + 1] -> d[x] - (e - s[n])
                                  [] OTHER -> d[x]]
  <2> DEFINE sum == Offsets(q, d)
             m == Cardinality({i \in DOMAIN q : Offsets(q, d)[i] =< e})
  <2>1. sum = s /\ m = n
    BY <1>1, <1>2, <1>4, OffsetsAre
  <2>2. /\ q2 = SubSeq(q, 1, m) \o <<a>> \o SubSeq(q, m + 1, l)
        /\ d2 = [x \in Alarms |-> CASE x = a -> e - sum[m]
                                    [] m < l /\ x = q[m + 1] -> d[x] - (e - sum[m])
                                    [] OTHER -> d[x]]
    BY DEF Insert
  <2> HIDE DEF sum, m, q2, d2
  <2> QED BY <2>1, <2>2
<1> HIDE DEF q2, d2
<1>7. q2 \in Seq(Alarms) /\ IsAfter(q2, q, n, a) /\ Len(q2) = l + 1
  <2>1. q2 \in Seq(Alarms) /\ IsAfter(q2, q, n, a)
    BY <1>1, <1>6, InIs
  <2> QED BY <2>1 DEF IsAfter
<1>a. /\ n + 1 \in 1 .. Len(q2) /\ q2[n + 1] = a
      /\ \A j \in 1 .. l : j <= n => j \in 1 .. Len(q2) /\ q2[j] = q[j]
      /\ \A j \in 1 .. l : j > n => j + 1 \in 1 .. Len(q2) /\ q2[j + 1] = q[j]
  BY <1>1, <1>7, AfterFinds
<1>8. /\ d2[a] = e - s[n]
      /\ n < l => d2[q[n + 1]] = s[n + 1] - e
      /\ \A x \in Alarms : x # a /\ ~(n < l /\ x = q[n + 1]) => d2[x] = d[x]
  <2>1. d2[a] = e - s[n]
    <3>1. ~(n < l /\ a = q[n + 1])
      <4>1. n < l => n + 1 \in 1 .. l
        BY <1>1, <1>5
      <4> QED BY <1>1, <4>1
    <3> QED BY <1>6, <3>1
  <2>2. ASSUME n < l PROVE d2[q[n + 1]] = s[n + 1] - e
    <3>1. n + 1 \in 1 .. l /\ n + 1 - 1 = n
      BY <1>1, <1>5, <2>2
    <3>2. q[n + 1] \in Alarms /\ q[n + 1] # a /\ s[n + 1] = s[n] + d[q[n + 1]]
      BY <1>1, <1>3, <3>1
    <3>3. d2[q[n + 1]] = d[q[n + 1]] - (e - s[n])
      BY <1>6, <2>2, <3>2
    <3>4. d[q[n + 1]] \in Nat
      BY <1>1, <3>2, CounterAssumption DEF Deltas
    <3> QED BY <1>1, <1>5, <3>2, <3>3, <3>4
  <2>3. ASSUME NEW x \in Alarms, x # a, ~(n < l /\ x = q[n + 1]) PROVE d2[x] = d[x]
    BY <1>6, <2>3
  <2> QED BY <2>1, <2>2, <2>3
<1>9. d2 \in Deltas
  <2>1. ASSUME NEW x \in Alarms PROVE d2[x] \in 0 .. maxallowedvalue
    <3>1. CASE x = a
      BY <1>1, <1>4, <1>5, <1>8, <3>1, CounterAssumption
    <3>2. CASE n < l /\ x = q[n + 1]
      <4>1. n + 1 \in 0 .. l
        BY <1>1, <1>5, <3>2
      <4>2. s[n + 1] \in Nat /\ s[n + 1] <= maxallowedvalue
        BY <1>3, <4>1
      <4> QED BY <1>1, <1>4, <1>8, <3>2, <4>2, CounterAssumption
    <3>3. CASE x # a /\ ~(n < l /\ x = q[n + 1])
      BY <1>1, <1>8, <3>3 DEF Deltas
    <3> QED BY <3>1, <3>2, <3>3
  <2>2. d2 = [x \in Alarms |-> d2[x]]
    BY <1>6
  <2> QED BY <2>1, <2>2 DEF Deltas
<1> DEFINE s2 == [j \in 0 .. l + 1 |-> IF j <= n THEN s[j] ELSE IF j = n + 1 THEN e ELSE s[j - 1]]
<1>10. /\ \A j \in 0 .. n : s2[j] = s[j]
       /\ s2[n + 1] = e
       /\ \A j \in 0 .. l + 1 : j > n + 1 => s2[j] = s[j - 1]
       /\ s2 = [j \in 0 .. l + 1 |-> s2[j]]
  <2>1. \A j \in 0 .. n : j \in 0 .. l + 1
    BY <1>1, <1>5
  <2>2. n + 1 \in 0 .. l + 1 /\ ~(n + 1 <= n)
    BY <1>1, <1>5
  <2>3. \A j \in 0 .. l + 1 : j > n + 1 => ~(j <= n) /\ j # n + 1
    BY <1>1, <1>5
  <2> QED BY <2>1, <2>2, <2>3
<1> HIDE DEF s2
<1>11. ASSUME NEW j \in 0 .. l + 1
       PROVE  \/ j \in 0 .. n /\ s2[j] = s[j]
              \/ j = n + 1 /\ s2[j] = e
              \/ j > n + 1 /\ j - 1 \in n + 1 .. l /\ s2[j] = s[j - 1]
  <2>1. j \in 0 .. n \/ j = n + 1 \/ (j > n + 1 /\ j - 1 \in n + 1 .. l)
    BY <1>1, <1>5
  <2> QED BY <1>10, <2>1
<1>12. ASSUME NEW j \in 0 .. n PROVE j \in 0 .. l /\ s[j] \in Nat /\ s[j] <= e
  <2>1. j \in 0 .. l /\ n \in 0 .. l /\ j <= n
    BY <1>1, <1>5
  <2>2. s[j] <= s[n] /\ s[j] \in Nat
    BY <1>3, <2>1
  <2> QED BY <1>1, <1>4, <1>5, <2>1, <2>2
<1>13. ASSUME NEW j \in n + 1 .. l PROVE j \in 0 .. l /\ s[j] \in Nat /\ s[j] > e
  <2>1. n < l /\ j \in 0 .. l /\ n + 1 \in 0 .. l /\ n + 1 <= j
    BY <1>1, <1>5
  <2>2. s[n + 1] <= s[j] /\ s[j] \in Nat /\ s[n + 1] \in Nat
    BY <1>3, <2>1
  <2> QED BY <1>1, <1>4, <2>1, <2>2
<1>14. Timed(q2, d2, s2)
  <2>1. s2 \in [0 .. Len(q2) -> 0 .. maxallowedvalue]
    <3>1. ASSUME NEW j \in 0 .. l + 1 PROVE s2[j] \in 0 .. maxallowedvalue
      BY <1>1, <1>3, <1>11, <1>12, <1>13
    <3> QED BY <1>7, <1>10, <3>1
  <2>2. s2[0] = 0
    <3>1. 0 \in 0 .. n
      BY <1>5
    <3> QED BY <1>3, <1>10, <3>1
  <2>3. ASSUME NEW j \in 1 .. Len(q2) PROVE s2[j] = s2[j - 1] + d2[q2[j]]
    <3>0. j \in Nat /\ 1 <= j /\ j <= l + 1
      BY <1>1, <1>7
    <3>1. CASE j <= n
      <4>1. j \in 1 .. l /\ j \in 0 .. n /\ j - 1 \in 0 .. n /\ j # n + 1
        BY <1>1, <1>5, <3>0, <3>1
      <4>2. q2[j] = q[j] /\ q[j] \in Alarms /\ q[j] # a
        BY <1>1, <1>a, <3>1, <4>1
      <4>3. n < l => q[j] # q[n + 1]
        <5>1. n < l => n + 1 \in 1 .. l
          BY <1>1, <1>5
        <5> QED BY <1>1, <4>1, <5>1 DEF Once
      <4>4. d2[q[j]] = d[q[j]]
        BY <1>8, <4>2, <4>3
      <4> QED BY <1>3, <1>10, <4>1, <4>2, <4>4
    <3>2. CASE j = n + 1
      <4>1. j - 1 = n /\ n \in 0 .. n
        BY <1>5, <3>2
      <4>2. q2[j] = a /\ s2[j] = e /\ s2[j - 1] = s[n] /\ d2[a] = e - s[n]
        BY <1>8, <1>10, <1>a, <3>2, <4>1
      <4> QED BY <1>1, <1>5, <4>2
    <3>3. CASE j > n + 1
      <4>1. /\ j - 1 \in 1 .. l /\ j - 1 > n /\ j - 1 + 1 = j /\ j \in 0 .. l + 1 /\ n < l
            /\ n + 1 \in 0 .. l
        BY <1>1, <1>5, <3>0, <3>3
      <4>2. q2[j] = q[j - 1] /\ s2[j] = s[j - 1]
        <5>1. q2[j - 1 + 1] = q[j - 1]
          BY <1>a, <4>1
        <5> QED BY <1>10, <3>3, <4>1, <5>1
      <4>3. CASE j = n + 2
        <5>1. j - 1 = n + 1
          BY <1>5, <4>3
        <5>2. s2[j - 1] = e /\ d2[q2[j]] = s[n + 1] - e /\ s2[j] = s[n + 1]
          BY <1>8, <1>10, <4>1, <4>2, <5>1
        <5>3. s[n + 1] \in Nat
          BY <1>3, <4>1
        <5> QED BY <1>1, <5>2, <5>3
      <4>4. CASE j # n + 2
        <5>1. j - 1 > n + 1 /\ j - 1 \in 0 .. l + 1 /\ n + 1 \in 1 .. l /\ j - 1 # n + 1 /\ j - 1 - 1 = j - 2
          BY <1>1, <1>5, <3>0, <3>3, <4>4
        <5>2. s2[j - 1] = s[j - 2] /\ s[j - 1] = s[j - 2] + d[q[j - 1]]
          BY <1>3, <1>10, <4>1, <5>1
        <5>3. q[j - 1] \in Alarms /\ q[j - 1] # a /\ q[j - 1] # q[n + 1]
          BY <1>1, <4>1, <5>1 DEF Once
        <5>4. d2[q[j - 1]] = d[q[j - 1]]
          BY <1>8, <5>3
        <5> QED BY <4>2, <5>2, <5>4
      <4> QED BY <4>3, <4>4
    <3>4. j <= n \/ j = n + 1 \/ j > n + 1
      BY <1>5, <3>0
    <3> QED BY <3>1, <3>2, <3>3, <3>4
  <2>4. ASSUME NEW i \in 0 .. Len(q2), NEW j \in 0 .. Len(q2), i <= j PROVE s2[i] <= s2[j]
    <3>0. i \in 0 .. l + 1 /\ j \in 0 .. l + 1 /\ i \in Nat /\ j \in Nat
      BY <1>1, <1>7
    <3>1. CASE i \in 0 .. n /\ s2[i] = s[i]
      <4>1. CASE j \in 0 .. n /\ s2[j] = s[j]
        BY <1>3, <1>12, <2>4, <3>1, <4>1
      <4>2. CASE j = n + 1 /\ s2[j] = e
        BY <1>12, <3>1, <4>2
      <4>3. CASE j > n + 1 /\ j - 1 \in n + 1 .. l /\ s2[j] = s[j - 1]
        <5>1. s[i] \in Nat /\ s[i] <= e /\ s[j - 1] \in Nat /\ s[j - 1] > e
          BY <1>12, <1>13, <3>1, <4>3
        <5> QED BY <1>1, <3>1, <4>3, <5>1
      <4> QED BY <1>11, <3>0, <4>1, <4>2, <4>3
    <3>2. CASE i = n + 1 /\ s2[i] = e
      <4>1. CASE j = n + 1 /\ s2[j] = e
        BY <1>1, <3>2, <4>1
      <4>2. CASE j > n + 1 /\ j - 1 \in n + 1 .. l /\ s2[j] = s[j - 1]
        <5>1. s[j - 1] \in Nat /\ s[j - 1] > e
          BY <1>13, <4>2
        <5> QED BY <1>1, <3>2, <4>2, <5>1
      <4>3. j \notin 0 .. n
        BY <1>5, <2>4, <3>2
      <4> QED BY <1>11, <3>0, <4>1, <4>2, <4>3
    <3>3. CASE i > n + 1 /\ i - 1 \in n + 1 .. l /\ s2[i] = s[i - 1]
      <4>1. j > n + 1 /\ j # n + 1 /\ j \notin 0 .. n /\ i - 1 <= j - 1
        BY <1>5, <2>4, <3>0, <3>3
      <4>2. j - 1 \in n + 1 .. l /\ s2[j] = s[j - 1]
        BY <1>11, <3>0, <4>1
      <4>3. i - 1 \in 0 .. l /\ j - 1 \in 0 .. l
        BY <1>13, <3>3, <4>2
      <4> QED BY <1>3, <3>3, <4>1, <4>2, <4>3
    <3> QED BY <1>11, <3>0, <3>1, <3>2, <3>3
  <2> QED BY <2>1, <2>2, <2>3, <2>4 DEF Timed
<1>15. Once(q2)
  <2>1. ~Has(q, a)
    BY <1>1 DEF Has
  <2> QED BY <1>1, <1>7, <2>1, OnceAfter
<1>16. ASSUME NEW x PROVE x \in Elems(q2) <=> x \in Elems(q) \/ x = a
  BY <1>1, <1>7, ElemsAre, HasAfter
<1>17. WalkOf(q2, d2, a) = e + 1
  <2>1. n + 1 \in 1 .. Len(q2) /\ q2[n + 1] = a
    BY <1>a
  <2>2. WalkOf(q2, d2, q2[n + 1]) = s2[n + 1] + 1
    BY <1>7, <1>9, <1>14, <1>15, <2>1, WalkIs
  <2> QED BY <1>10, <2>1, <2>2
<1>18. ASSUME NEW x \in Elems(q) PROVE WalkOf(q2, d2, x) = WalkOf(q, d, x)
  <2>1. PICK i \in 1 .. l : q[i] = x
    BY <1>1, ElemsAre DEF Has
  <2>2. WalkOf(q, d, x) = s[i] + 1
    BY <1>1, <1>2, <2>1, WalkIs
  <2>3. CASE i <= n
    <3>1. i \in 0 .. n
      BY <1>1, <2>3
    <3>2. i \in 1 .. Len(q2) /\ q2[i] = x
      BY <1>a, <2>1, <2>3
    <3>3. WalkOf(q2, d2, q2[i]) = s2[i] + 1
      BY <1>7, <1>9, <1>14, <1>15, <3>2, WalkIs
    <3> QED BY <1>10, <2>2, <3>1, <3>2, <3>3
  <2>4. CASE i > n
    <3>1. i + 1 \in 0 .. l + 1 /\ i + 1 > n + 1 /\ i + 1 - 1 = i
      BY <1>1, <1>5, <2>4
    <3>2. i + 1 \in 1 .. Len(q2) /\ q2[i + 1] = x
      BY <1>a, <2>1, <2>4
    <3>3. WalkOf(q2, d2, q2[i + 1]) = s2[i + 1] + 1
      BY <1>7, <1>9, <1>14, <1>15, <3>2, WalkIs
    <3> QED BY <1>10, <2>2, <3>1, <3>2, <3>3
  <2>5. i <= n \/ i > n
    BY <1>5
  <2> QED BY <2>3, <2>4, <2>5
<1>19. QueueOK(q2, d2)
  BY <1>7, <1>9, <1>14, <1>15 DEF QueueOK
<1>20. Joined(q2, d2, q, d, a, e)
  BY <1>7, <1>16, <1>17, <1>18, <1>19 DEF Joined
<1> QED BY <1>20 DEF q2, d2

\* The facts of a queue that is in order.
LEMMA TimedIs ==
  ASSUME NEW q, NEW d, QueueOK(q, d), NEW s, Timed(q, d, s)
  PROVE  /\ q \in Seq(Alarms) /\ d \in Deltas /\ Once(q) /\ Len(q) \in Nat
         /\ \A i \in 1 .. Len(q) : q[i] \in Alarms /\ d[q[i]] \in Nat
         /\ s[0] = 0
         /\ \A j \in 1 .. Len(q) : s[j] = s[j - 1] + d[q[j]]
         /\ \A i, j \in 0 .. Len(q) : i <= j => s[i] <= s[j]
         /\ \A i \in 0 .. Len(q) : s[i] \in Nat /\ s[i] <= maxallowedvalue
<1>1. q \in Seq(Alarms) /\ d \in Deltas /\ Once(q)
  BY DEF QueueOK
<1>2. /\ s \in [0 .. Len(q) -> 0 .. maxallowedvalue] /\ s[0] = 0
      /\ \A j \in 1 .. Len(q) : s[j] = s[j - 1] + d[q[j]]
      /\ \A i, j \in 0 .. Len(q) : i <= j => s[i] <= s[j]
  BY DEF Timed
<1>3. \A i \in 0 .. Len(q) : s[i] \in 0 .. maxallowedvalue
  BY <1>2
<1>4. ASSUME NEW i \in 1 .. Len(q) PROVE q[i] \in Alarms /\ d[q[i]] \in Nat
  BY <1>1, CounterAssumption DEF Deltas
<1> QED BY <1>1, <1>2, <1>3, <1>4, CounterAssumption

\* The walk ends within the range of GetAlarm.
LEMMA WalkRange ==
  ASSUME NEW q, NEW d, QueueOK(q, d), NEW x \in Elems(q)
  PROVE  WalkOf(q, d, x) \in 1 .. maxallowedvalue + 1
<1>1. PICK s : Timed(q, d, s)
  BY DEF QueueOK
<1>2. PICK i \in 1 .. Len(q) : q[i] = x
  BY ElemsAre DEF QueueOK, Has
<1>3. WalkOf(q, d, x) = s[i] + 1
  BY <1>1, <1>2, WalkIs DEF QueueOK
<1>4. i \in 0 .. Len(q) /\ s[i] \in Nat /\ s[i] <= maxallowedvalue
  BY <1>1, TimedIs
<1> QED BY <1>3, <1>4, CounterAssumption

\* q2 is q without a.
Parted(q2, d2, q, d, a) ==
  /\ QueueOK(q2, d2) /\ Len(q2) + 1 = Len(q)
  /\ \A x : x \in Elems(q2) <=> x \in Elems(q) /\ x # a
  /\ \A x \in Elems(q2) : WalkOf(q2, d2, x) = WalkOf(q, d, x)

\* The cancellation does that.
LEMMA RemoveKeeps ==
  ASSUME NEW q, NEW d, QueueOK(q, d), NEW i \in 1 .. Len(q), NEW d2,
         d2 = IF i = Len(q) THEN d ELSE [d EXCEPT ![q[i + 1]] = @ + d[q[i]]]
  PROVE  Parted(Remove(q, i), d2, q, d, q[i])
<1> DEFINE l == Len(q)
           q2 == Remove(q, i)
<1>1. PICK s : Timed(q, d, s)
  BY DEF QueueOK
<1>2. /\ q \in Seq(Alarms) /\ d \in Deltas /\ Once(q) /\ l \in Nat
      /\ \A j \in 1 .. l : q[j] \in Alarms /\ d[q[j]] \in Nat
      /\ s[0] = 0
      /\ \A j \in 1 .. l : s[j] = s[j - 1] + d[q[j]]
      /\ \A j, k \in 0 .. l : j <= k => s[j] <= s[k]
      /\ \A j \in 0 .. l : s[j] \in Nat /\ s[j] <= maxallowedvalue
  BY <1>1, TimedIs
<1>3. i \in Nat /\ 1 <= i /\ i <= l
  BY <1>2
<1>4. q2 \in Seq(Alarms) /\ IsWithout(q2, q, i) /\ Len(q2) = l - 1
  <2>1. q2 \in Seq(Alarms) /\ IsWithout(q2, q, i)
    BY <1>2, OutIs DEF Remove
  <2> QED BY <2>1 DEF IsWithout
<1> HIDE DEF q2
<1>5. ASSUME i < l
      PROVE  /\ i + 1 \in 1 .. l /\ q[i + 1] \in Alarms
             /\ d2[q[i + 1]] = s[i + 1] - s[i - 1]
             /\ s[i + 1] \in Nat /\ s[i + 1] <= maxallowedvalue
             /\ s[i - 1] \in Nat /\ s[i - 1] <= s[i + 1]
  <2>1. i + 1 \in 1 .. l /\ i + 1 - 1 = i /\ i # l /\ i \in 0 .. l /\ i + 1 \in 0 .. l
        /\ i - 1 \in 0 .. l /\ i - 1 <= i + 1
    BY <1>2, <1>3, <1>5
  <2>2. s[i + 1] = s[i] + d[q[i + 1]] /\ s[i] = s[i - 1] + d[q[i]]
    BY <1>2, <2>1
  <2>3. d2[q[i + 1]] = d[q[i + 1]] + d[q[i]]
    BY <1>2, <2>1 DEF Deltas
  <2>4. d[q[i]] \in Nat /\ d[q[i + 1]] \in Nat /\ s[i - 1] \in Nat /\ s[i + 1] \in Nat /\ s[i] \in Nat
    BY <1>2, <2>1
  <2>5. s[i - 1] <= s[i + 1] /\ s[i + 1] <= maxallowedvalue /\ q[i + 1] \in Alarms
    BY <1>2, <2>1
  <2>6. d2[q[i + 1]] = s[i + 1] - s[i - 1]
    <3> DEFINE a == d[q[i]]
               b == d[q[i + 1]]
    <3>1. a \in Nat /\ b \in Nat /\ s[i - 1] \in Nat /\ s[i] = s[i - 1] + a /\ s[i + 1] = s[i] + b
          /\ d2[q[i + 1]] = b + a
      BY <2>2, <2>3, <2>4
    <3> HIDE DEF a, b
    <3> QED BY <3>1
  <2> QED BY <2>1, <2>4, <2>5, <2>6
<1>6. ASSUME NEW x \in Alarms, ~(i < l /\ x = q[i + 1]) PROVE d2[x] = d[x]
  BY <1>2, <1>3, <1>6 DEF Deltas
<1>7. d2 \in Deltas
  <2>1. ASSUME NEW x \in Alarms PROVE d2[x] \in 0 .. maxallowedvalue
    <3>1. CASE i < l /\ x = q[i + 1]
      BY <1>5, <3>1, CounterAssumption
    <3>2. CASE ~(i < l /\ x = q[i + 1])
      BY <1>2, <1>6, <3>2 DEF Deltas
    <3> QED BY <3>1, <3>2
  <2>2. d2 = [x \in Alarms |-> d2[x]]
    BY <1>2 DEF Deltas
  <2> QED BY <2>1, <2>2 DEF Deltas
<1> DEFINE s2 == [j \in 0 .. l - 1 |-> IF j < i THEN s[j] ELSE s[j + 1]]
<1>8. /\ \A j \in 0 .. l - 1 : j < i => s2[j] = s[j]
      /\ \A j \in 0 .. l - 1 : j >= i => s2[j] = s[j + 1]
      /\ s2 = [j \in 0 .. l - 1 |-> s2[j]]
  BY <1>3
<1> HIDE DEF s2
<1>9. ASSUME NEW j \in 0 .. l - 1
      PROVE  \/ j < i /\ j \in 0 .. l /\ s2[j] = s[j]
             \/ j >= i /\ j + 1 \in 0 .. l /\ s2[j] = s[j + 1]
  <2>1. j \in 0 .. l /\ j + 1 \in 0 .. l /\ (j < i \/ j >= i)
    BY <1>2, <1>3
  <2> QED BY <1>8, <2>1
<1>10. Timed(q2, d2, s2)
  <2>1. s2 \in [0 .. Len(q2) -> 0 .. maxallowedvalue]
    <3>1. ASSUME NEW j \in 0 .. l - 1 PROVE s2[j] \in 0 .. maxallowedvalue
      <4>1. PICK k \in 0 .. l : s2[j] = s[k]
        <5>1. CASE j < i /\ j \in 0 .. l /\ s2[j] = s[j]
          BY <5>1
        <5>2. CASE j >= i /\ j + 1 \in 0 .. l /\ s2[j] = s[j + 1]
          BY <5>2
        <5> QED BY <1>9, <5>1, <5>2
      <4>2. s[k] \in Nat /\ s[k] <= maxallowedvalue
        BY <1>2
      <4> QED BY <4>1, <4>2, CounterAssumption
    <3> QED BY <1>4, <1>8, <3>1
  <2>2. s2[0] = 0
    <3>1. 0 \in 0 .. l - 1 /\ 0 < i
      BY <1>2, <1>3
    <3> QED BY <1>2, <1>8, <3>1
  <2>3. ASSUME NEW j \in 1 .. Len(q2) PROVE s2[j] = s2[j - 1] + d2[q2[j]]
    <3>1. j \in 0 .. l - 1 /\ j - 1 \in 0 .. l - 1 /\ j \in 1 .. l /\ j + 1 \in 1 .. l /\ j \in Nat
          /\ j + 1 - 1 = j /\ j - 1 + 1 = j
      BY <1>2, <1>4
    <3>2. CASE j < i
      <4>1. q2[j] = q[j]
        BY <1>2, <1>4, <3>2, WithoutEach
      <4>2. ~(i < l /\ q[j] = q[i + 1])
        <5>1. i < l => i + 1 \in 1 .. l /\ j # i + 1
          BY <1>2, <1>3, <3>1, <3>2
        <5> QED BY <1>2, <3>1, <5>1 DEF Once
      <4>3. d2[q[j]] = d[q[j]]
        BY <1>2, <1>6, <3>1, <4>2
      <4>4. j - 1 < i
        BY <1>3, <3>1, <3>2
      <4> QED BY <1>2, <1>8, <3>1, <3>2, <4>1, <4>3, <4>4
    <3>3. CASE j = i
      <4>1. i < l /\ q2[j] = q[i + 1] /\ i - 1 < i /\ i >= i
        <5>1. q2[j] = q[j + 1]
          BY <1>2, <1>3, <1>4, <3>1, <3>3, WithoutEach
        <5> QED BY <1>2, <1>3, <3>1, <3>3, <5>1
      <4>2. s2[j] = s[i + 1] /\ s2[j - 1] = s[i - 1]
        BY <1>8, <3>1, <3>3, <4>1
      <4> QED BY <1>5, <4>1, <4>2
    <3>4. CASE j > i
      <4>1. q2[j] = q[j + 1] /\ j >= i /\ j - 1 >= i
        <5>1. j >= i /\ ~(j < i) /\ j - 1 >= i
          BY <1>3, <3>1, <3>4
        <5> QED BY <1>2, <1>4, <5>1, WithoutEach
      <4>2. ~(i < l /\ q[j + 1] = q[i + 1])
        <5>1. i < l => i + 1 \in 1 .. l /\ j + 1 # i + 1
          BY <1>2, <1>3, <3>1, <3>4
        <5> QED BY <1>2, <3>1, <5>1 DEF Once
      <4>3. d2[q[j + 1]] = d[q[j + 1]]
        BY <1>2, <1>6, <3>1, <4>2
      <4>4. s2[j] = s[j + 1] /\ s2[j - 1] = s[j - 1 + 1]
        BY <1>8, <3>1, <4>1
      <4>5. s[j + 1] = s[j + 1 - 1] + d[q[j + 1]]
        BY <1>2, <3>1
      <4> QED BY <3>1, <4>1, <4>3, <4>4, <4>5
    <3> QED BY <1>3, <3>1, <3>2, <3>3, <3>4
  <2>4. ASSUME NEW j \in 0 .. Len(q2), NEW k \in 0 .. Len(q2), j <= k PROVE s2[j] <= s2[k]
    <3>1. j \in 0 .. l - 1 /\ k \in 0 .. l - 1 /\ j \in Nat /\ k \in Nat
      BY <1>2, <1>4
    <3>2. CASE j < i /\ j \in 0 .. l /\ s2[j] = s[j]
      <4>1. CASE k < i /\ k \in 0 .. l /\ s2[k] = s[k]
        BY <1>2, <2>4, <3>2, <4>1
      <4>2. CASE k >= i /\ k + 1 \in 0 .. l /\ s2[k] = s[k + 1]
        <5>1. j <= k + 1
          BY <2>4, <3>1
        <5> QED BY <1>2, <3>2, <4>2, <5>1
      <4> QED BY <1>9, <3>1, <4>1, <4>2
    <3>3. CASE j >= i /\ j + 1 \in 0 .. l /\ s2[j] = s[j + 1]
      <4>1. ~(k < i) /\ j + 1 <= k + 1
        BY <1>3, <2>4, <3>1, <3>3
      <4>2. k + 1 \in 0 .. l /\ s2[k] = s[k + 1]
        BY <1>9, <3>1, <4>1
      <4> QED BY <1>2, <3>3, <4>1, <4>2
    <3> QED BY <1>9, <3>1, <3>2, <3>3
  <2> QED BY <2>1, <2>2, <2>3, <2>4 DEF Timed
<1>11. Once(q2) /\ \A x : Has(q2, x) <=> Has(q, x) /\ x # q[i]
  BY <1>2, <1>4, OnceWithout
<1>12. \A x : x \in Elems(q2) <=> x \in Elems(q) /\ x # q[i]
  BY <1>2, <1>4, <1>11, ElemsAre
<1>13. ASSUME NEW x \in Elems(q2) PROVE WalkOf(q2, d2, x) = WalkOf(q, d, x)
  <2>1. PICK j \in 1 .. Len(q2) : q2[j] = x
    BY <1>4, ElemsAre DEF Has
  <2>2. WalkOf(q2, d2, x) = s2[j] + 1
    BY <1>4, <1>7, <1>10, <1>11, <2>1, WalkIs
  <2>3. j \in 0 .. l - 1
    BY <1>4
  <2>4. CASE j < i /\ j \in 1 .. l /\ q2[j] = q[j]
    <3>1. WalkOf(q, d, q[j]) = s[j] + 1
      BY <1>1, <1>2, <2>4, WalkIs
    <3> QED BY <1>8, <2>1, <2>2, <2>3, <2>4, <3>1
  <2>5. CASE j >= i /\ j + 1 \in 1 .. l /\ q2[j] = q[j + 1]
    <3>1. WalkOf(q, d, q[j + 1]) = s[j + 1] + 1
      BY <1>1, <1>2, <2>5, WalkIs
    <3> QED BY <1>8, <2>1, <2>2, <2>3, <2>5, <3>1
  <2> QED BY <1>2, <1>4, <2>4, <2>5, WithoutEach
<1>14. QueueOK(q2, d2)
  BY <1>4, <1>7, <1>10, <1>11 DEF QueueOK
<1>15. Len(q2) + 1 = Len(q)
  BY <1>2, <1>4
<1>16. Parted(q2, d2, q, d, q[i])
  BY <1>12, <1>13, <1>14, <1>15 DEF Parted
<1> QED BY <1>16 DEF q2

\* f is the part of q that expires with the next tick, q2 the rest after it.
Split(f, q2, d2, q, d) ==
  /\ QueueOK(q2, d2) /\ f \in Seq(Alarms) /\ Once(f) /\ Len(f) + Len(q2) = Len(q)
  /\ \A x : x \in Elems(q) <=> x \in Elems(f) \/ x \in Elems(q2)
  /\ \A x : ~(x \in Elems(f) /\ x \in Elems(q2))
  /\ \A x \in Elems(f) : WalkOf(q, d, x) = 1
  /\ \A x \in Elems(q2) : WalkOf(q, d, x) = WalkOf(q2, d2, x) + 1

\* A queue whose first k entries expire is split so.
LEMMA SplitKeeps ==
  ASSUME NEW q, NEW d, QueueOK(q, d), NEW s, Timed(q, d, s), NEW k \in 0 .. Len(q),
         s[k] = 0, \A i \in 1 .. k : s[i] = 0, k < Len(q) => s[k + 1] > 0,
         NEW f \in Seq(Alarms), IsFront(f, q, k), NEW q2 \in Seq(Alarms), IsBack(q2, q, k),
         NEW d2, d2 = [x \in Alarms |-> d2[x]], k < Len(q) => d2[q[k + 1]] = d[q[k + 1]] - 1,
         \A x \in Alarms : ~(k < Len(q) /\ x = q[k + 1]) => d2[x] = d[x]
  PROVE  Split(f, q2, d2, q, d)
<1> DEFINE l == Len(q)
<1>2. /\ q \in Seq(Alarms) /\ d \in Deltas /\ Once(q) /\ l \in Nat
      /\ \A j \in 1 .. l : q[j] \in Alarms /\ d[q[j]] \in Nat
      /\ s[0] = 0
      /\ \A j \in 1 .. l : s[j] = s[j - 1] + d[q[j]]
      /\ \A i, j \in 0 .. l : i <= j => s[i] <= s[j]
      /\ \A j \in 0 .. l : s[j] \in Nat /\ s[j] <= maxallowedvalue
  BY TimedIs
<1>3. /\ k \in 0 .. l /\ k \in Nat /\ k <= l /\ s[k] = 0
      /\ \A i \in 1 .. k : s[i] = 0
      /\ k < l => s[k + 1] > 0
  BY <1>2
<1>4. Len(f) = k /\ Len(q2) = l - k
  BY DEF IsFront, IsBack
<1>5. ASSUME NEW j \in 1 .. l - k
      PROVE  /\ q2[j] = q[k + j] /\ k + j \in 1 .. l /\ k + j \in 0 .. l /\ s[k + j] \in Nat
             /\ s[k + j] > 0 /\ s[k + j] <= maxallowedvalue
  <2>1. k + j \in 1 .. l /\ k + j \in 0 .. l /\ k < l /\ k + 1 \in 0 .. l /\ k + 1 <= k + j
    BY <1>2, <1>3
  <2>2. q2[j] = q[k + j]
    BY <1>4 DEF IsBack
  <2>3. s[k + 1] > 0 /\ s[k + 1] <= s[k + j] /\ s[k + j] \in Nat /\ s[k + 1] \in Nat /\ s[k + j] <= maxallowedvalue
    BY <1>2, <1>3, <2>1
  <2>4. s[k + j] > 0
    BY <1>2, <1>3, <2>1, <2>3
  <2> QED BY <2>1, <2>2, <2>3, <2>4
<1>6. ASSUME k < l
      PROVE  /\ k + 1 \in 1 .. l /\ q[k + 1] \in Alarms /\ q2[1] = q[k + 1]
             /\ d2[q[k + 1]] = s[k + 1] - 1 /\ s[k + 1] \in Nat /\ s[k + 1] > 0
             /\ s[k + 1] <= maxallowedvalue
  <2>1. 1 \in 1 .. l - k /\ k + 1 - 1 = k
    BY <1>2, <1>3, <1>6
  <2>2. /\ q2[1] = q[k + 1] /\ k + 1 \in 1 .. l /\ s[k + 1] \in Nat /\ s[k + 1] > 0
        /\ s[k + 1] <= maxallowedvalue
    BY <1>5, <2>1
  <2>3. s[k + 1] = s[k + 1 - 1] + d[q[k + 1]]
    BY <1>2, <2>2
  <2>4. q[k + 1] \in Alarms /\ d[q[k + 1]] \in Nat
    BY <1>2, <2>2
  <2>5. s[k + 1] = d[q[k + 1]]
    BY <1>3, <2>1, <2>3, <2>4
  <2>6. d2[q[k + 1]] = d[q[k + 1]] - 1
    BY <1>6
  <2>7. d2[q[k + 1]] = s[k + 1] - 1
    BY <2>5, <2>6
  <2> QED BY <2>2, <2>4, <2>7
<1>7. ASSUME NEW x \in Alarms, ~(k < l /\ x = q[k + 1]) PROVE d2[x] = d[x]
  BY <1>7
<1>8. d2 \in Deltas
  <2>1. ASSUME NEW x \in Alarms PROVE d2[x] \in 0 .. maxallowedvalue
    <3>1. CASE k < l /\ x = q[k + 1]
      BY <1>6, <3>1, CounterAssumption
    <3>2. CASE ~(k < l /\ x = q[k + 1])
      BY <1>2, <1>7, <3>2 DEF Deltas
    <3> QED BY <3>1, <3>2
  <2> QED BY <2>1 DEF Deltas
<1> DEFINE s2 == [j \in 0 .. l - k |-> IF j = 0 THEN 0 ELSE s[k + j] - 1]
<1>9. /\ s2[0] = 0
      /\ \A j \in 1 .. l - k : j \in 0 .. l - k /\ s2[j] = s[k + j] - 1
      /\ s2 = [j \in 0 .. l - k |-> s2[j]]
  <2>1. 0 \in 0 .. l - k
    BY <1>2, <1>3
  <2>2. \A j \in 1 .. l - k : j \in 0 .. l - k /\ j # 0
    BY <1>2, <1>3
  <2> QED BY <2>1, <2>2
<1> HIDE DEF s2
<1>10. Timed(q2, d2, s2)
  <2>1. s2 \in [0 .. Len(q2) -> 0 .. maxallowedvalue]
    <3>1. ASSUME NEW j \in 0 .. l - k PROVE s2[j] \in 0 .. maxallowedvalue
      <4>1. CASE j = 0
        BY <1>9, <4>1, CounterAssumption
      <4>2. CASE j # 0
        <5>1. j \in 1 .. l - k
          BY <1>2, <1>3, <4>2
        <5>2. s2[j] = s[k + j] - 1
          BY <1>9, <5>1
        <5>3. s[k + j] \in Nat /\ s[k + j] > 0 /\ s[k + j] <= maxallowedvalue
          BY <1>5, <5>1
        <5>4. s2[j] \in Nat /\ s2[j] <= maxallowedvalue
          <6>1. maxallowedvalue \in Nat
            BY CounterAssumption
          <6> QED BY <5>2, <5>3, <6>1
        <5> QED BY <5>4
      <4> QED BY <4>1, <4>2
    <3> QED BY <1>4, <1>9, <3>1
  <2>2. ASSUME NEW j \in 1 .. Len(q2) PROVE s2[j] = s2[j - 1] + d2[q2[j]]
    <3>1. j \in 1 .. l - k /\ j \in Nat /\ k < l
      BY <1>2, <1>3, <1>4
    <3>2. CASE j = 1
      <4>1. s2[j] = s[k + 1] - 1 /\ s2[j - 1] = 0 /\ q2[j] = q[k + 1]
        <5>1. j - 1 = 0 /\ k + j = k + 1
          BY <3>2
        <5>2. s2[j] = s[k + j] - 1
          BY <1>9, <3>1
        <5>3. s2[j - 1] = 0
          BY <1>9, <5>1
        <5> QED BY <1>6, <3>1, <3>2, <5>1, <5>2, <5>3
      <4> QED BY <1>6, <3>1, <4>1
    <3>3. CASE j # 1
      <4>1. j - 1 \in 1 .. l - k /\ k + j - 1 = k + (j - 1) /\ k + j # k + 1
        BY <1>2, <1>3, <3>1, <3>3
      <4>2. s2[j] = s[k + j] - 1 /\ s2[j - 1] = s[k + (j - 1)] - 1
        BY <1>9, <3>1, <4>1
      <4>3. q2[j] = q[k + j] /\ k + j \in 1 .. l /\ q[k + j] \in Alarms
        BY <1>2, <1>5, <3>1
      <4>4. s[k + j] = s[k + (j - 1)] + d[q[k + j]]
        <5>1. s[k + j] = s[k + j - 1] + d[q[k + j]]
          BY <1>2, <4>3
        <5> QED BY <4>1, <5>1
      <4>5. q[k + j] # q[k + 1]
        BY <1>2, <1>6, <3>1, <4>1, <4>3 DEF Once
      <4>6. d2[q[k + j]] = d[q[k + j]]
        BY <1>7, <4>3, <4>5
      <4>7. s[k + (j - 1)] \in Nat /\ d[q[k + j]] \in Nat
        BY <1>2, <1>5, <4>1, <4>3
      <4>8. d2[q2[j]] = d[q[k + j]]
        BY <4>3, <4>6
      <4> QED BY <4>2, <4>4, <4>7, <4>8
    <3> QED BY <3>2, <3>3
  <2>3. ASSUME NEW i \in 0 .. Len(q2), NEW j \in 0 .. Len(q2), i <= j PROVE s2[i] <= s2[j]
    <3>1. i \in 0 .. l - k /\ j \in 0 .. l - k /\ i \in Nat /\ j \in Nat
      BY <1>2, <1>3, <1>4
    <3>2. CASE i = 0
      <4>1. CASE j = 0
        BY <1>9, <3>2, <4>1
      <4>2. CASE j # 0
        <5>1. j \in 1 .. l - k
          BY <1>2, <1>3, <3>1, <4>2
        <5>2. s2[j] = s[k + j] - 1 /\ s[k + j] \in Nat /\ s[k + j] > 0
          BY <1>5, <1>9, <5>1
        <5> QED BY <1>9, <3>2, <5>2
      <4> QED BY <4>1, <4>2
    <3>3. CASE i # 0
      <4>1. i \in 1 .. l - k /\ j \in 1 .. l - k /\ k + i <= k + j
        BY <1>2, <1>3, <2>3, <3>1, <3>3
      <4>2. k + i \in 0 .. l /\ k + j \in 0 .. l /\ s[k + i] \in Nat /\ s[k + j] \in Nat
        BY <1>5, <4>1
      <4>3. s[k + i] <= s[k + j]
        BY <1>2, <4>1, <4>2
      <4>4. s2[i] = s[k + i] - 1 /\ s2[j] = s[k + j] - 1
        BY <1>9, <4>1
      <4> QED BY <4>2, <4>3, <4>4
    <3> QED BY <3>2, <3>3
  <2> QED BY <1>9, <2>1, <2>2, <2>3 DEF Timed
<1>11. /\ Once(f) /\ Once(q2)
       /\ \A x : Has(q, x) <=> Has(f, x) \/ Has(q2, x)
       /\ \A x : ~(Has(f, x) /\ Has(q2, x))
  BY <1>2, <1>3, OnceCut
<1>12. /\ \A x : x \in Elems(q) <=> x \in Elems(f) \/ x \in Elems(q2)
       /\ \A x : ~(x \in Elems(f) /\ x \in Elems(q2))
  BY <1>2, <1>4, <1>11, ElemsAre
<1>13. ASSUME NEW x \in Elems(f) PROVE WalkOf(q, d, x) = 1
  <2>1. PICK i \in 1 .. Len(f) : f[i] = x
    BY <1>4, ElemsAre DEF Has
  <2>2. i \in 1 .. k /\ i \in 1 .. l /\ q[i] = x
    BY <1>2, <1>3, <1>4, <2>1 DEF IsFront
  <2>3. WalkOf(q, d, q[i]) = s[i] + 1
    BY <1>2, <2>2, WalkIs
  <2> QED BY <1>3, <2>2, <2>3
<1>14. ASSUME NEW x \in Elems(q2) PROVE WalkOf(q, d, x) = WalkOf(q2, d2, x) + 1
  <2>1. PICK i \in 1 .. Len(q2) : q2[i] = x
    BY <1>4, ElemsAre DEF Has
  <2>2. i \in 1 .. l - k
    BY <1>4
  <2>3. k + i \in 1 .. l /\ q[k + i] = x /\ s[k + i] \in Nat /\ s2[i] = s[k + i] - 1
    BY <1>5, <1>9, <2>1, <2>2
  <2>4. WalkOf(q, d, q[k + i]) = s[k + i] + 1
    BY <1>2, <2>3, WalkIs
  <2>5. WalkOf(q2, d2, q2[i]) = s2[i] + 1
    BY <1>8, <1>10, <1>11, WalkIs
  <2> QED BY <2>1, <2>3, <2>4, <2>5
<1>15. QueueOK(q2, d2)
  BY <1>4, <1>8, <1>10, <1>11 DEF QueueOK
<1>16. Len(f) + Len(q2) = Len(q)
  BY <1>2, <1>3, <1>4
<1> QED BY <1>11, <1>12, <1>13, <1>14, <1>15, <1>16 DEF Split

\* The alarms that expire on the next tick.
LEMMA ExpiredOnes ==
  ASSUME NEW q, NEW d, QueueOK(q, d), NEW s, Timed(q, d, s)
  PROVE  \E k \in 0 .. Len(q) :
           /\ Cardinality({i \in DOMAIN q : Offsets(q, d)[i] = 0}) = k
           /\ s[k] = 0
           /\ \A i \in 1 .. k : s[i] = 0
           /\ k < Len(q) => s[k + 1] > 0
<1> DEFINE l == Len(q)
<1>2. /\ q \in Seq(Alarms) /\ d \in Deltas /\ Once(q) /\ l \in Nat
      /\ \A j \in 0 .. l : s[j] \in Nat
  BY TimedIs
<1>3. PICK n \in 0 .. l :
        /\ Cardinality({i \in DOMAIN q : Offsets(q, d)[i] =< 0}) = n
        /\ s[n] <= 0
        /\ \A i \in 1 .. n : s[i] <= 0
        /\ n < l => s[n + 1] > 0
  <2>1. 0 \in 0 .. maxallowedvalue
    BY CounterAssumption
  <2> QED BY <1>2, <2>1, FirstOnes
<1>4. Cardinality({i \in DOMAIN q : Offsets(q, d)[i] = 0}) = n
  <2>1. Offsets(q, d) = s /\ DOMAIN q = 1 .. l
    BY <1>2, OffsetsAre
  <2>2. ASSUME NEW i \in DOMAIN q PROVE s[i] =< 0 <=> s[i] = 0
    <3>1. i \in 0 .. l
      BY <1>2, <2>1
    <3> QED BY <1>2, <3>1
  <2>3. {i \in DOMAIN q : Offsets(q, d)[i] =< 0} = {i \in DOMAIN q : Offsets(q, d)[i] = 0}
    BY <2>1, <2>2
  <2> QED BY <1>3, <2>3
<1>5. s[n] = 0 /\ (\A i \in 1 .. n : s[i] = 0)
  <2>1. ASSUME NEW i \in 0 .. l, s[i] <= 0 PROVE s[i] = 0
    <3>1. s[i] \in Nat
      BY <1>2
    <3> QED BY <2>1, <3>1
  <2>2. \A i \in 1 .. n : i \in 0 .. l
    BY <1>2
  <2> QED BY <1>3, <2>1, <2>2
<1> QED BY <1>3, <1>4, <1>5

\* The tick does that.
LEMMA TickKeeps ==
  ASSUME NEW q, NEW d, QueueOK(q, d), NEW k \in 0 .. Len(q),
         k = Cardinality({i \in DOMAIN q : Offsets(q, d)[i] = 0}),
         NEW f \in Seq(Alarms), IsFront(f, q, k), NEW q2 \in Seq(Alarms), IsBack(q2, q, k),
         NEW d2, d2 = IF q2 = <<>> THEN d ELSE [d EXCEPT ![q2[1]] = @ - 1]
  PROVE  Split(f, q2, d2, q, d)
<1> DEFINE l == Len(q)
<1>1. PICK s : Timed(q, d, s)
  BY DEF QueueOK
<1>2. /\ q \in Seq(Alarms) /\ d \in Deltas /\ l \in Nat
      /\ \A j \in 1 .. l : q[j] \in Alarms
  BY <1>1, TimedIs
<1>5. s[k] = 0 /\ (\A i \in 1 .. k : s[i] = 0) /\ (k < l => s[k + 1] > 0)
  BY <1>1, ExpiredOnes
<1>8. /\ d2 = [x \in Alarms |-> d2[x]]
      /\ k < l => d2[q[k + 1]] = d[q[k + 1]] - 1
      /\ \A x \in Alarms : ~(k < l /\ x = q[k + 1]) => d2[x] = d[x]
  <2>1. /\ k \in Nat /\ Len(q2) = l - k /\ Len(q2) \in Nat
        /\ k < l => q2[1] = q[k + 1] /\ q[k + 1] \in Alarms
    <3>1. k < l => 1 \in 1 .. l - k /\ k + 1 \in 1 .. l
      BY <1>2
    <3>2. k \in Nat /\ Len(q2) = l - k /\ Len(q2) \in Nat
      BY <1>2 DEF IsBack
    <3> QED BY <1>2, <3>1, <3>2 DEF IsBack
  <2>2. q2 = <<>> <=> Len(q2) = 0
    BY EmptySeq
  <2>3. CASE k < l
    <3>1. q2 # <<>>
      BY <1>2, <2>1, <2>2, <2>3
    <3>2. d2 = [d EXCEPT ![q[k + 1]] = @ - 1]
      BY <2>1, <2>3, <3>1
    <3>3. d = [x \in Alarms |-> d[x]]
      BY <1>2 DEF Deltas
    <3> QED BY <2>1, <2>3, <3>2, <3>3
  <2>4. CASE ~(k < l)
    <3>1. Len(q2) = 0
      <4>1. l - k = 0
        BY <1>2, <2>4
      <4> QED BY <2>1, <4>1
    <3>2. d2 = d
      BY <2>2, <3>1
    <3>3. d = [x \in Alarms |-> d[x]]
      BY <1>2 DEF Deltas
    <3> QED BY <2>4, <3>2, <3>3
  <2> QED BY <2>3, <2>4
<1>9. QueueOK(q, d) /\ Timed(q, d, s) /\ IsFront(f, q, k) /\ IsBack(q2, q, k)
  BY <1>1
<1> HIDE DEF l
<1>10. /\ \A i \in 1 .. k : s[i] = 0
       /\ s[k] = 0
       /\ k < Len(q) => s[k + 1] > 0
  BY <1>5 DEF l
<1>11. /\ d2 = [x \in Alarms |-> d2[x]]
       /\ k < Len(q) => d2[q[k + 1]] = d[q[k + 1]] - 1
       /\ \A x \in Alarms : ~(k < Len(q) /\ x = q[k + 1]) => d2[x] = d[x]
  BY <1>8 DEF l
<1> QED BY <1>9, <1>10, <1>11, SplitKeeps, ZenonT(60)

-----------------------------------------------------------------------------
(* The steps.                                                              *)

\* The lists are in order and hold the alarms in use, each of them once.
Arranged(q, d, f, u) ==
  /\ QueueOK(q, d)
  /\ f \in Seq(Alarms) /\ Once(f)
  /\ \A x : ~(x \in Elems(q) /\ x \in Elems(f))
  /\ u \in [Alarms -> BOOLEAN]
  /\ \A a \in Alarms : u[a] <=> a \in Elems(q) \/ a \in Elems(f)

\* TicksLeft, of any lists.
Left(q, d, f, c, a) ==
  IF a \in Elems(q) THEN WalkOf(q, d, a) ELSE IF a \in Elems(f) THEN c[a] ELSE 0

\* The inductive invariant.
AlarmsInv ==
  /\ Arranged(queue, delta, to_fire, used)
  /\ value \in 0 .. maxallowedvalue
  /\ cycle \in Deltas
  /\ answer \in {PastEnd} \cup 0 .. maxallowedvalue + 1

\* An empty list holds nothing.
LEMMA NoElems ==
  ASSUME NEW f, f = <<>>
  PROVE  f \in Seq(Alarms) /\ Once(f) /\ \A x : x \notin Elems(f)
<1>1. f \in Seq(Alarms) /\ Len(f) = 0
  BY EmptySeq
<1>2. \A x : ~Has(f, x)
  BY <1>1 DEF Has
<1>3. Once(f)
  BY <1>1 DEF Once
<1> QED BY <1>1, <1>2, <1>3, ElemsAre

\* The head of a list without repetitions and the others.
LEMMA TailIs ==
  ASSUME NEW f \in Seq(Alarms), Once(f), f # <<>>
  PROVE  /\ Head(f) \in Alarms /\ Tail(f) \in Seq(Alarms) /\ Once(Tail(f))
         /\ Head(f) \notin Elems(Tail(f))
         /\ \A x : x \in Elems(f) <=> x = Head(f) \/ x \in Elems(Tail(f))
<1> DEFINE h == Head(f)
           t == Tail(f)
<1>1. /\ Len(f) \in Nat /\ Len(f) >= 1 /\ h = f[1] /\ h \in Alarms
      /\ t \in Seq(Alarms) /\ Len(t) = Len(f) - 1
      /\ \A j \in 1 .. Len(f) - 1 : t[j] = f[1 + j]
  OBVIOUS
<1>2. <<h>> \in Seq(Alarms) /\ Len(<<h>>) = 1 /\ <<h>>[1] = h
  BY <1>1
<1> HIDE DEF h, t
<1>3. IsFront(<<h>>, f, 1) /\ IsBack(t, f, 1) /\ 1 \in 0 .. Len(f)
  BY <1>1, <1>2 DEF IsFront, IsBack
<1>4. /\ Once(t)
      /\ \A x : Has(f, x) <=> Has(<<h>>, x) \/ Has(t, x)
      /\ \A x : ~(Has(<<h>>, x) /\ Has(t, x))
  BY <1>3, OnceCut
<1>5. \A x : Has(<<h>>, x) <=> x = h
  BY <1>2 DEF Has
<1>6. /\ \A x : x \in Elems(f) <=> Has(f, x)
      /\ \A x : x \in Elems(t) <=> Has(t, x)
  BY <1>1, ElemsAre
<1>7. h \notin Elems(t) /\ \A x : x \in Elems(f) <=> x = h \/ x \in Elems(t)
  BY <1>4, <1>5, <1>6
<1> QED BY <1>1, <1>4, <1>7 DEF h, t

\* An alarm not in use is armed.
LEMMA ArmStep ==
  ASSUME Arranged(queue, delta, to_fire, used), NEW a \in Alarms, ~used[a],
         NEW e \in 0 .. maxallowedvalue, NEW c, cycle \in Deltas, Arm(a, e, c), to_fire' = to_fire
  PROVE  /\ Arranged(queue', delta', to_fire', used')
         /\ cycle' = [cycle EXCEPT ![a] = c]
         /\ Left(queue', delta', to_fire', cycle', a) = e + 1
         /\ Left(queue, delta, to_fire, cycle, a) = 0
         /\ \A x \in Alarms : x # a =>
              Left(queue', delta', to_fire', cycle', x) = Left(queue, delta, to_fire, cycle, x)
<1>1. /\ QueueOK(queue, delta) /\ a \notin Elems(queue) /\ a \notin Elems(to_fire)
      /\ \A x : ~(x \in Elems(queue) /\ x \in Elems(to_fire))
      /\ to_fire \in Seq(Alarms) /\ Once(to_fire)
      /\ used \in [Alarms -> BOOLEAN]
      /\ \A x \in Alarms : used[x] <=> x \in Elems(queue) \/ x \in Elems(to_fire)
  BY DEF Arranged
<1>2. /\ queue' = Insert(queue, delta, a, e).queue /\ delta' = Insert(queue, delta, a, e).delta
      /\ cycle' = [cycle EXCEPT ![a] = c]
      /\ used' = [used EXCEPT ![a] = TRUE]
  BY DEF Arm
<1>3. Joined(queue', delta', queue, delta, a, e)
  BY <1>1, <1>2, InsertKeeps
<1>4. /\ QueueOK(queue', delta')
      /\ \A x : x \in Elems(queue') <=> x \in Elems(queue) \/ x = a
      /\ WalkOf(queue', delta', a) = e + 1
      /\ \A x \in Elems(queue) : WalkOf(queue', delta', x) = WalkOf(queue, delta, x)
  BY <1>3 DEF Joined
<1>5. used' \in [Alarms -> BOOLEAN]
  BY <1>1, <1>2
<1>6. \A x \in Alarms : used'[x] <=> x \in Elems(queue') \/ x \in Elems(to_fire')
  <2>1. \A x \in Alarms : used'[x] <=> used[x] \/ x = a
    BY <1>1, <1>2
  <2> QED BY <1>1, <1>4, <2>1
<1>7. Arranged(queue', delta', to_fire', used')
  BY <1>1, <1>4, <1>5, <1>6 DEF Arranged
<1>8. \A x \in Alarms : x # a => cycle'[x] = cycle[x]
  BY <1>2 DEF Deltas
<1>9. Left(queue', delta', to_fire', cycle', a) = e + 1
  BY <1>4 DEF Left
<1>10. Left(queue, delta, to_fire, cycle, a) = 0
  BY <1>1 DEF Left
<1>11. \A x \in Alarms : x # a =>
         Left(queue', delta', to_fire', cycle', x) = Left(queue, delta, to_fire, cycle, x)
  BY <1>1, <1>4, <1>8 DEF Left
<1> QED BY <1>2, <1>7, <1>9, <1>10, <1>11

\* An alarm is cancelled.
LEMMA CancelStep ==
  ASSUME Arranged(queue, delta, to_fire, used), NEW a \in Alarms, CancelAlarm(a)
  PROVE  /\ Arranged(queue', delta', to_fire', used')
         /\ Left(queue', delta', to_fire', cycle', a) = 0
         /\ Left(queue, delta, to_fire, cycle, a) > 0
         /\ \A x \in Alarms : x # a =>
              Left(queue', delta', to_fire', cycle', x) = Left(queue, delta, to_fire, cycle, x)
<1>1. /\ QueueOK(queue, delta) /\ queue \in Seq(Alarms)
      /\ used \in [Alarms -> BOOLEAN]
      /\ \A x \in Alarms : used[x] <=> x \in Elems(queue) \/ x \in Elems(to_fire)
  BY DEF Arranged, QueueOK
<1>2. to_fire = <<>> /\ to_fire' = <<>> /\ used[a] /\ used' = [used EXCEPT ![a] = FALSE] /\ cycle' = cycle
  BY DEF CancelAlarm, UserCode
<1>3. \A x : x \notin Elems(to_fire)
  BY <1>2, NoElems
<1> DEFINE i == CHOOSE j \in DOMAIN queue : queue[j] = a
<1>4. i \in 1 .. Len(queue) /\ queue[i] = a
  <2>1. \E j \in DOMAIN queue : queue[j] = a
    BY <1>1, <1>2, <1>3 DEF Elems
  <2>2. i \in DOMAIN queue /\ queue[i] = a
    BY <2>1
  <2> HIDE DEF i
  <2> QED BY <1>1, <2>2
<1>5. /\ queue' = Remove(queue, i)
      /\ delta' = IF i = Len(queue) THEN delta ELSE [delta EXCEPT ![queue[i + 1]] = @ + delta[a]]
  BY DEF CancelAlarm
<1> HIDE DEF i
<1>6. Parted(queue', delta', queue, delta, a)
  <2>1. delta' = IF i = Len(queue) THEN delta
                 ELSE [delta EXCEPT ![queue[i + 1]] = @ + delta[queue[i]]]
    BY <1>4, <1>5
  <2>2. Parted(Remove(queue, i), delta', queue, delta, queue[i])
    BY <1>1, <1>4, <2>1, RemoveKeeps
  <2> QED BY <1>4, <1>5, <2>2
<1>7. /\ QueueOK(queue', delta')
      /\ \A x : x \in Elems(queue') <=> x \in Elems(queue) /\ x # a
      /\ \A x \in Elems(queue') : WalkOf(queue', delta', x) = WalkOf(queue, delta, x)
  BY <1>6 DEF Parted
<1>8. used' \in [Alarms -> BOOLEAN]
  BY <1>1, <1>2
<1>9. \A x \in Alarms : used'[x] <=> x \in Elems(queue') \/ x \in Elems(to_fire')
  <2>1. \A x \in Alarms : used'[x] <=> used[x] /\ x # a
    BY <1>1, <1>2
  <2> QED BY <1>1, <1>2, <1>3, <1>7, <2>1
<1>10. to_fire' \in Seq(Alarms) /\ Once(to_fire') /\ \A x : x \notin Elems(to_fire')
  BY <1>2, NoElems
<1>11. Arranged(queue', delta', to_fire', used')
  BY <1>7, <1>8, <1>9, <1>10 DEF Arranged
<1>12. Left(queue', delta', to_fire', cycle', a) = 0
  BY <1>7, <1>10 DEF Left
<1>13. Left(queue, delta, to_fire, cycle, a) > 0
  <2>1. a \in Elems(queue)
    BY <1>1, <1>2, <1>3
  <2>2. WalkOf(queue, delta, a) \in 1 .. maxallowedvalue + 1
    BY <1>1, <2>1, WalkRange
  <2> QED BY <2>1, <2>2, CounterAssumption DEF Left
<1>14. \A x \in Alarms : x # a =>
         Left(queue', delta', to_fire', cycle', x) = Left(queue, delta, to_fire, cycle, x)
  BY <1>3, <1>7, <1>10 DEF Left
<1> QED BY <1>11, <1>12, <1>13, <1>14

\* A tick takes one off.
LEMMA TickStep ==
  ASSUME Arranged(queue, delta, to_fire, used), TickBegin
  PROVE  /\ Arranged(queue', delta', to_fire', used')
         /\ \A x \in Alarms :
              \/ /\ Left(queue, delta, to_fire, cycle, x) = 0
                 /\ Left(queue', delta', to_fire', cycle', x) = 0
              \/ /\ Left(queue, delta, to_fire, cycle, x) = 1
                 /\ Left(queue', delta', to_fire', cycle', x) = cycle[x]
              \/ /\ Left(queue, delta, to_fire, cycle, x) \in Nat
                 /\ Left(queue, delta, to_fire, cycle, x) > 1
                 /\ Left(queue', delta', to_fire', cycle', x) = Left(queue, delta, to_fire, cycle, x) - 1
<1>1. /\ QueueOK(queue, delta) /\ queue \in Seq(Alarms) /\ Len(queue) \in Nat
      /\ used \in [Alarms -> BOOLEAN]
      /\ \A x \in Alarms : used[x] <=> x \in Elems(queue) \/ x \in Elems(to_fire)
  BY DEF Arranged, QueueOK
<1>2. to_fire = <<>> /\ used' = used /\ cycle' = cycle
  BY DEF TickBegin, UserCode
<1>3. \A x : x \notin Elems(to_fire)
  BY <1>2, NoElems
<1> DEFINE k == Expired
<1>4. PICK s : Timed(queue, delta, s)
  BY <1>1 DEF QueueOK
<1>5. k \in 0 .. Len(queue) /\ k = Cardinality({i \in DOMAIN queue : Offsets(queue, delta)[i] = 0})
  <2>1. \E n \in 0 .. Len(queue) : Cardinality({i \in DOMAIN queue : Offsets(queue, delta)[i] = 0}) = n
    BY <1>1, <1>4, ExpiredOnes
  <2> QED BY <2>1 DEF Expired
<1>6. /\ to_fire' = SubSeq(queue, 1, k) /\ queue' = SubSeq(queue, k + 1, Len(queue))
      /\ delta' = IF queue' = <<>> THEN delta ELSE [delta EXCEPT ![queue'[1]] = @ - 1]
  BY DEF TickBegin
<1> HIDE DEF k
<1>7. to_fire' \in Seq(Alarms) /\ IsFront(to_fire', queue, k)
  BY <1>1, <1>5, <1>6, FrontIs
<1>8. queue' \in Seq(Alarms) /\ IsBack(queue', queue, k)
  BY <1>1, <1>5, <1>6, BackIs
<1>9. Split(to_fire', queue', delta', queue, delta)
  <2>1. delta' = IF queue' = <<>> THEN delta ELSE [delta EXCEPT ![queue'[1]] = @ - 1]
    BY <1>6
  <2> QED BY <1>1, <1>5, <1>7, <1>8, <2>1, TickKeeps
<1>10. /\ QueueOK(queue', delta') /\ Once(to_fire')
       /\ \A x : x \in Elems(queue) <=> x \in Elems(to_fire') \/ x \in Elems(queue')
       /\ \A x : ~(x \in Elems(to_fire') /\ x \in Elems(queue'))
       /\ \A x \in Elems(to_fire') : WalkOf(queue, delta, x) = 1
       /\ \A x \in Elems(queue') : WalkOf(queue, delta, x) = WalkOf(queue', delta', x) + 1
  BY <1>9 DEF Split
<1>11. Arranged(queue', delta', to_fire', used')
  BY <1>1, <1>2, <1>3, <1>7, <1>10 DEF Arranged
<1>12. ASSUME NEW x \in Alarms, x \notin Elems(queue)
       PROVE  /\ Left(queue, delta, to_fire, cycle, x) = 0
              /\ Left(queue', delta', to_fire', cycle', x) = 0
  BY <1>3, <1>10, <1>12 DEF Left
<1>13. ASSUME NEW x \in Alarms, x \in Elems(to_fire')
       PROVE  /\ Left(queue, delta, to_fire, cycle, x) = 1
              /\ Left(queue', delta', to_fire', cycle', x) = cycle[x]
  BY <1>2, <1>10, <1>13 DEF Left
<1>14. ASSUME NEW x \in Alarms, x \in Elems(queue')
       PROVE  /\ Left(queue, delta, to_fire, cycle, x) \in Nat
              /\ Left(queue, delta, to_fire, cycle, x) > 1
              /\ Left(queue', delta', to_fire', cycle', x) = Left(queue, delta, to_fire, cycle, x) - 1
  <2>1. WalkOf(queue', delta', x) \in 1 .. maxallowedvalue + 1
    BY <1>10, <1>14, WalkRange
  <2>2. WalkOf(queue, delta, x) = WalkOf(queue', delta', x) + 1 /\ x \in Elems(queue)
    BY <1>10, <1>14
  <2>3. /\ Left(queue, delta, to_fire, cycle, x) = WalkOf(queue, delta, x)
        /\ Left(queue', delta', to_fire', cycle', x) = WalkOf(queue', delta', x)
    BY <1>14, <2>2 DEF Left
  <2> QED BY <2>1, <2>2, <2>3, CounterAssumption
<1> QED BY <1>10, <1>11, <1>12, <1>13, <1>14

\* Serving an alarm leaves its ticks, which were its cycle, and all the others.
LEMMA FireStep ==
  ASSUME Arranged(queue, delta, to_fire, used), cycle \in Deltas, Fire
  PROVE  /\ Arranged(queue', delta', to_fire', used')
         /\ \A x \in Alarms :
              Left(queue', delta', to_fire', cycle', x) = Left(queue, delta, to_fire, cycle, x)
<1> DEFINE a == Head(to_fire)
<1>1. /\ QueueOK(queue, delta)
      /\ \A x : ~(x \in Elems(queue) /\ x \in Elems(to_fire))
      /\ to_fire \in Seq(Alarms) /\ Once(to_fire)
      /\ used \in [Alarms -> BOOLEAN]
      /\ \A x \in Alarms : used[x] <=> x \in Elems(queue) \/ x \in Elems(to_fire)
  BY DEF Arranged
<1>2. to_fire # <<>> /\ to_fire' = Tail(to_fire) /\ cycle' = cycle
  BY DEF Fire
<1>3. /\ IF cycle[a] > 0
         THEN /\ queue' = Insert(queue, delta, a, cycle[a] - 1).queue
              /\ delta' = Insert(queue, delta, a, cycle[a] - 1).delta /\ used' = used
         ELSE used' = [used EXCEPT ![a] = FALSE] /\ queue' = queue /\ delta' = delta
  BY DEF Fire
<1>4. /\ a \in Alarms /\ to_fire' \in Seq(Alarms) /\ Once(to_fire')
      /\ a \notin Elems(to_fire')
      /\ \A x : x \in Elems(to_fire) <=> x = a \/ x \in Elems(to_fire')
  BY <1>1, <1>2, TailIs
<1> HIDE DEF a
<1>5. cycle[a] \in Nat /\ cycle[a] <= maxallowedvalue /\ a \notin Elems(queue)
  BY <1>1, <1>4, CounterAssumption DEF Deltas
<1>6. CASE cycle[a] > 0
  <2>1. cycle[a] - 1 \in 0 .. maxallowedvalue
    BY <1>5, <1>6, CounterAssumption
  <2>2. Joined(queue', delta', queue, delta, a, cycle[a] - 1)
    BY <1>1, <1>3, <1>4, <1>5, <1>6, <2>1, InsertKeeps
  <2>3. /\ QueueOK(queue', delta')
        /\ \A x : x \in Elems(queue') <=> x \in Elems(queue) \/ x = a
        /\ WalkOf(queue', delta', a) = cycle[a]
        /\ \A x \in Elems(queue) : WalkOf(queue', delta', x) = WalkOf(queue, delta, x)
    BY <1>5, <2>2 DEF Joined
  <2>4. used' = used
    BY <1>3, <1>6
  <2>5. Arranged(queue', delta', to_fire', used')
    BY <1>1, <1>4, <2>3, <2>4 DEF Arranged
  <2>6. \A x \in Alarms :
          Left(queue', delta', to_fire', cycle', x) = Left(queue, delta, to_fire, cycle, x)
    BY <1>1, <1>2, <1>4, <1>5, <2>3 DEF Left
  <2> QED BY <2>5, <2>6
<1>7. CASE ~(cycle[a] > 0)
  <2>1. cycle[a] = 0
    BY <1>5, <1>7
  <2>2. queue' = queue /\ delta' = delta /\ used' = [used EXCEPT ![a] = FALSE]
    BY <1>3, <1>7
  <2>3. used' \in [Alarms -> BOOLEAN]
    BY <1>1, <2>2
  <2>4. \A x \in Alarms : used'[x] <=> x \in Elems(queue') \/ x \in Elems(to_fire')
    <3>1. \A x \in Alarms : used'[x] <=> used[x] /\ x # a
      BY <1>1, <2>2
    <3> QED BY <1>1, <1>4, <1>5, <2>2, <3>1
  <2>5. Arranged(queue', delta', to_fire', used')
    BY <1>1, <1>4, <2>2, <2>3, <2>4 DEF Arranged
  <2>6. \A x \in Alarms :
          Left(queue', delta', to_fire', cycle', x) = Left(queue, delta, to_fire, cycle, x)
    BY <1>2, <1>4, <1>5, <2>1, <2>2 DEF Left
  <2> QED BY <2>5, <2>6
<1> QED BY <1>6, <1>7

-----------------------------------------------------------------------------
(* The invariant.                                                          *)

\* The state in terms of the operators above.
LEMMA LeftIs ==
  /\ \A a : TicksLeft(a) = Left(queue, delta, to_fire, cycle, a)
  /\ [a \in Alarms |-> TicksLeft(a)] = [a \in Alarms |-> Left(queue, delta, to_fire, cycle, a)]
  /\ \A a : Walk(a) = WalkOf(queue, delta, a)
BY DEF TicksLeft, Left, Walk, WalkOf

\* The same of the next state.
LEMMA LeftNext ==
  /\ \A a : TicksLeft(a)' = Left(queue', delta', to_fire', cycle', a)
  /\ [a \in Alarms |-> TicksLeft(a)]' =
       [a \in Alarms |-> Left(queue', delta', to_fire', cycle', a)]
BY DEF TicksLeft, Left, Walk, WalkOf

\* What StartOS leaves behind: its alarms expire on the first tick.
LEMMA InitArranged ==
  ASSUME Init
  PROVE  /\ AlarmsInv
         /\ \A a \in Alarms : Left(queue, delta, to_fire, cycle, a) \in 0 .. maxallowedvalue
<1>1. /\ queue = AutostartAlarms /\ delta = [a \in Alarms |-> 0] /\ to_fire = <<>>
      /\ used = [a \in Alarms |-> a \in DOMAIN AutostartCycle]
      /\ cycle = [a \in Alarms |-> IF a \in DOMAIN AutostartCycle THEN AutostartCycle[a] ELSE 0]
      /\ value = 0 /\ answer = 0
  BY DEF Init
<1>2. /\ queue \in Seq(Alarms) /\ Len(queue) \in Nat /\ DOMAIN queue = 1 .. Len(queue)
      /\ \A i, j \in DOMAIN queue : queue[i] = queue[j] => i = j
      /\ DOMAIN AutostartCycle = {queue[i] : i \in DOMAIN queue}
      /\ \A a \in DOMAIN AutostartCycle : AutostartCycle[a] \in 0 .. maxallowedvalue
      /\ 0 \in 0 .. maxallowedvalue
  BY <1>1, CounterAssumption
<1>3. DOMAIN AutostartCycle = Elems(queue)
  BY <1>2 DEF Elems
<1>4. Once(queue)
  BY <1>2 DEF Once
<1>5. delta \in Deltas /\ cycle \in Deltas
  BY <1>1, <1>2 DEF Deltas
<1> DEFINE s == [j \in 0 .. Len(queue) |-> 0]
<1>6. Timed(queue, delta, s)
  <2>1. s \in [0 .. Len(queue) -> 0 .. maxallowedvalue] /\ s[0] = 0
    BY <1>2
  <2>2. ASSUME NEW j \in 1 .. Len(queue) PROVE s[j] = s[j - 1] + delta[queue[j]]
    <3>1. j \in 0 .. Len(queue) /\ j - 1 \in 0 .. Len(queue) /\ queue[j] \in Alarms
      BY <1>2
    <3> QED BY <1>1, <3>1
  <2>3. \A i, j \in 0 .. Len(queue) : i <= j => s[i] <= s[j]
    OBVIOUS
  <2> QED BY <2>1, <2>2, <2>3 DEF Timed
<1>7. QueueOK(queue, delta)
  BY <1>2, <1>4, <1>5, <1>6 DEF QueueOK
<1>8. to_fire \in Seq(Alarms) /\ Once(to_fire) /\ \A x : x \notin Elems(to_fire)
  BY <1>1, NoElems
<1>9. used \in [Alarms -> BOOLEAN]
  BY <1>1
<1>10. \A a \in Alarms : used[a] <=> a \in Elems(queue) \/ a \in Elems(to_fire)
  BY <1>1, <1>3, <1>8
<1>11. Arranged(queue, delta, to_fire, used)
  BY <1>7, <1>8, <1>9, <1>10 DEF Arranged
<1>12. AlarmsInv
  BY <1>1, <1>2, <1>5, <1>11, CounterAssumption DEF AlarmsInv, PastEnd
<1>13. ASSUME NEW a \in Alarms PROVE Left(queue, delta, to_fire, cycle, a) \in 0 .. maxallowedvalue
  <2>1. CASE a \in Elems(queue)
    <3>1. PICK i \in 1 .. Len(queue) : queue[i] = a
      BY <1>2, <2>1, ElemsAre DEF Has
    <3>2. WalkOf(queue, delta, queue[i]) = s[i] + 1
      <4> HIDE DEF s
      <4> QED BY <1>2, <1>4, <1>5, <1>6, WalkIs
    <3>3. s[i] = 0
      BY <1>2
    <3>4. Left(queue, delta, to_fire, cycle, a) = 1
      <4> HIDE DEF s
      <4> QED BY <2>1, <3>1, <3>2, <3>3 DEF Left
    <3> QED BY <3>4, CounterAssumption
  <2>2. CASE a \notin Elems(queue)
    BY <1>2, <1>8, <2>2 DEF Left
  <2> QED BY <2>1, <2>2
<1> QED BY <1>12, <1>13

\* The arguments the services take.
LEMMA Arguments ==
  ASSUME NEW n \in Ticks, NEW c \in Ticks, ~BadCycle(c), ~(n > maxallowedvalue)
  PROVE  /\ c \in 0 .. maxallowedvalue
         /\ n # 0 => n - 1 \in 0 .. maxallowedvalue /\ n - 1 + 1 = n
         /\ value \in 0 .. maxallowedvalue =>
              /\ TicksTo(n) \in 0 .. maxallowedvalue
              /\ (value + (TicksTo(n) + 1)) % (maxallowedvalue + 1) = n
<1>1. /\ maxallowedvalue \in Nat /\ maxallowedvalue > 0 /\ mincycle \in Nat /\ n \in Nat /\ c \in Nat
      /\ n <= maxallowedvalue
  BY CounterAssumption DEF Ticks
<1>2. c \in 0 .. maxallowedvalue
  BY <1>1 DEF BadCycle
<1>3. n # 0 => n - 1 \in 0 .. maxallowedvalue /\ n - 1 + 1 = n
  BY <1>1
<1>4. ASSUME value \in 0 .. maxallowedvalue
      PROVE  /\ TicksTo(n) \in 0 .. maxallowedvalue
             /\ (value + (TicksTo(n) + 1)) % (maxallowedvalue + 1) = n
  <2> DEFINE t == TicksTo(n)
             m == maxallowedvalue + 1
             u == value + (t + 1)
  <2>1. value \in Nat /\ value <= maxallowedvalue
    BY <1>1, <1>4
  <2>2. t \in 0 .. maxallowedvalue /\ t \in Nat
    BY <1>1, <2>1 DEF TicksTo
  <2>3. u = n \/ u = m + n
    BY <1>1, <2>1 DEF TicksTo
  <2>4. m \in Nat /\ m > 0 /\ n < m /\ u \in Nat
    BY <1>1, <2>1, <2>2
  <2> HIDE DEF t, m, u
  <2>5. u \div m \in Nat /\ u % m \in Nat /\ u % m < m /\ u = m * (u \div m) + (u % m)
    <3>1. u \div m \in Nat /\ u % m \in 0 .. m - 1 /\ u = m * (u \div m) + (u % m)
      BY <2>4, Divided
    <3> QED BY <2>4, <3>1
  <2>6. PICK p \in Nat : u = m * p + n
    <3>1. m * 0 + n = n /\ m * 1 + n = m + n /\ 0 \in Nat /\ 1 \in Nat
      BY <1>1, <2>4
    <3> QED BY <2>3, <3>1
  <2>7. u % m = n
    <3> DEFINE q == u \div m
               r == u % m
    <3>1. q \in Nat /\ r \in Nat /\ r < m /\ m * q + r = m * p + n
      BY <2>5, <2>6
    <3> HIDE DEF q, r
    <3>2. r = n
      BY <1>1, <2>4, <3>1, OneRemainder
    <3> QED BY <3>2 DEF r
  <2> QED BY <2>2, <2>7 DEF t, m, u
<1> QED BY <1>2, <1>3, <1>4

\* A call that arms an alarm gives it e ticks more than the next one.
Arms(a, e, c) ==
  /\ a \in Alarms /\ e \in 0 .. maxallowedvalue /\ c \in 0 .. maxallowedvalue
  /\ ~used[a] /\ Arm(a, e, c) /\ to_fire' = to_fire /\ value' = value /\ answer' = 0

\* The two services that arm do that.
LEMMA SetAlarms ==
  ASSUME value \in 0 .. maxallowedvalue, NEW a \in Alarms, NEW n \in Ticks, NEW c \in Ticks
  PROVE  /\ SetRelAlarm(a, n, c) =>
              Arms(a, n - 1, c) /\ n - 1 + 1 = n
         /\ SetAbsAlarm(a, n, c) =>
              Arms(a, TicksTo(n), c) /\ (value + (TicksTo(n) + 1)) % (maxallowedvalue + 1) = n
<1>1. ASSUME SetRelAlarm(a, n, c) PROVE Arms(a, n - 1, c) /\ n - 1 + 1 = n
  <2>1. /\ ~(n > maxallowedvalue) /\ ~BadCycle(c) /\ n # 0 /\ ~used[a]
        /\ Arm(a, n - 1, c) /\ to_fire' = to_fire /\ value' = value /\ answer' = 0
    BY <1>1 DEF SetRelAlarm
  <2>2. c \in 0 .. maxallowedvalue /\ n - 1 \in 0 .. maxallowedvalue /\ n - 1 + 1 = n
    BY <2>1, Arguments
  <2> QED BY <2>1, <2>2 DEF Arms
<1>2. ASSUME SetAbsAlarm(a, n, c)
      PROVE  Arms(a, TicksTo(n), c) /\ (value + (TicksTo(n) + 1)) % (maxallowedvalue + 1) = n
  <2>1. /\ ~(n > maxallowedvalue) /\ ~BadCycle(c) /\ ~used[a]
        /\ Arm(a, TicksTo(n), c) /\ to_fire' = to_fire /\ value' = value /\ answer' = 0
    BY <1>2 DEF SetAbsAlarm
  <2>2. /\ c \in 0 .. maxallowedvalue /\ TicksTo(n) \in 0 .. maxallowedvalue
        /\ (value + (TicksTo(n) + 1)) % (maxallowedvalue + 1) = n
    BY <2>1, Arguments
  <2> QED BY <2>1, <2>2 DEF Arms
<1> QED BY <1>1, <1>2

\* Arming is a step of the abstract specification.
LEMMA ArmsTimes ==
  ASSUME AlarmsInv, NEW a, NEW e, NEW c, Arms(a, e, c)
  PROVE  AlarmsInv' /\ Times!Arm(a) /\ TicksLeft(a)' = e + 1
<1>1. /\ Arranged(queue, delta, to_fire, used) /\ value \in 0 .. maxallowedvalue /\ cycle \in Deltas
  BY DEF AlarmsInv
<1>2. /\ a \in Alarms /\ e \in 0 .. maxallowedvalue /\ c \in 0 .. maxallowedvalue
      /\ ~used[a] /\ Arm(a, e, c) /\ to_fire' = to_fire /\ value' = value /\ answer' = 0
  BY DEF Arms
<1>3. /\ Arranged(queue', delta', to_fire', used')
      /\ cycle' = [cycle EXCEPT ![a] = c]
      /\ Left(queue', delta', to_fire', cycle', a) = e + 1
      /\ Left(queue, delta, to_fire, cycle, a) = 0
      /\ \A x \in Alarms : x # a =>
           Left(queue', delta', to_fire', cycle', x) = Left(queue, delta, to_fire, cycle, x)
  BY <1>1, <1>2, ArmStep
<1>4. AlarmsInv'
  <2>1. cycle' \in Deltas
    BY <1>1, <1>2, <1>3 DEF Deltas
  <2>2. answer' \in 0 .. maxallowedvalue + 1
    BY <1>2, CounterAssumption
  <2> QED BY <1>1, <1>2, <1>3, <2>1, <2>2 DEF AlarmsInv
<1>5. Times!Arm(a)
  <2>1. e + 1 \in 1 .. maxallowedvalue + 1
    BY <1>2, CounterAssumption
  <2>2. [x \in Alarms |-> TicksLeft(x)][a] = 0
    BY <1>2, <1>3, LeftIs
  <2>3. [x \in Alarms |-> TicksLeft(x)]' = [[x \in Alarms |-> TicksLeft(x)] EXCEPT ![a] = e + 1]
    BY <1>2, <1>3, LeftIs, LeftNext
  <2> QED BY <1>2, <1>3, <2>1, <2>2, <2>3 DEF Times!Arm
<1> QED BY <1>3, <1>4, <1>5, LeftNext

\* So is a cancellation,
LEMMA CancelTimes ==
  ASSUME AlarmsInv, NEW a \in Alarms, CancelAlarm(a)
  PROVE  AlarmsInv' /\ Times!Disarm(a)
<1>1. /\ Arranged(queue, delta, to_fire, used) /\ value \in 0 .. maxallowedvalue /\ cycle \in Deltas
  BY DEF AlarmsInv
<1>2. value' = value /\ cycle' = cycle /\ answer' = 0
  BY DEF CancelAlarm
<1>3. /\ Arranged(queue', delta', to_fire', used')
      /\ Left(queue', delta', to_fire', cycle', a) = 0
      /\ Left(queue, delta, to_fire, cycle, a) > 0
      /\ \A x \in Alarms : x # a =>
           Left(queue', delta', to_fire', cycle', x) = Left(queue, delta, to_fire, cycle, x)
  BY <1>1, CancelStep
<1>4. AlarmsInv'
  BY <1>1, <1>2, <1>3, CounterAssumption DEF AlarmsInv
<1>5. Times!Disarm(a)
  <2>1. [x \in Alarms |-> TicksLeft(x)][a] > 0
    BY <1>3, LeftIs
  <2>2. [x \in Alarms |-> TicksLeft(x)]' = [[x \in Alarms |-> TicksLeft(x)] EXCEPT ![a] = 0]
    BY <1>3, LeftIs, LeftNext
  <2> QED BY <1>2, <2>1, <2>2 DEF Times!Disarm
<1> QED BY <1>4, <1>5

\* a tick,
LEMMA TickTimes ==
  ASSUME AlarmsInv, TickBegin
  PROVE  AlarmsInv' /\ Times!Tick
<1>1. /\ Arranged(queue, delta, to_fire, used) /\ value \in 0 .. maxallowedvalue /\ cycle \in Deltas
  BY DEF AlarmsInv
<1>2. value' = NextValue /\ cycle' = cycle /\ answer' = 0
  BY DEF TickBegin
<1>3. /\ Arranged(queue', delta', to_fire', used')
      /\ \A x \in Alarms :
           \/ /\ Left(queue, delta, to_fire, cycle, x) = 0
              /\ Left(queue', delta', to_fire', cycle', x) = 0
           \/ /\ Left(queue, delta, to_fire, cycle, x) = 1
              /\ Left(queue', delta', to_fire', cycle', x) = cycle[x]
           \/ /\ Left(queue, delta, to_fire, cycle, x) \in Nat
              /\ Left(queue, delta, to_fire, cycle, x) > 1
              /\ Left(queue', delta', to_fire', cycle', x) = Left(queue, delta, to_fire, cycle, x) - 1
  BY <1>1, TickStep
<1>4. value' \in 0 .. maxallowedvalue /\ value' = (value + 1) % (maxallowedvalue + 1)
  <2>1. value \in Nat /\ maxallowedvalue \in Nat /\ value <= maxallowedvalue
    BY <1>1, CounterAssumption
  <2>2. CASE value = maxallowedvalue
    <3> DEFINE m == maxallowedvalue + 1
    <3>1. m \in Nat /\ m > 0 /\ value' = 0 /\ value + 1 = m
      BY <1>2, <2>1, <2>2 DEF NextValue
    <3> HIDE DEF m
    <3>2. m % m = 0
      <4>1. m \div m \in Nat /\ m % m \in 0 .. m - 1 /\ m = m * (m \div m) + (m % m)
        BY <3>1, Divided
      <4> DEFINE q == m \div m
                 r == m % m
      <4>2. q \in Nat /\ r \in Nat /\ r < m /\ m * q + r = m * 1 + 0
        BY <3>1, <4>1
      <4> HIDE DEF q, r
      <4>3. r = 0
        BY <3>1, <4>2, OneRemainder
      <4> QED BY <4>3 DEF r
    <3> QED BY <2>1, <3>1, <3>2 DEF m
  <2>3. CASE value # maxallowedvalue
    <3> DEFINE m == maxallowedvalue + 1
               u == value + 1
    <3>1. m \in Nat /\ m > 0 /\ u \in Nat /\ u < m /\ value' = u /\ u \in 0 .. maxallowedvalue
      BY <1>2, <2>1, <2>3 DEF NextValue
    <3> HIDE DEF m, u
    <3>2. u % m = u
      <4>1. u \div m \in Nat /\ u % m \in 0 .. m - 1 /\ u = m * (u \div m) + (u % m)
        BY <3>1, Divided
      <4> DEFINE q == u \div m
                 r == u % m
      <4>2. q \in Nat /\ r \in Nat /\ r < m /\ m * q + r = m * 0 + u
        BY <3>1, <4>1
      <4> HIDE DEF q, r
      <4>3. r = u
        BY <3>1, <4>2, OneRemainder
      <4> QED BY <4>3 DEF r
    <3> QED BY <3>1, <3>2 DEF m, u
  <2> QED BY <2>2, <2>3
<1>5. AlarmsInv'
  BY <1>1, <1>2, <1>3, <1>4, CounterAssumption DEF AlarmsInv
<1>6. Times!Tick
  <2> DEFINE L == [x \in Alarms |-> TicksLeft(x)]
  <2>1. ASSUME NEW x \in Alarms
        PROVE  Left(queue', delta', to_fire', cycle', x) =
                 CASE L[x] = 0 -> 0 [] L[x] = 1 -> cycle[x] [] OTHER -> L[x] - 1
    <3>1. L[x] = Left(queue, delta, to_fire, cycle, x)
      BY LeftIs
    <3> HIDE DEF L
    <3>2. \/ L[x] = 0 /\ Left(queue', delta', to_fire', cycle', x) = 0
          \/ L[x] = 1 /\ Left(queue', delta', to_fire', cycle', x) = cycle[x]
          \/ L[x] \in Nat /\ L[x] > 1 /\ Left(queue', delta', to_fire', cycle', x) = L[x] - 1
      BY <1>3, <3>1
    <3> QED BY <3>2
  <2>2. L' = [x \in Alarms |-> CASE L[x] = 0 -> 0 [] L[x] = 1 -> cycle[x] [] OTHER -> L[x] - 1]
    BY <2>1, LeftNext
  <2> QED BY <1>2, <1>4, <2>2 DEF Times!Tick
<1> QED BY <1>5, <1>6

\* and the rest leaves the times alone.
LEMMA FireTimes ==
  ASSUME AlarmsInv, Fire
  PROVE  AlarmsInv' /\ UNCHANGED Times!vars
<1>1. /\ Arranged(queue, delta, to_fire, used) /\ value \in 0 .. maxallowedvalue /\ cycle \in Deltas
  BY DEF AlarmsInv
<1>2. value' = value /\ cycle' = cycle /\ answer' = 0
  BY DEF Fire
<1>3. /\ Arranged(queue', delta', to_fire', used')
      /\ \A x \in Alarms :
           Left(queue', delta', to_fire', cycle', x) = Left(queue, delta, to_fire, cycle, x)
  BY <1>1, FireStep
<1>4. AlarmsInv'
  BY <1>1, <1>2, <1>3, CounterAssumption DEF AlarmsInv
<1>5. [x \in Alarms |-> TicksLeft(x)]' = [x \in Alarms |-> TicksLeft(x)]
  BY <1>3, LeftIs, LeftNext
<1> QED BY <1>2, <1>4, <1>5 DEF Times!vars

\* The walk of GetAlarm on an alarm in use ends at it, unless a tick is in progress.
LEMMA WalkFinds ==
  ASSUME AlarmsInv, NEW a \in Alarms, used[a], UserCode
  PROVE  Walk(a) \in 1 .. maxallowedvalue + 1
<1>1. /\ QueueOK(queue, delta)
      /\ used[a] <=> a \in Elems(queue) \/ a \in Elems(to_fire)
  BY DEF AlarmsInv, Arranged
<1>2. a \in Elems(queue)
  BY <1>1, NoElems DEF UserCode
<1> QED BY <1>1, <1>2, WalkRange, LeftIs

\* GetAlarm changes its answer only.
LEMMA GetTimes ==
  ASSUME AlarmsInv, NEW a \in Alarms, GetAlarm(a)
  PROVE  AlarmsInv' /\ UNCHANGED Times!vars
<1>1. UNCHANGED <<value, queue, delta, cycle, used, to_fire>> /\ answer' = Walk(a)
  BY DEF GetAlarm, objVars
<1>2. Walk(a) \in {PastEnd} \cup 0 .. maxallowedvalue + 1
  <2>1. CASE a \in Elems(queue)
    <3>1. WalkOf(queue, delta, a) \in 1 .. maxallowedvalue + 1
      BY <2>1, WalkRange DEF AlarmsInv, Arranged
    <3> QED BY <3>1, LeftIs, CounterAssumption
  <2>2. CASE a \notin Elems(queue)
    BY <2>2 DEF Walk
  <2> QED BY <2>1, <2>2
<1>3. AlarmsInv'
  BY <1>1, <1>2 DEF AlarmsInv
<1>4. [x \in Alarms |-> TicksLeft(x)]' = [x \in Alarms |-> TicksLeft(x)]
  BY <1>1, LeftIs, LeftNext
<1> QED BY <1>1, <1>3, <1>4 DEF Times!vars

\* Every step keeps the invariant and is a step of the abstract specification.
LEMMA AlarmsStep ==
  ASSUME AlarmsInv, [Next]_vars
  PROVE  AlarmsInv' /\ [Times!Next]_(Times!vars)
<1>0. value \in 0 .. maxallowedvalue
  BY DEF AlarmsInv
<1>1. ASSUME NEW a \in Alarms, NEW n \in Ticks, NEW c \in Ticks, SetRelAlarm(a, n, c) \/ SetAbsAlarm(a, n, c)
      PROVE  AlarmsInv' /\ Times!Next
  <2>1. \E e : Arms(a, e, c)
    BY <1>0, <1>1, SetAlarms
  <2>2. AlarmsInv' /\ Times!Arm(a)
    BY <2>1, ArmsTimes
  <2> QED BY <2>2 DEF Times!Next
<1>2. ASSUME NEW a \in Alarms, CancelAlarm(a) PROVE AlarmsInv' /\ Times!Next
  <2>1. AlarmsInv' /\ Times!Disarm(a)
    BY <1>2, CancelTimes
  <2> QED BY <2>1 DEF Times!Next
<1>3. ASSUME NEW a \in Alarms, GetAlarm(a) PROVE AlarmsInv' /\ UNCHANGED Times!vars
  BY <1>3, GetTimes
<1>4. ASSUME TickBegin PROVE AlarmsInv' /\ Times!Next
  BY <1>4, TickTimes DEF Times!Next
<1>5. ASSUME Fire PROVE AlarmsInv' /\ UNCHANGED Times!vars
  BY <1>5, FireTimes
<1>6. ASSUME UNCHANGED vars PROVE AlarmsInv' /\ UNCHANGED Times!vars
  <2>1. UNCHANGED <<value, queue, delta, cycle, used, to_fire, answer>>
    BY <1>6 DEF vars, objVars
  <2>2. AlarmsInv'
    BY <2>1 DEF AlarmsInv
  <2>3. [x \in Alarms |-> TicksLeft(x)]' = [x \in Alarms |-> TicksLeft(x)]
    BY <2>1, LeftIs, LeftNext
  <2> QED BY <2>1, <2>2, <2>3 DEF Times!vars
<1> QED BY <1>1, <1>2, <1>3, <1>4, <1>5, <1>6 DEF Next

-----------------------------------------------------------------------------
(* The theorems.                                                           *)

\* The lists stay in order whatever the calls and the ticks.
LEMMA AlarmsStayInOrder == Spec => []AlarmsInv
<1>1. Init => AlarmsInv
  BY InitArranged
<1>2. AlarmsInv /\ [Next]_vars => AlarmsInv'
  BY AlarmsStep
<1> QED BY <1>1, <1>2, PTL DEF Spec

\* The counter stays in its range, no delta becomes negative or larger than a
\* turn of the counter, and no walk answers more than a turn.
THEOREM AlarmsTyped == Spec => []TypeOK
<1>1. AlarmsInv => TypeOK
  BY DEF AlarmsInv, TypeOK, Arranged, QueueOK, Deltas
<1> QED BY <1>1, AlarmsStayInOrder, PTL

\* A list without repetitions is as long as it has entries.
LEMMA ElemsCount ==
  ASSUME NEW q \in Seq(Alarms), Once(q)
  PROVE  IsFiniteSet(Elems(q)) /\ Cardinality(Elems(q)) = Len(q)
<1> DEFINE n == Len(q)
           E == Elems(q)
           f == [i \in 1 .. n |-> q[i]]
<1>1. n \in Nat /\ \A x : x \in E <=> \E i \in 1 .. n : q[i] = x
  BY ElemsAre DEF Has
<1> HIDE DEF E
<1>2. f \in Bijection(1 .. n, E)
  <2>1. f \in [1 .. n -> E]
    BY <1>1
  <2>2. \A i, j \in 1 .. n : f[i] = f[j] => i = j
    BY DEF Once
  <2>3. \A x \in E : \E i \in 1 .. n : f[i] = x
    BY <1>1
  <2> QED BY <2>1, <2>2, <2>3 DEF Bijection, Injection, IsInjective, Surjection
<1>3. ExistsBijection(1 .. n, E)
  BY <1>2 DEF ExistsBijection
<1>4. Cardinality(E) = n
  <2> HIDE DEF n
  <2> QED BY <1>1, <1>3, FS_CountingElements
<1>5. IsFiniteSet(E)
  BY <1>1, <1>3, FS_NatBijection
<1> QED BY <1>4, <1>5 DEF E

\* An alarm is in use exactly while it is in one of the lists, once: cancelling
\* and reading it find it, and no list grows beyond the alarms there are.
THEOREM AlarmsFound == Spec => []UsedMeansQueued
<1>1. ASSUME AlarmsInv PROVE UsedMeansQueued
  <2> DEFINE Q == Elems(queue)
             F == Elems(to_fire)
             U == {a \in Alarms : used[a]}
  <2>1. /\ queue \in Seq(Alarms) /\ Once(queue) /\ to_fire \in Seq(Alarms) /\ Once(to_fire)
        /\ \A x : ~(x \in Q /\ x \in F)
        /\ \A a \in Alarms : used[a] <=> a \in Q \/ a \in F
    BY <1>1 DEF AlarmsInv, Arranged, QueueOK
  <2>2. /\ IsFiniteSet(Q) /\ Cardinality(Q) = Len(queue)
        /\ IsFiniteSet(F) /\ Cardinality(F) = Len(to_fire)
    BY <2>1, ElemsCount
  <2>3. Q \subseteq Alarms /\ F \subseteq Alarms
    BY <2>1 DEF Elems
  <2>4. Len(queue) \in Nat /\ Len(to_fire) \in Nat
    BY <2>1
  <2>5. \A a \in Alarms : used[a] <=> a \in Elems(queue) \cup Elems(to_fire)
    BY <2>1
  <2> HIDE DEF Q, F
  <2>6. U = Q \cup F /\ Q \cap F = {}
    BY <2>1, <2>3
  <2>7. Cardinality(U) = Len(queue) + Len(to_fire)
    <3>1. Cardinality(Q \cup F) = Cardinality(Q) + Cardinality(F) - Cardinality(Q \cap F)
      BY <2>2, FS_Union
    <3>2. Cardinality(Q \cap F) = 0
      BY <2>6, FS_EmptySet
    <3> DEFINE c == Cardinality(Q \cap F)
    <3> HIDE DEF c
    <3>3. Cardinality(Q \cup F) = Len(queue) + Len(to_fire) - c
      BY <2>2, <3>1 DEF c
    <3>4. c = 0
      BY <3>2 DEF c
    <3>5. Cardinality(U) = Cardinality(Q \cup F)
      BY <2>6
    <3> HIDE DEF U
    <3> QED BY <2>4, <3>3, <3>4, <3>5
  <2> QED BY <2>5, <2>7 DEF UsedMeansQueued
<1> QED BY <1>1, AlarmsStayInOrder, PTL

\* The delta queue implements the times the alarms promise.
THEOREM TimesKept == Spec => TimesSpec
<1>1. Init => Times!Init
  <2> SUFFICES ASSUME Init PROVE Times!Init
    OBVIOUS
  <2>1. \A a \in Alarms : Left(queue, delta, to_fire, cycle, a) \in 0 .. maxallowedvalue
    BY InitArranged
  <2>2. [a \in Alarms |-> TicksLeft(a)] \in [Alarms -> 0 .. maxallowedvalue]
    BY <2>1, LeftIs
  <2>3. value = 0 /\ cycle \in [Alarms -> 0 .. maxallowedvalue]
    BY InitArranged DEF Init, AlarmsInv, Deltas
  <2> QED BY <2>2, <2>3 DEF Times!Init
<1>2. AlarmsInv /\ [Next]_vars => [Times!Next]_(Times!vars)
  BY AlarmsStep
<1> QED BY <1>1, <1>2, AlarmsStayInOrder, PTL DEF Spec, TimesSpec, Times!Spec

\* An alarm expires after the ticks, or at the value, its caller asked for.
THEOREM AskedTimesKept == Spec => ArmedAsAsked
<1> DEFINE Asked == \A a \in {x \in Alarms : used'[x] /\ ~used[x]}, n, c \in Ticks :
                       /\ SetRelAlarm(a, n, c) => TicksLeft(a)' = n
                       /\ SetAbsAlarm(a, n, c) => /\ TicksLeft(a)' > 0
                                                  /\ (value + TicksLeft(a)') % (maxallowedvalue + 1) = n
<1>1. AlarmsInv /\ [Next]_vars => [Asked]_vars
  <2> SUFFICES ASSUME AlarmsInv, NEW a \in Alarms, NEW n \in Ticks, NEW c \in Ticks
               PROVE  /\ SetRelAlarm(a, n, c) => TicksLeft(a)' = n
                      /\ SetAbsAlarm(a, n, c) => /\ TicksLeft(a)' > 0
                                                 /\ (value + TicksLeft(a)') % (maxallowedvalue + 1) = n
    OBVIOUS
  <2>0. value \in 0 .. maxallowedvalue
    BY DEF AlarmsInv
  <2>1. ASSUME SetRelAlarm(a, n, c) PROVE TicksLeft(a)' = n
    <3>1. Arms(a, n - 1, c) /\ n - 1 + 1 = n
      BY <2>0, <2>1, SetAlarms
    <3> QED BY <3>1, ArmsTimes
  <2>2. ASSUME SetAbsAlarm(a, n, c)
        PROVE  TicksLeft(a)' > 0 /\ (value + TicksLeft(a)') % (maxallowedvalue + 1) = n
    <3>1. Arms(a, TicksTo(n), c) /\ (value + (TicksTo(n) + 1)) % (maxallowedvalue + 1) = n
      BY <2>0, <2>2, SetAlarms
    <3>2. TicksLeft(a)' = TicksTo(n) + 1
      BY <3>1, ArmsTimes
    <3>3. TicksTo(n) \in Nat
      BY <3>1, CounterAssumption DEF Arms
    <3> QED BY <3>1, <3>2, <3>3
  <2> QED BY <2>1, <2>2
<1> QED BY <1>1, AlarmsStayInOrder, PTL DEF Spec, ArmedAsAsked

\* Without an ErrorHook that calls it, GetAlarm never runs off the queue: the
\* counterexample of the run with the hook is the only way there.
THEOREM WalksEnd ==
  ASSUME ~ErrorHook
  PROVE  Spec => []GetAlarmFinds
<1>1. Init => GetAlarmFinds
  BY DEF Init, GetAlarmFinds, PastEnd
<1>2. ASSUME AlarmsInv, GetAlarmFinds, [Next]_vars PROVE GetAlarmFinds'
  <2>1. ASSUME NEW a \in Alarms, GetAlarm(a) PROVE GetAlarmFinds'
    <3>1. Walk(a) \in 1 .. maxallowedvalue + 1 /\ answer' = Walk(a)
      BY <1>2, <2>1, WalkFinds DEF GetAlarm
    <3> QED BY <3>1, CounterAssumption DEF GetAlarmFinds, PastEnd
  <2>2. CASE UNCHANGED vars
    BY <1>2, <2>2 DEF vars, GetAlarmFinds
  <2>3. ASSUME answer' = 0 PROVE GetAlarmFinds'
    BY <2>3 DEF GetAlarmFinds, PastEnd
  <2>4. ASSUME NEW a \in Alarms, NEW n \in Ticks, NEW c \in Ticks, SetRelAlarm(a, n, c) \/ SetAbsAlarm(a, n, c)
        PROVE  answer' = 0
    BY <2>4 DEF SetRelAlarm, SetAbsAlarm
  <2>5. ASSUME NEW a \in Alarms, CancelAlarm(a) PROVE answer' = 0
    BY <2>5 DEF CancelAlarm
  <2>6. TickBegin \/ Fire => answer' = 0
    BY DEF TickBegin, Fire
  <2> QED BY <1>2, <2>1, <2>2, <2>3, <2>4, <2>5, <2>6 DEF Next
<1> QED BY <1>1, <1>2, AlarmsStayInOrder, PTL DEF Spec

=============================================================================
