---------------------------- MODULE EthernetProofs ----------------------------
(***************************************************************************)
(* The Ethernet driver for every number of descriptors, fragments and      *)
(* clients: on the transmit and on the receive side no fragment is lost or *)
(* in two places, the semaphore and the event promise nothing that is not  *)
(* there, and no restart of a DMA is missed. Arithmetic modulo the size of *)
(* a ring is that of distances less than a turn (Gap, ModSmall).           *)
(*                                                                         *)
(* TxInv: the cleaner, the DMA and TSWPTR stay in this order (TxOrder), so *)
(* what the cleaner takes back the DMA has done with; the fragments are in *)
(* the free list, in one chain or on one descriptor in flight (TxPlaces),  *)
(* from which the room on the ring for a chain follows by counting         *)
(* (RoomToSend); and inside a send a stopped DMA is at the first of the    *)
(* new descriptors or past them (TxKick), so the write of TPTR resumes     *)
(* nothing that was sent. It holds until the receive side's write of       *)
(* ETH_ETH_CTRL clears a GTS that the DMA has set since its read.          *)
(*                                                                         *)
(* RxInv: the ring of the software begins at the read pointer, or after it *)
(* once its fragment has been handed on (Start). That a complete frame is  *)
(* noticed needs more than RxWorkNoticed says: a cause cleared while       *)
(* frames are left is made up for by the processing that follows, which    *)
(* gives up only after as many descriptors as the ring has; counted from   *)
(* the clearing (Done), it passes every frame that was there, and what     *)
(* comes later than a turn has raised the cause again (LateRaised). That   *)
(* no restart is missed needs that nobody else is between a read and a     *)
(* write of the register (RxOwner).                                        *)
(*                                                                         *)
(* EthInv: on the whole driver one task at most is between the two, and the*)
(* other side's software does not run meanwhile; so each side is what its  *)
(* module says, with the other as its environment.                         *)
(***************************************************************************)
EXTENDS Ethernet, Integers, FiniteSetTheorems, SequenceTheorems, TLAPS

-----------------------------------------------------------------------------
(* Positions on a ring of n descriptors.                                   *)

\* How far b is after a.
Gap(n, a, b) == IF b >= a THEN b - a ELSE b + n - a

\* A remainder that is at most one turn away.
LEMMA ModSmall ==
  ASSUME NEW n \in Nat, n > 0, NEW x \in Nat, x < n + n
  PROVE  x % n = IF x < n THEN x ELSE x - n
BY SMTT(30)

\* A ring has at least one descriptor.
LEMMA RingSize ==
  /\ TxDescriptors \in Nat /\ TxDescriptors > 0 /\ Cardinality(TxFrags) \in Nat
  /\ RxDescriptors \in Nat /\ RxDescriptors > 0 /\ Cardinality(RxFrags) \in Nat
BY MoreDescriptors, TxAssumption, RingNeverFull, RxAssumption, FS_CardinalityType

\* The next descriptor of the transmit ring, ...
LEMMA SuccIs ==
  ASSUME NEW d \in Descs
  PROVE  /\ Succ(d) = IF d + 1 = TxDescriptors THEN 0 ELSE d + 1
         /\ Succ(d) \in Descs
<1>1. d \in Nat /\ d < TxDescriptors
  BY RingSize DEF Descs
<1>2. Succ(d) = IF d + 1 < TxDescriptors THEN d + 1 ELSE d + 1 - TxDescriptors
  BY <1>1, RingSize, ModSmall DEF Succ
<1> QED BY <1>1, <1>2, RingSize DEF Descs

\* ... and one some steps ahead.
LEMMA AheadIs ==
  ASSUME NEW d \in Descs, NEW n \in Nat, n < TxDescriptors
  PROVE  /\ (d + n) % TxDescriptors = IF d + n < TxDescriptors THEN d + n ELSE d + n - TxDescriptors
         /\ (d + n) % TxDescriptors \in Descs
<1>1. d \in Nat /\ d < TxDescriptors
  BY RingSize DEF Descs
<1>2. (d + n) % TxDescriptors = IF d + n < TxDescriptors THEN d + n ELSE d + n - TxDescriptors
  BY <1>1, RingSize, ModSmall
<1> QED BY <1>1, <1>2, RingSize DEF Descs

\* The distance of two descriptors.
LEMMA DistIs ==
  ASSUME NEW a \in Descs, NEW b \in Descs
  PROVE  Dist(a, b) = Gap(TxDescriptors, a, b) /\ Dist(a, b) \in 0 .. TxDescriptors - 1
<1>1. a \in Nat /\ b \in Nat /\ a < TxDescriptors /\ b < TxDescriptors
  BY RingSize DEF Descs
<1>2. b + TxDescriptors - a \in Nat /\ b + TxDescriptors - a < TxDescriptors + TxDescriptors
  BY <1>1, RingSize
<1> DEFINE x == b + TxDescriptors - a
<1>3. x \in Nat /\ x < TxDescriptors + TxDescriptors
  BY <1>2
<1>4. Dist(a, b) = x % TxDescriptors
  BY DEF Dist
<1> HIDE DEF x
<1>5. Dist(a, b) = IF x < TxDescriptors THEN x ELSE x - TxDescriptors
  BY <1>3, <1>4, RingSize, ModSmall
<1> QED BY <1>1, <1>5, RingSize DEF Gap, x

\* A set without two members has one or none.
LEMMA AtMostOne ==
  ASSUME NEW S, \A x, y \in S : x = y
  PROVE  Cardinality(S) = IF S = {} THEN 0 ELSE 1
<1>1. CASE S = {}
  BY <1>1, FS_EmptySet
<1>2. CASE S # {}
  <2>1. PICK x \in S : TRUE
    BY <1>2
  <2>2. S = {x}
    BY <2>1
  <2> QED BY <1>2, <2>2, FS_Singleton
<1> QED BY <1>1, <1>2

-----------------------------------------------------------------------------
(* The transmit side. Where the fragments are, over plain values: the free *)
(* list, the clients' chains, and the descriptors fl with what they hold.  *)

Placed(free, ch, fr, fl) ==
  \A f \in TxFrags :
    \/ f \in free
    \/ \E t \in Clients : \E i \in 1 .. Len(ch[t]) : ch[t][i] = f
    \/ \E d \in fl : fr[d] = f

Apart(free, ch, fr, fl) ==
  /\ \A d \in fl : fr[d] \in TxFrags \ free
  /\ \A d, e \in fl : fr[d] = fr[e] => d = e
  /\ \A t \in Clients : \A i \in 1 .. Len(ch[t]) :
       ch[t][i] \notin free /\ \A d \in fl : fr[d] # ch[t][i]
  /\ \A t, u \in Clients : \A i \in 1 .. Len(ch[t]) : \A j \in 1 .. Len(ch[u]) :
       ch[t][i] = ch[u][j] => t = u /\ i = j

\* The descriptors between the cleaner and TSWPTR.
Fly(cl, sw) == {d \in Descs : Dist(cl, d) \in 1 .. Dist(cl, sw)}

TxPlace ==
  {"idle", "getres", "clean", "waitsem", "take", "blocked", "post", "kick", "restart"}

TxOK ==
  /\ txPc \in [Clients -> TxPlace]
  /\ txChain \in [Clients -> Seq(TxFrags)] /\ firstBd \in [Clients -> Descs]
  /\ freeFrags \in SUBSET TxFrags /\ semCount \in Nat /\ semQueue \in Seq(Clients)
  /\ txFrag \in [Descs -> TxFrags \cup {NoFrag}]
  /\ txClean \in Descs /\ tswptr \in Descs /\ tbdptr \in Descs
  /\ gts \in BOOLEAN /\ irqOff \in Clients \cup {NoTask, "receive"}
  /\ gtsRead \in BOOLEAN /\ ~gtsLost

TxWaiters ==
  /\ \A i \in 1 .. Len(semQueue) : txPc[semQueue[i]] = "blocked"
  /\ \A i, j \in 1 .. Len(semQueue) : semQueue[i] = semQueue[j] => i = j

\* The cleaner, the DMA and TSWPTR stay in this order.
TxOrder == Dist(Succ(txClean), tbdptr) <= Dist(txClean, tswptr)

\* A client is inside a send exactly while it has interrupts suspended.
KickOwner == \A t \in Clients : txPc[t] \in {"kick", "restart"} <=> irqOff = t

\* Inside a send, a stopped DMA is at the first new descriptor or has done all, and
\* is restarted only in the first case. A GTS that the receive side has read as set
\* stays set until it writes.
TxKick ==
  /\ KickOwner
  /\ irqOff \in Clients =>
       /\ gts => tbdptr = firstBd[irqOff] \/ tbdptr = Succ(tswptr)
       /\ tbdptr = Succ(tswptr) => gts
       /\ firstBd[irqOff] # Succ(tswptr)
       /\ txPc[irqOff] = "restart" => gts /\ tbdptr = firstBd[irqOff]
  /\ irqOff = "receive" /\ gtsRead => gts

TxPlaces ==
  /\ Placed(freeFrags, txChain, txFrag, Fly(txClean, tswptr))
  /\ Apart(freeFrags, txChain, txFrag, Fly(txClean, tswptr))

TxInv ==
  TxOK /\ TxWaiters /\ TxOrder /\ TxKick /\ TransmitterRuns /\ TxPlaces /\ SemNeverAhead

-----------------------------------------------------------------------------
(* Where the fragments are, move by move.                                  *)

\* A chain and the descriptors in flight together hold no more fragments than
\* there are, so that a send never fills the ring.
LEMMA RoomToSend ==
  ASSUME TxOK, TxPlaces, NEW t \in Clients
  PROVE  Dist(txClean, tswptr) + Len(txChain[t]) <= Cardinality(TxFrags)
<1> DEFINE n == Len(txChain[t])
           F == Dist(txClean, tswptr)
           at(i) == IF txClean + i < TxDescriptors THEN txClean + i
                    ELSE txClean + i - TxDescriptors
           g == [i \in 1 .. F + n |-> IF i <= F THEN txFrag[at(i)] ELSE txChain[t][i - F]]
<1>1. /\ n \in Nat /\ F \in Nat /\ F < TxDescriptors
      /\ txClean \in Nat /\ txClean < TxDescriptors
      /\ txChain[t] \in Seq(TxFrags)
  <2>1. txClean \in Descs /\ tswptr \in Descs /\ txChain[t] \in Seq(TxFrags)
    BY DEF TxOK
  <2>2. F \in 0 .. TxDescriptors - 1
    BY <2>1, DistIs
  <2> QED BY <2>1, <2>2, RingSize DEF Descs
<1>2. \A i \in 1 .. F : at(i) \in Fly(txClean, tswptr)
  <2> SUFFICES ASSUME NEW i \in 1 .. F PROVE at(i) \in Fly(txClean, tswptr)
    OBVIOUS
  <2>1. at(i) \in Descs
    BY <1>1, RingSize DEF Descs
  <2>2. Dist(txClean, at(i)) = i
    <3>1. Dist(txClean, at(i)) = Gap(TxDescriptors, txClean, at(i))
      BY <2>1, DistIs DEF TxOK
    <3> QED BY <1>1, <2>1, <3>1, RingSize DEF Gap, Descs
  <2> QED BY <1>1, <2>1, <2>2 DEF Fly
<1>3. \A i, j \in 1 .. F : at(i) = at(j) => i = j
  BY <1>1, RingSize
<1>4. g \in [1 .. F + n -> TxFrags]
  <2> SUFFICES ASSUME NEW i \in 1 .. F + n PROVE g[i] \in TxFrags
    OBVIOUS
  <2>1. CASE i <= F
    BY <1>1, <1>2, <2>1 DEF TxPlaces, Apart
  <2>2. CASE i > F
    <3>1. i - F \in 1 .. n
      BY <1>1, <2>2
    <3>2. txChain[t][i - F] \in TxFrags
      BY <1>1, <3>1
    <3> QED BY <1>1, <2>2, <3>2
  <2> QED BY <1>1, <2>1, <2>2
<1>5. \A i, j \in 1 .. F + n : g[i] = g[j] => i = j
  <2> SUFFICES ASSUME NEW i \in 1 .. F + n, NEW j \in 1 .. F + n, g[i] = g[j] PROVE i = j
    OBVIOUS
  <2> HIDE DEF at, F, n
  <2>1. CASE i <= F /\ j <= F
    BY <1>1, <1>2, <1>3, <2>1 DEF TxPlaces, Apart
  <2>2. CASE i > F /\ j > F
    <3>1. i - F \in 1 .. n /\ j - F \in 1 .. n /\ i \in Int /\ j \in Int
      BY <1>1, <2>2
    <3>2. txChain[t][i - F] = txChain[t][j - F]
      BY <1>1, <2>2
    <3>3. i - F = j - F
      BY <3>1, <3>2 DEF TxPlaces, Apart, n
    <3> QED BY <1>1, <3>1, <3>3
  <2>3. \A a, b \in 1 .. F + n : a <= F /\ b > F => g[a] # g[b]
    <3> SUFFICES ASSUME NEW a \in 1 .. F + n, NEW b \in 1 .. F + n, a <= F, b > F
                 PROVE  g[a] # g[b]
      OBVIOUS
    <3>1. b - F \in 1 .. n /\ a \in 1 .. F
      BY <1>1
    <3>2. g[a] = txFrag[at(a)] /\ g[b] = txChain[t][b - F]
      BY <1>1
    <3> QED BY <1>2, <3>1, <3>2 DEF TxPlaces, Apart, n
  <2> QED BY <1>1, <2>1, <2>2, <2>3
<1>6. F + n \in Nat /\ IsFiniteSet(1 .. F + n) /\ Cardinality(1 .. F + n) = F + n
  <2>1. F + n \in Nat
    BY <1>1
  <2> DEFINE m == F + n
  <2>2. m \in Int /\ 1 \in Int
    BY <2>1
  <2> HIDE DEF m
  <2>3. IsFiniteSet(1 .. m) /\ Cardinality(1 .. m) = IF 1 > m THEN 0 ELSE m - 1 + 1
    BY <2>2, FS_Interval
  <2>4. m \in Nat
    BY <2>1 DEF m
  <2>5. Cardinality(1 .. m) = m
    BY <2>3, <2>4
  <2> QED BY <2>3, <2>4, <2>5 DEF m
<1>7. g \in Injection(1 .. F + n, TxFrags)
  BY <1>4, <1>5 DEF Injection, IsInjective
<1> QED BY <1>6, <1>7, TxAssumption, FS_Injection DEF ExistsInjection

\* The cleaner moves on by one descriptor, which was in flight.
LEMMA FlyClean ==
  ASSUME NEW cl \in Descs, NEW sw \in Descs, Dist(cl, sw) > 0
  PROVE  /\ Succ(cl) \in Fly(cl, sw)
         /\ Fly(Succ(cl), sw) = Fly(cl, sw) \ {Succ(cl)}
         /\ Dist(Succ(cl), sw) = Dist(cl, sw) - 1
<1>1. /\ Succ(cl) = IF cl + 1 = TxDescriptors THEN 0 ELSE cl + 1
      /\ Succ(cl) \in Descs
  BY SuccIs
<1>2. \A d \in Descs : /\ Dist(cl, d) = Gap(TxDescriptors, cl, d)
                        /\ Dist(Succ(cl), d) = Gap(TxDescriptors, Succ(cl), d)
  BY <1>1, DistIs
<1>3. Dist(cl, Succ(cl)) = 1
  BY <1>1, <1>2, RingSize DEF Descs, Gap
<1>4. \A d \in Descs : Dist(cl, d) \in Nat /\ Dist(cl, d) > 0 => Dist(Succ(cl), d) = Dist(cl, d) - 1
  BY <1>1, <1>2, RingSize DEF Descs, Gap
<1>5. Dist(Succ(cl), cl) = TxDescriptors - 1 /\ \A d \in Descs : Dist(cl, d) = 0 => d = cl
  BY <1>1, <1>2, RingSize DEF Descs, Gap
<1>6. \A d \in Descs : Dist(cl, d) \in 0 .. TxDescriptors - 1 /\ Dist(Succ(cl), d) \in 0 .. TxDescriptors - 1
  BY <1>1, DistIs
<1>7. \A d \in Descs : Dist(cl, d) = 1 => d = Succ(cl)
  BY <1>1, <1>2, RingSize DEF Descs, Gap
<1>8. ASSUME NEW d \in Descs
      PROVE  d \in Fly(Succ(cl), sw) <=> d \in Fly(cl, sw) /\ d # Succ(cl)
  <2>1. Dist(Succ(cl), sw) = Dist(cl, sw) - 1 /\ Dist(cl, sw) < TxDescriptors
    BY <1>4, <1>6, RingSize
  <2>2. CASE Dist(cl, d) = 0
    BY <1>5, <1>6, <2>1, <2>2, RingSize DEF Fly
  <2>3. CASE Dist(cl, d) > 0
    <3>1. Dist(Succ(cl), d) = Dist(cl, d) - 1 /\ (Dist(cl, d) = 1 <=> d = Succ(cl))
      BY <1>3, <1>4, <1>6, <1>7, <2>3
    <3> QED BY <1>6, <2>1, <2>3, <3>1, RingSize DEF Fly
  <2> QED BY <1>6, <2>2, <2>3, RingSize
<1>9. Dist(Succ(cl), sw) = Dist(cl, sw) - 1
  BY <1>4, <1>6
<1>10. Succ(cl) \in Fly(cl, sw)
  BY <1>1, <1>3, <1>6, RingSize DEF Fly
<1>11. Fly(Succ(cl), sw) \subseteq Descs /\ Fly(cl, sw) \subseteq Descs
  BY DEF Fly
<1> QED BY <1>8, <1>9, <1>10, <1>11

\* A send of n fragments puts the n descriptors after TSWPTR in flight.
LEMMA FlySend ==
  ASSUME NEW cl \in Descs, NEW sw \in Descs, NEW n \in Nat, Dist(cl, sw) + n < TxDescriptors,
         NEW sw2, sw2 = (sw + n) % TxDescriptors
  PROVE  /\ Fly(cl, sw2) = Fly(cl, sw) \cup {d \in Descs : Dist(sw, d) \in 1 .. n}
         /\ \A d \in Fly(cl, sw) : Dist(sw, d) \notin 1 .. n
         /\ Dist(cl, sw2) = Dist(cl, sw) + n
<1>1. Dist(cl, sw) \in Nat /\ n < TxDescriptors
  BY DistIs, RingSize
<1>2. /\ sw2 = IF sw + n < TxDescriptors THEN sw + n ELSE sw + n - TxDescriptors
      /\ sw2 \in Descs
  BY <1>1, AheadIs
<1>3. \A d \in Descs : /\ Dist(cl, d) = Gap(TxDescriptors, cl, d)
                        /\ Dist(sw, d) = Gap(TxDescriptors, sw, d)
  BY DistIs
<1>4. Dist(cl, sw2) = Dist(cl, sw) + n
  BY <1>1, <1>2, <1>3, RingSize DEF Descs, Gap
<1>5. \A d \in Descs : Dist(cl, d) \in 0 .. TxDescriptors - 1 /\ Dist(sw, d) \in 0 .. TxDescriptors - 1
  BY DistIs
<1>6. \A d \in Descs : Dist(sw, d) = IF Dist(cl, d) >= Dist(cl, sw) THEN Dist(cl, d) - Dist(cl, sw)
                                       ELSE Dist(cl, d) - Dist(cl, sw) + TxDescriptors
  BY <1>3, RingSize DEF Descs, Gap
<1>7. ASSUME NEW d \in Descs
      PROVE  /\ Dist(cl, d) \in 1 .. Dist(cl, sw) => Dist(sw, d) \notin 1 .. n
             /\ Dist(cl, d) \in 1 .. Dist(cl, sw2) <=>
                  Dist(cl, d) \in 1 .. Dist(cl, sw) \/ Dist(sw, d) \in 1 .. n
  <2> DEFINE p == Dist(cl, d)
             F == Dist(cl, sw)
             q == Dist(sw, d)
  <2>1. /\ p \in Nat /\ F \in Nat /\ q \in Nat /\ p < TxDescriptors
        /\ q = IF p >= F THEN p - F ELSE p - F + TxDescriptors
    BY <1>1, <1>5, <1>6, RingSize
  <2>2. F + n < TxDescriptors /\ Dist(cl, sw2) = F + n
    BY <1>4
  <2> HIDE DEF p, F, q
  <2>3. p \in 1 .. F => q \notin 1 .. n
    BY <2>1, <2>2, RingSize
  <2>4. p \in 1 .. F + n <=> p \in 1 .. F \/ q \in 1 .. n
    BY <2>1, <2>2, RingSize
  <2> QED BY <2>2, <2>3, <2>4 DEF p, F, q
<1> QED BY <1>4, <1>7 DEF Fly

\* A fragment from the free list to the end of a chain.
LEMMA MoveTake ==
  ASSUME NEW free, NEW ch \in [Clients -> Seq(TxFrags)], NEW fr, NEW fl,
         Placed(free, ch, fr, fl), Apart(free, ch, fr, fl),
         NEW t \in Clients, NEW f \in TxFrags, f \in free
  PROVE  /\ Placed(free \ {f}, [ch EXCEPT ![t] = Append(@, f)], fr, fl)
         /\ Apart(free \ {f}, [ch EXCEPT ![t] = Append(@, f)], fr, fl)
<1> DEFINE ch2 == [ch EXCEPT ![t] = Append(@, f)]
           n == Len(ch[t])
<1>1. /\ n \in Nat /\ Len(ch2[t]) = n + 1 /\ ch2[t][n + 1] = f
      /\ \A i \in 1 .. n : ch2[t][i] = ch[t][i]
  BY AppendProperties
<1>2. \A u \in Clients : u # t => ch2[u] = ch[u]
  OBVIOUS
<1> HIDE DEF ch2
<1>3. \A u \in Clients : \A i \in 1 .. Len(ch2[u]) :
        \/ i \in 1 .. Len(ch[u]) /\ ch2[u][i] = ch[u][i]
        \/ u = t /\ i = n + 1 /\ ch2[u][i] = f
  BY <1>1, <1>2
<1>4. \A u \in Clients : \A i \in 1 .. Len(ch[u]) : i \in 1 .. Len(ch2[u]) /\ ch2[u][i] = ch[u][i]
  BY <1>1, <1>2
<1>5. n + 1 \in 1 .. Len(ch2[t])
  BY <1>1
<1>6. ASSUME NEW g \in TxFrags
      PROVE  \/ g \in free \ {f}
             \/ \E u \in Clients : \E i \in 1 .. Len(ch2[u]) : ch2[u][i] = g
             \/ \E d \in fl : fr[d] = g
  <2>1. CASE g = f
    BY <1>1, <1>5, <2>1
  <2>2. CASE g \in free /\ g # f
    BY <2>2
  <2>3. CASE \E d \in fl : fr[d] = g
    BY <2>3
  <2>4. CASE \E u \in Clients : \E i \in 1 .. Len(ch[u]) : ch[u][i] = g
    BY <1>4, <2>4
  <2> QED BY <2>1, <2>2, <2>3, <2>4 DEF Placed
<1>7. ASSUME NEW u \in Clients, NEW i \in 1 .. Len(ch2[u])
      PROVE  ch2[u][i] \notin free \ {f} /\ \A d \in fl : fr[d] # ch2[u][i]
  <2>1. CASE i \in 1 .. Len(ch[u]) /\ ch2[u][i] = ch[u][i]
    BY <2>1 DEF Apart
  <2>2. CASE ch2[u][i] = f
    BY <2>2 DEF Apart
  <2> QED BY <1>3, <2>1, <2>2
<1>8. \A u, v \in Clients : \A i \in 1 .. Len(ch2[u]) : \A j \in 1 .. Len(ch2[v]) :
        ch2[u][i] = ch2[v][j] => u = v /\ i = j
  <2>1. \A u \in Clients : \A i \in 1 .. Len(ch[u]) : ch[u][i] # f
    BY DEF Apart
  <2>2. ASSUME NEW u \in Clients, NEW v \in Clients, NEW i \in 1 .. Len(ch2[u]), NEW j \in 1 .. Len(ch2[v]),
               ch2[u][i] = ch2[v][j]
        PROVE  u = v /\ i = j
    <3>1. CASE i \in 1 .. Len(ch[u]) /\ ch2[u][i] = ch[u][i]
      <4>1. j \in 1 .. Len(ch[v]) /\ ch2[v][j] = ch[v][j]
        BY <1>3, <2>1, <2>2, <3>1
      <4>2. ch[u][i] = ch[v][j] /\ i \in 1 .. Len(ch[u])
        BY <2>2, <3>1, <4>1
      <4>3. \A a, b \in Clients : \A k \in 1 .. Len(ch[a]) : \A l \in 1 .. Len(ch[b]) :
              ch[a][k] = ch[b][l] => a = b /\ k = l
        BY DEF Apart
      <4> HIDE DEF n
      <4> QED BY <4>1, <4>2, <4>3
    <3>2. CASE u = t /\ i = n + 1 /\ ch2[u][i] = f
      <4>1. v = t /\ j = n + 1
        BY <1>3, <2>1, <2>2, <3>2
      <4> QED BY <3>2, <4>1
    <3> QED BY <1>3, <3>1, <3>2
  <2> QED BY <2>2
<1>9. Placed(free \ {f}, ch2, fr, fl)
  BY <1>6 DEF Placed
<1>10. Apart(free \ {f}, ch2, fr, fl)
  BY <1>7, <1>8 DEF Apart
<1> QED BY <1>9, <1>10 DEF ch2

\* A whole chain to the free list.
LEMMA MoveDrop ==
  ASSUME NEW free, NEW ch \in [Clients -> Seq(TxFrags)], NEW fr, NEW fl,
         Placed(free, ch, fr, fl), Apart(free, ch, fr, fl), NEW t \in Clients
  PROVE  /\ Placed(free \cup Elems(ch[t]), [ch EXCEPT ![t] = <<>>], fr, fl)
         /\ Apart(free \cup Elems(ch[t]), [ch EXCEPT ![t] = <<>>], fr, fl)
<1> DEFINE ch2 == [ch EXCEPT ![t] = <<>>]
           E == Elems(ch[t])
<1>1. Len(ch2[t]) = 0 /\ \A u \in Clients : u # t => ch2[u] = ch[u]
  OBVIOUS
<1>2. \A f : f \in E <=> \E i \in 1 .. Len(ch[t]) : ch[t][i] = f
  BY DEF Elems
<1> HIDE DEF ch2, E
<1>3. \A u \in Clients : \A i \in 1 .. Len(ch2[u]) : u # t /\ i \in 1 .. Len(ch[u]) /\ ch2[u][i] = ch[u][i]
  BY <1>1
<1>4. Placed(free \cup E, ch2, fr, fl)
  BY <1>1, <1>2 DEF Placed
<1>5. \A d \in fl : fr[d] \in TxFrags \ (free \cup E)
  BY <1>2 DEF Apart
<1>6. ASSUME NEW u \in Clients, NEW i \in 1 .. Len(ch2[u])
      PROVE  ch2[u][i] \notin free \cup E /\ \A d \in fl : fr[d] # ch2[u][i]
  <2>1. u # t /\ i \in 1 .. Len(ch[u]) /\ ch2[u][i] = ch[u][i]
    BY <1>3
  <2>2. ch[u][i] \notin E
    BY <1>2, <2>1 DEF Apart
  <2> QED BY <2>1, <2>2 DEF Apart
<1>7. \A u, v \in Clients : \A i \in 1 .. Len(ch2[u]) : \A j \in 1 .. Len(ch2[v]) :
        ch2[u][i] = ch2[v][j] => u = v /\ i = j
  BY <1>3 DEF Apart
<1> QED BY <1>4, <1>5, <1>6, <1>7 DEF Apart, ch2, E

\* A transmitted fragment from its descriptor to the free list.
LEMMA MoveClean ==
  ASSUME NEW free, NEW ch \in [Clients -> Seq(TxFrags)], NEW fr, NEW fl,
         Placed(free, ch, fr, fl), Apart(free, ch, fr, fl), NEW x \in fl
  PROVE  /\ Placed(free \cup {fr[x]}, ch, fr, fl \ {x})
         /\ Apart(free \cup {fr[x]}, ch, fr, fl \ {x})
         /\ fr[x] \in TxFrags \ free
BY DEF Placed, Apart

\* A chain onto descriptors that are not in flight.
LEMMA MoveSend ==
  ASSUME NEW free, NEW ch \in [Clients -> Seq(TxFrags)], NEW fr, NEW fl,
         Placed(free, ch, fr, fl), Apart(free, ch, fr, fl), NEW t \in Clients,
         NEW new, NEW slot, NEW fr2,
         \A d \in fl : d \notin new /\ fr2[d] = fr[d],
         \A d \in new : slot[d] \in 1 .. Len(ch[t]) /\ fr2[d] = ch[t][slot[d]],
         \A d, e \in new : slot[d] = slot[e] => d = e,
         \A i \in 1 .. Len(ch[t]) : \E d \in new : slot[d] = i
  PROVE  /\ Placed(free, [ch EXCEPT ![t] = <<>>], fr2, fl \cup new)
         /\ Apart(free, [ch EXCEPT ![t] = <<>>], fr2, fl \cup new)
<1> DEFINE ch2 == [ch EXCEPT ![t] = <<>>]
<1>1. Len(ch2[t]) = 0 /\ \A u \in Clients : u # t => ch2[u] = ch[u]
  OBVIOUS
<1> HIDE DEF ch2
<1>2. \A u \in Clients : \A i \in 1 .. Len(ch2[u]) : u # t /\ i \in 1 .. Len(ch[u]) /\ ch2[u][i] = ch[u][i]
  BY <1>1
<1>3. \A i \in 1 .. Len(ch[t]) : ch[t][i] \in TxFrags
  OBVIOUS
<1>4. Placed(free, ch2, fr2, fl \cup new)
  <2>1. ASSUME NEW g \in TxFrags
        PROVE  \/ g \in free
               \/ \E u \in Clients : \E i \in 1 .. Len(ch2[u]) : ch2[u][i] = g
               \/ \E d \in fl \cup new : fr2[d] = g
    <3>1. CASE \E d \in fl : fr[d] = g
      BY <3>1
    <3>2. CASE \E u \in Clients : \E i \in 1 .. Len(ch[u]) : ch[u][i] = g
      <4>1. PICK u \in Clients : \E i \in 1 .. Len(ch[u]) : ch[u][i] = g
        BY <3>2
      <4>2. CASE u = t
        BY <4>1, <4>2
      <4>3. CASE u # t
        BY <1>1, <4>1, <4>3
      <4> QED BY <4>2, <4>3
    <3> QED BY <3>1, <3>2 DEF Placed
  <2> QED BY <2>1 DEF Placed
<1>5. \A d \in fl \cup new : fr2[d] \in TxFrags \ free
  BY <1>3 DEF Apart
<1>6. \A d, e \in fl \cup new : fr2[d] = fr2[e] => d = e
  BY DEF Apart
<1>7. ASSUME NEW u \in Clients, NEW i \in 1 .. Len(ch2[u])
      PROVE  ch2[u][i] \notin free /\ \A d \in fl \cup new : fr2[d] # ch2[u][i]
  <2>1. u # t /\ i \in 1 .. Len(ch[u]) /\ ch2[u][i] = ch[u][i]
    BY <1>2
  <2>2. \A d \in new : fr2[d] # ch[u][i]
    BY <2>1 DEF Apart
  <2> QED BY <2>1, <2>2 DEF Apart
<1>8. \A u, v \in Clients : \A i \in 1 .. Len(ch2[u]) : \A j \in 1 .. Len(ch2[v]) :
        ch2[u][i] = ch2[v][j] => u = v /\ i = j
  BY <1>2 DEF Apart
<1> QED BY <1>4, <1>5, <1>6, <1>7, <1>8 DEF Apart, ch2

-----------------------------------------------------------------------------
(* The transmit side keeps its invariant, conjunct by conjunct.            *)


\* Tasks that have a unit of the semaphore, or bring one.
Owed == {u \in Clients : txPc[u] \in {"take", "post"}}

\* The first waiter, whom a post hands its unit to.
LEMMA FirstWaiter ==
  ASSUME TxOK, TxWaiters, semQueue # <<>>
  PROVE  /\ Head(semQueue) \in Clients /\ txPc[Head(semQueue)] = "blocked"
         /\ Tail(semQueue) \in Seq(Clients)
         /\ \A i \in 1 .. Len(Tail(semQueue)) :
              i + 1 \in 1 .. Len(semQueue) /\ Tail(semQueue)[i] = semQueue[i + 1]
         /\ \A i \in 1 .. Len(Tail(semQueue)) : Tail(semQueue)[i] # Head(semQueue)
<1>1. semQueue \in Seq(Clients) /\ Len(semQueue) \in Nat /\ Len(semQueue) >= 1
  BY DEF TxOK
<1>2. Head(semQueue) = semQueue[1] /\ 1 \in 1 .. Len(semQueue) /\ Head(semQueue) \in Clients
  BY <1>1
<1>3. /\ Tail(semQueue) \in Seq(Clients)
      /\ \A i \in 1 .. Len(Tail(semQueue)) :
           i + 1 \in 1 .. Len(semQueue) /\ i + 1 # 1 /\ Tail(semQueue)[i] = semQueue[i + 1]
  BY <1>1, HeadTailProperties
<1> QED BY <1>1, <1>2, <1>3 DEF TxWaiters

\* Who goes where in a post.
LEMMA PostPc ==
  ASSUME TxOK, TxWaiters, NEW t \in Clients, NEW next \in {"idle", "clean"},
         txPc[t] \in {"clean", "post"}, PostBy(t, next)
  PROVE  /\ txPc' \in [Clients -> TxPlace]
         /\ \A u \in Clients : txPc'[u] = IF u = t THEN next
              ELSE IF semQueue # <<>> /\ u = Head(semQueue) THEN "take" ELSE txPc[u]
         /\ semQueue' \in Seq(Clients) /\ semCount' \in Nat
<1>1. txPc \in [Clients -> TxPlace] /\ semCount \in Nat /\ semQueue \in Seq(Clients)
  BY DEF TxOK, TxPlace
<1>2. CASE semQueue # <<>>
  BY <1>1, <1>2, FirstWaiter DEF PostBy, TxPlace
<1>3. CASE semQueue = <<>>
  BY <1>1, <1>3 DEF PostBy, GoTo, TxPlace
<1> QED BY <1>2, <1>3

\* Waiters stay blocked and queued once.
LEMMA PostWaiters ==
  ASSUME TxOK, TxWaiters, NEW t \in Clients, NEW next \in {"idle", "clean"},
         txPc[t] \in {"clean", "post"}, PostBy(t, next)
  PROVE  TxWaiters'
<1>1. semQueue \in Seq(Clients) /\ \A i \in 1 .. Len(semQueue) : semQueue[i] \in Clients
  BY DEF TxOK
<1>2. CASE semQueue # <<>>
  <2>1. semQueue' = Tail(semQueue) /\ semQueue' \in Seq(Clients) /\ Len(semQueue') \in Nat
    BY <1>2, FirstWaiter DEF PostBy
  <2>2. \A i \in 1 .. Len(semQueue') :
          /\ i + 1 \in 1 .. Len(semQueue) /\ semQueue'[i] = semQueue[i + 1]
          /\ semQueue'[i] # Head(semQueue)
    BY <1>2, <2>1, FirstWaiter
  <2>3. ASSUME NEW i \in 1 .. Len(semQueue') PROVE txPc'[semQueue'[i]] = "blocked"
    <3>1. semQueue'[i] \in Clients /\ txPc[semQueue'[i]] = "blocked"
      BY <1>1, <2>2 DEF TxWaiters
    <3>2. \A u \in Clients : txPc'[u] = IF u = t THEN next
              ELSE IF semQueue # <<>> /\ u = Head(semQueue) THEN "take" ELSE txPc[u]
      BY PostPc
    <3>3. semQueue'[i] # Head(semQueue) /\ semQueue'[i] # t
      BY <2>2, <3>1
    <3> QED BY <3>1, <3>2, <3>3
  <2>4. ASSUME NEW i \in 1 .. Len(semQueue'), NEW j \in 1 .. Len(semQueue'), semQueue'[i] = semQueue'[j]
        PROVE  i = j
    <3>1. i + 1 = j + 1
      BY <2>2, <2>4 DEF TxWaiters
    <3> QED BY <3>1
  <2> QED BY <2>3, <2>4 DEF TxWaiters
<1>3. CASE semQueue = <<>>
  BY <1>3 DEF PostBy, TxWaiters
<1> QED BY <1>2, <1>3

\* A post brings one unit.
LEMMA PostBrings ==
  ASSUME TxOK, TxWaiters, NEW t \in Clients, NEW next \in {"idle", "clean"},
         txPc[t] \in {"clean", "post"}, PostBy(t, next)
  PROVE  semCount' + Cardinality(Owed') = semCount + Cardinality(Owed \ {t}) + 1
<1>1. IsFiniteSet(Owed \ {t}) /\ Cardinality(Owed \ {t}) \in Nat
  BY TxAssumption, FS_Subset, FS_CardinalityType DEF Owed
<1>2. semCount \in Nat
  BY DEF TxOK
<1>3. CASE semQueue # <<>>
  <2> DEFINE h == Head(semQueue)
  <2>1. h \in Clients /\ h \notin Owed \ {t} /\ h # t
    BY <1>3, FirstWaiter DEF Owed
  <2>2. Owed' = (Owed \ {t}) \cup {h}
    BY <1>3, <2>1, PostPc DEF Owed
  <2>3. Cardinality((Owed \ {t}) \cup {h}) = Cardinality(Owed \ {t}) + 1
    BY <1>1, <2>1, FS_AddElement
  <2> QED BY <1>1, <1>2, <1>3, <2>2, <2>3 DEF PostBy
<1>4. CASE semQueue = <<>>
  <2>1. Owed' = Owed \ {t}
    BY <1>4, PostPc DEF Owed
  <2> QED BY <1>1, <1>2, <1>4, <2>1 DEF PostBy
<1> QED BY <1>3, <1>4

\* A send has room on the ring, and what it writes.
LEMMA SendFacts ==
  ASSUME TxInv, NEW t \in Clients, SendInstall(t)
  PROVE  /\ Len(txChain[t]) \in Nat /\ Len(txChain[t]) > 0
         /\ Dist(txClean, tswptr) + Len(txChain[t]) < TxDescriptors
         /\ Len(txChain[t]) < TxDescriptors
         /\ tswptr' \in Descs /\ txFrag' \in [Descs -> TxFrags \cup {NoFrag}]
<1>1. txChain[t] \in Seq(TxFrags) /\ txClean \in Descs /\ tswptr \in Descs
  BY DEF TxInv, TxOK
<1>2. Len(txChain[t]) \in Nat /\ Len(txChain[t]) > 0
  BY <1>1 DEF SendInstall
<1>3. Dist(txClean, tswptr) + Len(txChain[t]) < TxDescriptors
  <2>1. Dist(txClean, tswptr) + Len(txChain[t]) <= Cardinality(TxFrags)
    BY RoomToSend DEF TxInv
  <2>2. Dist(txClean, tswptr) \in 0 .. TxDescriptors - 1
    BY <1>1, DistIs
  <2> QED BY <1>2, <2>1, <2>2, RingSize, MoreDescriptors
<1>4. Len(txChain[t]) < TxDescriptors
  <2>1. Dist(txClean, tswptr) \in 0 .. TxDescriptors - 1
    BY <1>1, DistIs
  <2> QED BY <1>2, <1>3, <2>1, RingSize
<1>5. tswptr' \in Descs
  BY <1>1, <1>2, <1>4, AheadIs DEF SendInstall
<1>6. txFrag' \in [Descs -> TxFrags \cup {NoFrag}]
  <2>1. \A i \in 1 .. Len(txChain[t]) : txChain[t][i] \in TxFrags
    BY <1>1
  <2>2. txFrag \in [Descs -> TxFrags \cup {NoFrag}]
    BY DEF TxInv, TxOK
  <2> QED BY <2>1, <2>2 DEF SendInstall
<1> QED BY <1>2, <1>3, <1>4, <1>5, <1>6

\* Every step keeps the types.
LEMMA TxTypeStep ==
  ASSUME TxInv, [TxNext]_txVars, ~gtsLost'
  PROVE  TxOK'
<1> USE DEF TxInv
<1>0. ASSUME NEW t \in Clients, GetRingRes(t) \/ SendRestart(t) PROVE TxOK'
  BY <1>0 DEF GetRingRes, SendRestart, GoTo, TxOK, TxPlace, ctrlVars
<1>1. ASSUME NEW t \in Clients, FragAlloc(t) PROVE TxOK'
  <2>1. txPc \in [Clients -> TxPlace] /\ semCount \in Nat
    BY DEF TxOK
  <2>2. txPc' \in [Clients -> TxPlace]
    BY <1>1, <2>1 DEF FragAlloc, GoTo, TxPlace
  <2>3. semCount' \in Nat
    BY <1>1, <2>1 DEF FragAlloc
  <2> QED BY <1>1, <2>2, <2>3 DEF FragAlloc, TxOK, ctrlVars
<1>2. ASSUME NEW t \in Clients, RingClean(t) PROVE TxOK'
  <2>1. CASE CaughtUp
    BY <1>2, <2>1 DEF RingClean, GoTo, TxOK, TxPlace, ctrlVars
  <2>2. CASE ~CaughtUp
    <3>1. txClean' \in Descs
      BY <1>2, <2>2, SuccIs DEF RingClean, TxOK, ctrlVars
    <3>2. CASE txFrag[Succ(txClean)] # NoFrag
      <4>1. txFrag[Succ(txClean)] \in TxFrags
        BY <3>2, SuccIs DEF TxOK
      <4>2. txPc' \in [Clients -> TxPlace] /\ semQueue' \in Seq(Clients) /\ semCount' \in Nat
        <5>1. PostBy(t, "clean") /\ txPc[t] = "clean"
          BY <1>2, <2>2, <3>2 DEF RingClean, At
        <5> QED BY <5>1, PostPc
      <4> QED BY <1>2, <2>2, <3>1, <3>2, <4>1, <4>2 DEF RingClean, TxOK, ctrlVars
    <3>3. CASE txFrag[Succ(txClean)] = NoFrag
      BY <1>2, <2>2, <3>1, <3>3 DEF RingClean, TxOK, ctrlVars
    <3> QED BY <3>2, <3>3
  <2> QED BY <2>1, <2>2
<1>3. ASSUME NEW t \in Clients, FragWait(t) PROVE TxOK'
  <2>1. txPc \in [Clients -> TxPlace] /\ semCount \in Nat /\ semQueue \in Seq(Clients)
    BY DEF TxOK
  <2>2. txPc' \in [Clients -> TxPlace]
    BY <1>3, <2>1 DEF FragWait, GoTo, TxPlace
  <2>3. semCount' \in Nat /\ semQueue' \in Seq(Clients)
    BY <1>3, <2>1, AppendProperties DEF FragWait
  <2> QED BY <1>3, <2>2, <2>3 DEF FragWait, TxOK, ctrlVars
<1>4. ASSUME NEW t \in Clients, FragTake(t) PROVE TxOK'
  <2>1. PICK f \in IF freeFrags = {} THEN {NoFrag} ELSE freeFrags :
          /\ freeFrags' = freeFrags \ {f}
          /\ txChain' = [txChain EXCEPT ![t] = IF f = NoFrag THEN @ ELSE Append(@, f)]
    BY <1>4 DEF FragTake
  <2>2. f \in TxFrags \/ f = NoFrag
    BY DEF TxOK
  <2>3. txChain' \in [Clients -> Seq(TxFrags)] /\ freeFrags' \in SUBSET TxFrags
    BY <2>1, <2>2, AppendProperties DEF TxOK
  <2> QED BY <1>4, <2>3 DEF FragTake, GoTo, TxOK, TxPlace, ctrlVars
<1>5. ASSUME NEW t \in Clients, SendDrop(t) PROVE TxOK'
  <2>1. Elems(txChain[t]) \subseteq TxFrags
    BY DEF TxOK, Elems
  <2>2. txChain' \in [Clients -> Seq(TxFrags)]
    BY <1>5 DEF SendDrop, TxOK
  <2> QED BY <1>5, <2>1, <2>2 DEF SendDrop, GoTo, TxOK, TxPlace, ctrlVars
<1>6. ASSUME NEW t \in Clients, FragPost(t) PROVE TxOK'
  <2>1. txPc' \in [Clients -> TxPlace] /\ semQueue' \in Seq(Clients) /\ semCount' \in Nat
    <3>1. PostBy(t, "idle") /\ txPc[t] = "post"
      BY <1>6 DEF FragPost, At
    <3> QED BY <3>1, PostPc
  <2> QED BY <1>6, <2>1 DEF FragPost, TxOK, ctrlVars
<1>7. ASSUME NEW t \in Clients, SendInstall(t) PROVE TxOK'
  <2>1. tswptr' \in Descs /\ txFrag' \in [Descs -> TxFrags \cup {NoFrag}]
    BY <1>7, SendFacts
  <2>2. txChain' \in [Clients -> Seq(TxFrags)] /\ firstBd' \in [Clients -> Descs]
    BY <1>7, SuccIs DEF SendInstall, TxOK
  <2> QED BY <1>7, <2>1, <2>2 DEF SendInstall, GoTo, TxOK, TxPlace, ctrlVars
<1>8. ASSUME NEW t \in Clients, SendKick(t) PROVE TxOK'
  BY <1>8 DEF SendKick, GoTo, TxOK, TxPlace, StoppedBefore, ctrlVars
<1>9. CASE Transmit
  BY <1>9, SuccIs DEF Transmit, TxOK, ctrlVars
<1>10. CASE RxReadsCtrl \/ RxWritesCtrl \/ LinkLost \/ LinkNegotiated \/ UNCHANGED txVars
  BY <1>10 DEF RxReadsCtrl, ReadGts, RxWritesCtrl, WriteBackGts, LinkLost, LinkNegotiated,
         LinkTo, txVars, TxOK, ctrlVars
<1> QED BY <1>0, <1>1, <1>2, <1>3, <1>4, <1>5, <1>6, <1>7, <1>8, <1>9, <1>10 DEF TxNext, ClientStep

\* Every step keeps the waiters blocked, each queued once.
LEMMA TxWaitersStep ==
  ASSUME TxInv, [TxNext]_txVars, ~gtsLost'
  PROVE  TxWaiters'
<1> USE DEF TxInv
<1>0. semQueue \in Seq(Clients) /\ \A i \in 1 .. Len(semQueue) : semQueue[i] \in Clients
  BY DEF TxOK
<1>1. ASSUME NEW t \in Clients, FragAlloc(t) \/ GetRingRes(t) \/ FragTake(t) \/ SendDrop(t)
                                \/ SendInstall(t) \/ SendKick(t) \/ SendRestart(t)
      PROVE TxWaiters'
  <2>1. /\ txPc[t] # "blocked" /\ semQueue' = semQueue
        /\ \A u \in Clients : u # t => txPc'[u] = txPc[u]
    BY <1>1 DEF FragAlloc, GetRingRes, FragTake, SendDrop, SendInstall, SendKick,
         SendRestart, GoTo, At, TxOK
  <2>2. \A i \in 1 .. Len(semQueue) : semQueue[i] # t
    BY <1>0, <2>1 DEF TxWaiters
  <2> QED BY <1>0, <2>1, <2>2 DEF TxWaiters
<1>2. ASSUME NEW t \in Clients, RingClean(t) PROVE TxWaiters'
  <2>1. CASE ~CaughtUp /\ txFrag[Succ(txClean)] # NoFrag
    <3>1. PostBy(t, "clean") /\ txPc[t] = "clean"
      BY <1>2, <2>1 DEF RingClean, At
    <3> QED BY <3>1, PostWaiters
  <2>2. CASE ~(~CaughtUp /\ txFrag[Succ(txClean)] # NoFrag)
    <3>1. /\ txPc[t] # "blocked" /\ semQueue' = semQueue
          /\ \A u \in Clients : u # t => txPc'[u] = txPc[u]
      BY <1>2, <2>2 DEF RingClean, GoTo, At, TxOK
    <3>2. \A i \in 1 .. Len(semQueue) : semQueue[i] # t
      BY <1>0, <3>1 DEF TxWaiters
    <3> QED BY <1>0, <3>1, <3>2 DEF TxWaiters
  <2> QED BY <2>1, <2>2
<1>3. ASSUME NEW t \in Clients, FragWait(t) PROVE TxWaiters'
  <2>1. /\ txPc[t] # "blocked"
        /\ \A u \in Clients : u # t => txPc'[u] = txPc[u]
    BY <1>3 DEF FragWait, GoTo, At, TxOK
  <2>2. \A i \in 1 .. Len(semQueue) : semQueue[i] # t
    BY <1>0, <2>1 DEF TxWaiters
  <2>3. CASE semCount > 0
    BY <1>0, <1>3, <2>1, <2>2, <2>3 DEF FragWait, TxWaiters
  <2>4. CASE ~(semCount > 0)
    <3>1. semQueue' = Append(semQueue, t) /\ txPc'[t] = "blocked"
      BY <1>3, <2>4 DEF FragWait, GoTo, TxOK
    <3>2. /\ Len(semQueue) \in Nat /\ Len(semQueue') = Len(semQueue) + 1
          /\ \A i \in 1 .. Len(semQueue') :
               semQueue'[i] = IF i = Len(semQueue) + 1 THEN t ELSE semQueue[i]
      BY <1>0, <3>1, AppendProperties
    <3>3. \A i \in 1 .. Len(semQueue') : i = Len(semQueue) + 1 \/ i \in 1 .. Len(semQueue)
      BY <3>2
    <3>4. \A i \in 1 .. Len(semQueue') : txPc'[semQueue'[i]] = "blocked"
      BY <1>0, <2>1, <2>2, <3>1, <3>2, <3>3 DEF TxWaiters
    <3>5. \A i, j \in 1 .. Len(semQueue') : semQueue'[i] = semQueue'[j] => i = j
      BY <2>2, <3>2, <3>3 DEF TxWaiters
    <3> QED BY <3>4, <3>5 DEF TxWaiters
  <2> QED BY <2>3, <2>4
<1>4. ASSUME NEW t \in Clients, FragPost(t) PROVE TxWaiters'
  <2>1. PostBy(t, "idle") /\ txPc[t] = "post"
    BY <1>4 DEF FragPost, At
  <2> QED BY <2>1, PostWaiters
<1>5. CASE Transmit \/ RxReadsCtrl \/ RxWritesCtrl \/ LinkLost \/ LinkNegotiated
          \/ UNCHANGED txVars
  BY <1>5 DEF Transmit, RxReadsCtrl, ReadGts, RxWritesCtrl, WriteBackGts, LinkLost,
         LinkNegotiated, LinkTo, txVars, TxWaiters
<1> QED BY <1>1, <1>2, <1>3, <1>4, <1>5 DEF TxNext, ClientStep

\* The cleaner never passes the DMA, nor the DMA TSWPTR.
LEMMA TxOrderStep ==
  ASSUME TxInv, [TxNext]_txVars, ~gtsLost'
  PROVE  TxOrder'
<1> USE DEF TxInv
<1>0. /\ txClean \in Descs /\ tbdptr \in Descs /\ tswptr \in Descs
      /\ Succ(txClean) \in Descs /\ Succ(tbdptr) \in Descs
  BY SuccIs DEF TxOK
<1>1. ASSUME NEW t \in Clients, RingClean(t) PROVE TxOrder'
  <2>1. CASE CaughtUp
    BY <1>1, <2>1 DEF RingClean, TxOrder
  <2>2. CASE ~CaughtUp
    <3>1. txClean' = Succ(txClean) /\ tbdptr' = tbdptr /\ tswptr' = tswptr
      BY <1>1, <2>2 DEF RingClean
    <3>2. tbdptr # Succ(txClean)
      BY <2>2 DEF CaughtUp
    <3>3. Dist(Succ(txClean), tbdptr) > 0
      <4>1. Dist(Succ(txClean), tbdptr) = Gap(TxDescriptors, Succ(txClean), tbdptr)
        BY <1>0, DistIs
      <4> QED BY <1>0, <3>2, <4>1, RingSize DEF Descs, Gap
    <3>4. /\ Dist(txClean, tswptr) \in Nat /\ Dist(Succ(txClean), tbdptr) \in Nat
      BY <1>0, DistIs
    <3>5. Dist(txClean, tswptr) > 0
      BY <3>3, <3>4 DEF TxOrder
    <3>6. Dist(Succ(txClean), tswptr) = Dist(txClean, tswptr) - 1
      BY <1>0, <3>5, FlyClean
    <3>7. Dist(Succ(Succ(txClean)), tbdptr) = Dist(Succ(txClean), tbdptr) - 1
      BY <1>0, <3>3, FlyClean
    <3> QED BY <3>1, <3>4, <3>6, <3>7 DEF TxOrder
  <2> QED BY <2>1, <2>2
<1>2. ASSUME NEW t \in Clients, SendInstall(t) PROVE TxOrder'
  <2>1. /\ Len(txChain[t]) \in Nat /\ Dist(txClean, tswptr) + Len(txChain[t]) < TxDescriptors
        /\ tswptr' = (tswptr + Len(txChain[t])) % TxDescriptors
        /\ txClean' = txClean /\ tbdptr' = tbdptr
    BY <1>2, SendFacts DEF SendInstall
  <2>2. Dist(txClean, tswptr') = Dist(txClean, tswptr) + Len(txChain[t])
    BY <1>0, <2>1, FlySend
  <2>3. Dist(txClean, tswptr) \in Nat /\ Dist(Succ(txClean), tbdptr) \in Nat
    BY <1>0, DistIs
  <2> QED BY <2>1, <2>2, <2>3 DEF TxOrder
<1>3. CASE Transmit
  <2>1. tbdptr # Succ(tswptr)
    <3>1. ~gts
      BY <1>3 DEF Transmit
    <3>2. ~gtsLost
      BY DEF TxOK
    <3> QED BY <3>1, <3>2 DEF TransmitterRuns, TxKick
  <2> DEFINE b == Dist(Succ(txClean), tbdptr)
             F == Dist(txClean, tswptr)
  <2>2. /\ b = Gap(TxDescriptors, Succ(txClean), tbdptr)
        /\ F = Gap(TxDescriptors, txClean, tswptr)
        /\ Dist(Succ(txClean), Succ(tbdptr)) = Gap(TxDescriptors, Succ(txClean), Succ(tbdptr))
    BY <1>0, DistIs
  <2>3. /\ Succ(txClean) = IF txClean + 1 = TxDescriptors THEN 0 ELSE txClean + 1
        /\ Succ(tbdptr) = IF tbdptr + 1 = TxDescriptors THEN 0 ELSE tbdptr + 1
        /\ Succ(tswptr) = IF tswptr + 1 = TxDescriptors THEN 0 ELSE tswptr + 1
    BY <1>0, SuccIs
  <2>4. b <= F
    BY DEF TxOrder
  <2>5. Dist(Succ(txClean), Succ(tbdptr)) <= F
    BY <1>0, <2>1, <2>2, <2>3, <2>4, RingSize DEF Gap, Descs
  <2> QED BY <1>3, <2>5 DEF Transmit, TxOrder
<1>4. ASSUME NEW t \in Clients, FragAlloc(t) \/ GetRingRes(t) \/ FragWait(t) \/ FragTake(t)
                                \/ SendDrop(t) \/ FragPost(t) \/ SendKick(t) \/ SendRestart(t)
      PROVE TxOrder'
  BY <1>4 DEF FragAlloc, GetRingRes, FragWait, FragTake, SendDrop, FragPost, SendKick,
       SendRestart, TxOrder
<1>5. CASE RxReadsCtrl \/ RxWritesCtrl \/ LinkLost \/ LinkNegotiated \/ UNCHANGED txVars
  BY <1>5 DEF RxReadsCtrl, ReadGts, RxWritesCtrl, WriteBackGts, LinkLost, LinkNegotiated,
         LinkTo, txVars, TxOrder
<1> QED BY <1>1, <1>2, <1>3, <1>4, <1>5 DEF TxNext, ClientStep

\* A client is inside a send exactly while it has interrupts suspended.
LEMMA KickOwnerStep ==
  ASSUME TxInv, [TxNext]_txVars, ~gtsLost'
  PROVE  KickOwner'
<1> USE DEF TxInv
<1> DEFINE Inside == {"kick", "restart"}
<1>0. KickOwner /\ NoTask \notin Clients /\ "receive" \notin Clients /\ NoTask # "receive"
  BY TxAssumption DEF TxKick
<1>1. ASSUME NEW t \in Clients,
             FragAlloc(t) \/ GetRingRes(t) \/ FragWait(t) \/ FragTake(t) \/ SendDrop(t)
      PROVE KickOwner'
  <2>1. /\ txPc[t] \notin Inside /\ txPc'[t] \notin Inside /\ irqOff' = irqOff
        /\ \A u \in Clients : u # t => txPc'[u] = txPc[u]
    BY <1>1 DEF FragAlloc, GetRingRes, FragWait, FragTake, SendDrop, GoTo, At, TxOK
  <2> QED BY <1>0, <2>1 DEF KickOwner
<1>2. ASSUME NEW t \in Clients, NEW next \in {"idle", "clean"}, PostBy(t, next),
             txPc[t] \in {"clean", "post"}, irqOff' = irqOff
      PROVE KickOwner'
  <2>1. \A u \in Clients : txPc'[u] = IF u = t THEN next
              ELSE IF semQueue # <<>> /\ u = Head(semQueue) THEN "take" ELSE txPc[u]
    BY <1>2, PostPc
  <2>2. semQueue # <<>> => txPc[Head(semQueue)] = "blocked"
    BY FirstWaiter
  <2>3. \A u \in Clients : txPc'[u] \in Inside <=> txPc[u] \in Inside
    BY <1>2, <2>1, <2>2
  <2> QED BY <1>0, <1>2, <2>3 DEF KickOwner
<1>3. ASSUME NEW t \in Clients, RingClean(t) PROVE KickOwner'
  <2>1. CASE ~CaughtUp /\ txFrag[Succ(txClean)] # NoFrag
    BY <1>2, <1>3, <2>1 DEF RingClean, At
  <2>2. CASE ~(~CaughtUp /\ txFrag[Succ(txClean)] # NoFrag)
    <3>1. /\ txPc[t] \notin Inside /\ txPc'[t] \notin Inside /\ irqOff' = irqOff
          /\ \A u \in Clients : u # t => txPc'[u] = txPc[u]
      BY <1>3, <2>2 DEF RingClean, GoTo, At, TxOK
    <3> QED BY <1>0, <3>1 DEF KickOwner
  <2> QED BY <2>1, <2>2
<1>4. ASSUME NEW t \in Clients, FragPost(t) PROVE KickOwner'
  BY <1>2, <1>4 DEF FragPost, At
<1>5. ASSUME NEW t \in Clients, SendInstall(t) PROVE KickOwner'
  <2>1. irqOff = NoTask
    BY <1>0, <1>5 DEF SendInstall, At, Runs, KickOwner
  <2>2. /\ txPc'[t] = "kick" /\ irqOff' = t
        /\ \A u \in Clients : u # t => txPc'[u] = txPc[u]
    BY <1>5 DEF SendInstall, GoTo, TxOK
  <2> QED BY <1>0, <2>1, <2>2 DEF KickOwner
<1>6. ASSUME NEW t \in Clients, SendKick(t) \/ SendRestart(t) PROVE KickOwner'
  <2>1. irqOff = t
    BY <1>0, <1>6 DEF SendKick, SendRestart, At, KickOwner
  <2>2. /\ \/ txPc'[t] = "idle" /\ irqOff' = NoTask
           \/ txPc'[t] = "restart" /\ irqOff' = irqOff
        /\ \A u \in Clients : u # t => txPc'[u] = txPc[u]
    BY <1>6 DEF SendKick, SendRestart, GoTo, TxOK
  <2> QED BY <1>0, <2>1, <2>2 DEF KickOwner
<1>7. CASE RxReadsCtrl
  <2>1. irqOff = NoTask /\ irqOff' = "receive" /\ txPc' = txPc
    BY <1>7 DEF RxReadsCtrl, ReadGts
  <2> QED BY <1>0, <2>1 DEF KickOwner
<1>8. CASE RxWritesCtrl
  <2>1. irqOff = "receive" /\ irqOff' = NoTask /\ txPc' = txPc
    BY <1>8 DEF RxWritesCtrl, WriteBackGts
  <2> QED BY <1>0, <2>1 DEF KickOwner
<1>9. CASE Transmit \/ LinkLost \/ LinkNegotiated \/ UNCHANGED txVars
  BY <1>0, <1>9 DEF Transmit, LinkLost, LinkNegotiated, LinkTo, txVars, KickOwner
<1> QED BY <1>1, <1>3, <1>4, <1>5, <1>6, <1>7, <1>8, <1>9 DEF TxNext, ClientStep

\* A stopped DMA has nothing left to send, or the send under way sees it.
LEMMA TxRunStep ==
  ASSUME TxInv, [TxNext]_txVars, ~gtsLost'
  PROVE  TxKick' /\ TransmitterRuns'
<1> USE DEF TxInv
<1>0. /\ tbdptr \in Descs /\ tswptr \in Descs /\ Succ(tswptr) \in Descs
      /\ irqOff \in Clients \cup {NoTask, "receive"} /\ NoTask \notin Clients
      /\ "receive" \notin Clients /\ NoTask # "receive"
      /\ gts \in BOOLEAN /\ gtsRead \in BOOLEAN /\ ~gtsLost
  BY SuccIs, TxAssumption DEF TxOK
<1>1. KickOwner'
  BY KickOwnerStep
<1>2. ASSUME UNCHANGED <<tbdptr, tswptr, gts, irqOff, firstBd, gtsRead>>,
             \A u \in Clients : txPc'[u] = "restart" => txPc[u] = "restart"
      PROVE  TxKick' /\ TransmitterRuns'
  <2>1. TransmitterRuns'
    BY <1>0, <1>2 DEF TransmitterRuns, Succ
  <2> QED BY <1>1, <1>2, <2>1 DEF TxKick, Succ
<1>3. ASSUME NEW t \in Clients, SendInstall(t) PROVE TxKick' /\ TransmitterRuns'
  <2> DEFINE n == Len(txChain[t])
  <2>1. /\ n \in Nat /\ n > 0 /\ n < TxDescriptors /\ Dist(txClean, tswptr) + n < TxDescriptors
        /\ tswptr' = (tswptr + n) % TxDescriptors /\ tswptr' \in Descs
        /\ firstBd'[t] = Succ(tswptr) /\ irqOff' = t /\ gts' = gts /\ tbdptr' = tbdptr
        /\ txPc'[t] = "kick"
    BY <1>3, SendFacts DEF SendInstall, TxOK, GoTo
  <2> HIDE DEF n
  <2>2. tswptr' = IF tswptr + n < TxDescriptors THEN tswptr + n ELSE tswptr + n - TxDescriptors
    BY <1>0, <2>1, AheadIs
  <2>3. irqOff = NoTask
    BY <1>0, <1>3 DEF SendInstall, At, Runs, TxKick, KickOwner
  <2>4. gts <=> tbdptr = Succ(tswptr)
    BY <1>0, <2>3 DEF TransmitterRuns
  <2>5. /\ Succ(tswptr) = IF tswptr + 1 = TxDescriptors THEN 0 ELSE tswptr + 1
        /\ Succ(tswptr') = IF tswptr' + 1 = TxDescriptors THEN 0 ELSE tswptr' + 1
    BY <1>0, <2>1, SuccIs
  <2>6. firstBd'[t] # Succ(tswptr')
    BY <1>0, <2>1, <2>2, <2>5, RingSize DEF Descs
  <2>7. tbdptr = Succ(tswptr') => tbdptr = Succ(tswptr)
    <3>1. txClean \in Descs /\ Succ(txClean) \in Descs
      BY SuccIs DEF TxOK
    <3>2. /\ Dist(Succ(txClean), tbdptr) = Gap(TxDescriptors, Succ(txClean), tbdptr)
          /\ Dist(txClean, tswptr) = Gap(TxDescriptors, txClean, tswptr)
          /\ Succ(txClean) = IF txClean + 1 = TxDescriptors THEN 0 ELSE txClean + 1
      BY <1>0, <3>1, DistIs, SuccIs
    <3>3. Dist(Succ(txClean), tbdptr) <= Dist(txClean, tswptr)
      BY DEF TxOrder
    <3> QED BY <1>0, <2>1, <2>2, <2>5, <3>1, <3>2, <3>3, RingSize DEF Descs, Gap
  <2>8. /\ gts => tbdptr = firstBd'[t] \/ tbdptr = Succ(tswptr')
        /\ tbdptr = Succ(tswptr') => gts
    BY <2>1, <2>4, <2>7
  <2>9. TxKick'
    BY <1>0, <1>1, <2>1, <2>6, <2>8 DEF TxKick, Succ
  <2>10. TransmitterRuns'
    BY <1>0, <2>1 DEF TransmitterRuns
  <2> QED BY <2>9, <2>10
<1>4. ASSUME NEW t \in Clients, SendKick(t) PROVE TxKick' /\ TransmitterRuns'
  <2>1. irqOff = t /\ txPc \in [Clients -> TxPlace]
    BY <1>4 DEF SendKick, At, TxKick, KickOwner, TxOK
  <2>2. /\ gts' = gts /\ tbdptr' = tbdptr /\ tswptr' = tswptr /\ firstBd' = firstBd
        /\ Succ(tswptr') = Succ(tswptr)
    BY <1>4 DEF SendKick
  <2>3. CASE StoppedBefore(t)
    <3>1. irqOff' = t /\ gts /\ firstBd[t] = tbdptr
      BY <1>4, <2>1, <2>3 DEF SendKick, StoppedBefore
    <3>2. TransmitterRuns'
      BY <3>1 DEF TransmitterRuns
    <3> QED BY <1>0, <1>1, <2>1, <2>2, <3>1, <3>2 DEF TxKick
  <2>4. CASE ~StoppedBefore(t)
    <3>1. irqOff' = NoTask /\ ~(gts /\ firstBd[t] = tbdptr)
      BY <1>4, <2>4 DEF SendKick, StoppedBefore
    <3>2. gts <=> tbdptr = Succ(tswptr)
      BY <2>1, <3>1 DEF TxKick
    <3>3. TransmitterRuns'
      BY <2>2, <3>2 DEF TransmitterRuns
    <3> QED BY <1>0, <1>1, <3>1, <3>3 DEF TxKick
  <2> QED BY <2>3, <2>4
<1>8. ASSUME NEW t \in Clients, SendRestart(t) PROVE TxKick' /\ TransmitterRuns'
  <2>1. irqOff = t /\ txPc[t] = "restart"
    BY <1>8 DEF SendRestart, At, TxKick, KickOwner
  <2>2. gts' = FALSE /\ irqOff' = NoTask /\ tbdptr' = tbdptr /\ Succ(tswptr') = Succ(tswptr)
    BY <1>8 DEF SendRestart
  <2>3. tbdptr # Succ(tswptr)
    BY <2>1 DEF TxKick
  <2>4. TransmitterRuns'
    BY <2>2, <2>3 DEF TransmitterRuns
  <2> QED BY <1>0, <1>1, <2>2, <2>4 DEF TxKick
<1>9. CASE RxReadsCtrl
  <2>1. /\ irqOff = NoTask /\ irqOff' = "receive" /\ gtsRead' = gts /\ gts' = gts
        /\ tbdptr' = tbdptr /\ Succ(tswptr') = Succ(tswptr)
    BY <1>9 DEF RxReadsCtrl, ReadGts
  <2>2. TransmitterRuns'
    BY <1>0, <2>1 DEF TransmitterRuns
  <2> QED BY <1>0, <1>1, <2>1, <2>2 DEF TxKick
<1>10. CASE RxWritesCtrl
  <2>1. /\ irqOff = "receive" /\ irqOff' = NoTask /\ gts' = gtsRead /\ ~(gts /\ ~gtsRead)
        /\ tbdptr' = tbdptr /\ Succ(tswptr') = Succ(tswptr)
    BY <1>10 DEF RxWritesCtrl, WriteBackGts
  <2>2. gts' = gts
    BY <1>0, <2>1 DEF TxKick
  <2>3. TransmitterRuns'
    BY <1>0, <2>1, <2>2 DEF TransmitterRuns
  <2> QED BY <1>0, <1>1, <2>1, <2>3 DEF TxKick
<1>5. CASE Transmit
  <2>1. /\ tbdptr' = Succ(tbdptr) /\ gts' = (tbdptr = tswptr) /\ ~gts
        /\ irqOff' = irqOff /\ tswptr' = tswptr /\ firstBd' = firstBd
        /\ txPc' = txPc /\ gtsRead' = gtsRead
    BY <1>5 DEF Transmit, ctrlVars
  <2>2. Succ(tbdptr) = Succ(tswptr) <=> tbdptr = tswptr
    <3>1. /\ Succ(tswptr) = IF tswptr + 1 = TxDescriptors THEN 0 ELSE tswptr + 1
          /\ Succ(tbdptr) = IF tbdptr + 1 = TxDescriptors THEN 0 ELSE tbdptr + 1
      BY <1>0, SuccIs
    <3> QED BY <1>0, <3>1, RingSize DEF Descs
  <2>3. gts' <=> tbdptr' = Succ(tswptr)
    BY <2>1, <2>2
  <2>4. TransmitterRuns'
    BY <2>1, <2>3 DEF TransmitterRuns, Succ
  <2>5. TxKick'
    BY <1>1, <2>1, <2>3 DEF TxKick, Succ
  <2> QED BY <2>4, <2>5
<1>6. ASSUME NEW t \in Clients, FragAlloc(t) \/ GetRingRes(t) \/ RingClean(t) \/ FragWait(t)
                                \/ FragTake(t) \/ SendDrop(t) \/ FragPost(t)
      PROVE /\ UNCHANGED <<tbdptr, tswptr, gts, irqOff, firstBd, gtsRead>>
            /\ \A u \in Clients : txPc'[u] = "restart" => txPc[u] = "restart"
  <2>1. UNCHANGED <<tbdptr, tswptr, gts, irqOff, firstBd, gtsRead>>
    BY <1>6 DEF FragAlloc, GetRingRes, RingClean, FragWait, FragTake, SendDrop, FragPost, ctrlVars
  <2>3. txPc \in [Clients -> TxPlace]
    BY DEF TxOK
  <2>4. \A u \in Clients : txPc'[u] = "restart" => txPc[u] = "restart"
    BY <1>6, <2>3 DEF FragAlloc, GetRingRes, RingClean, FragWait, FragTake, SendDrop, FragPost,
         GoTo, PostBy
  <2> QED BY <2>1, <2>4
<1>7. CASE LinkLost \/ LinkNegotiated \/ UNCHANGED txVars
  BY <1>2, <1>7 DEF LinkLost, LinkNegotiated, LinkTo, txVars, ctrlVars
<1> QED BY <1>2, <1>3, <1>4, <1>5, <1>6, <1>7, <1>8, <1>9, <1>10 DEF TxNext, ClientStep

\* No step puts a fragment in two places, or loses one.
LEMMA TxPlacesStep ==
  ASSUME TxInv, [TxNext]_txVars, ~gtsLost'
  PROVE  TxPlaces'
<1> USE DEF TxInv
<1> DEFINE fl == Fly(txClean, tswptr)
<1>0. /\ Placed(freeFrags, txChain, txFrag, fl) /\ Apart(freeFrags, txChain, txFrag, fl)
      /\ txChain \in [Clients -> Seq(TxFrags)] /\ freeFrags \subseteq TxFrags
      /\ txClean \in Descs /\ tswptr \in Descs /\ tbdptr \in Descs
  BY DEF TxPlaces, TxOK
<1>1. TxPlaces' <=> /\ Placed(freeFrags', txChain', txFrag', Fly(txClean', tswptr'))
                    /\ Apart(freeFrags', txChain', txFrag', Fly(txClean', tswptr'))
  BY DEF TxPlaces, Placed, Apart, Fly, Dist, Descs
<1>2. CASE UNCHANGED <<freeFrags, txChain, txFrag, txClean, tswptr>>
  BY <1>0, <1>1, <1>2
<1>3. ASSUME NEW t \in Clients, RingClean(t) PROVE TxPlaces'
  <2>1. CASE CaughtUp
    BY <1>2, <1>3, <2>1 DEF RingClean
  <2>2. CASE ~CaughtUp
    <3>1. /\ txClean' = Succ(txClean) /\ tswptr' = tswptr /\ txFrag' = txFrag /\ txChain' = txChain
          /\ tbdptr # Succ(txClean)
          /\ txFrag[Succ(txClean)] # NoFrag => freeFrags' = freeFrags \cup {txFrag[Succ(txClean)]}
      BY <1>3, <2>2 DEF RingClean, CaughtUp
    <3>2. Dist(txClean, tswptr) > 0
      <4>1. Succ(txClean) \in Descs
        BY <1>0, SuccIs
      <4>2. Dist(Succ(txClean), tbdptr) = Gap(TxDescriptors, Succ(txClean), tbdptr)
        BY <1>0, <4>1, DistIs
      <4>3. Dist(Succ(txClean), tbdptr) > 0
        BY <1>0, <3>1, <4>1, <4>2, RingSize DEF Gap, Descs
      <4>4. Dist(Succ(txClean), tbdptr) \in Nat /\ Dist(txClean, tswptr) \in Nat
        BY <1>0, <4>1, DistIs
      <4> QED BY <4>3, <4>4 DEF TxOrder
    <3>3. /\ Succ(txClean) \in fl
          /\ Fly(txClean', tswptr') = fl \ {Succ(txClean)}
      BY <1>0, <3>1, <3>2, FlyClean
    <3> HIDE DEF fl
    <3>4. /\ Placed(freeFrags \cup {txFrag[Succ(txClean)]}, txChain, txFrag, fl \ {Succ(txClean)})
          /\ Apart(freeFrags \cup {txFrag[Succ(txClean)]}, txChain, txFrag, fl \ {Succ(txClean)})
          /\ txFrag[Succ(txClean)] \in TxFrags
      BY <1>0, <3>3, MoveClean
    <3>5. txFrag[Succ(txClean)] # NoFrag
      BY <3>4, TxAssumption
    <3> QED BY <1>1, <3>1, <3>3, <3>4, <3>5
  <2> QED BY <2>1, <2>2
<1>4. ASSUME NEW t \in Clients, FragTake(t) PROVE TxPlaces'
  <2>1. PICK f \in IF freeFrags = {} THEN {NoFrag} ELSE freeFrags :
          /\ freeFrags' = freeFrags \ {f}
          /\ txChain' = [txChain EXCEPT ![t] = IF f = NoFrag THEN @ ELSE Append(@, f)]
    BY <1>4 DEF FragTake
  <2>2. txFrag' = txFrag /\ txClean' = txClean /\ tswptr' = tswptr
    BY <1>4 DEF FragTake
  <2>3. CASE freeFrags = {}
    <3>1. freeFrags' = freeFrags /\ txChain' = txChain
      BY <1>0, <2>1, <2>3
    <3> QED BY <1>2, <2>2, <3>1
  <2>4. CASE freeFrags # {}
    <3>1. f \in freeFrags /\ f \in TxFrags /\ f # NoFrag
      BY <1>0, <2>1, <2>4, TxAssumption
    <3>2. txChain' = [txChain EXCEPT ![t] = Append(@, f)]
      BY <2>1, <3>1
    <3> HIDE DEF fl
    <3>3. /\ Placed(freeFrags \ {f}, [txChain EXCEPT ![t] = Append(@, f)], txFrag, fl)
          /\ Apart(freeFrags \ {f}, [txChain EXCEPT ![t] = Append(@, f)], txFrag, fl)
      BY <1>0, <3>1, MoveTake
    <3> QED BY <1>1, <2>1, <2>2, <3>2, <3>3 DEF fl
  <2> QED BY <2>3, <2>4
<1>5. ASSUME NEW t \in Clients, SendDrop(t) PROVE TxPlaces'
  <2>1. /\ freeFrags' = freeFrags \cup Elems(txChain[t])
        /\ txChain' = [txChain EXCEPT ![t] = <<>>]
        /\ txFrag' = txFrag /\ txClean' = txClean /\ tswptr' = tswptr
    BY <1>5 DEF SendDrop
  <2> HIDE DEF fl
  <2>2. /\ Placed(freeFrags \cup Elems(txChain[t]), [txChain EXCEPT ![t] = <<>>], txFrag, fl)
        /\ Apart(freeFrags \cup Elems(txChain[t]), [txChain EXCEPT ![t] = <<>>], txFrag, fl)
    BY <1>0, MoveDrop
  <2> QED BY <1>1, <2>1, <2>2 DEF fl
<1>6. ASSUME NEW t \in Clients, SendInstall(t) PROVE TxPlaces'
  <2> DEFINE n == Len(txChain[t])
             slot == [d \in Descs |-> Dist(tswptr, d)]
             new == {d \in Descs : Dist(tswptr, d) \in 1 .. n}
  <2>1. /\ n \in Nat /\ n < TxDescriptors /\ Dist(txClean, tswptr) + n < TxDescriptors
        /\ tswptr' = (tswptr + n) % TxDescriptors /\ txClean' = txClean /\ freeFrags' = freeFrags
        /\ txChain' = [txChain EXCEPT ![t] = <<>>]
        /\ \A d \in Descs : txFrag'[d] = IF Dist(tswptr, d) \in 1 .. n
                                         THEN txChain[t][Dist(tswptr, d)] ELSE txFrag[d]
    BY <1>6, SendFacts DEF SendInstall
  <2>2. /\ Fly(txClean', tswptr') = fl \cup new
        /\ \A d \in fl : d \in Descs /\ Dist(tswptr, d) \notin 1 .. n
    <3>1. Fly(txClean, tswptr') = fl \cup new
      BY <1>0, <2>1, FlySend
    <3>2. \A d \in fl : Dist(tswptr, d) \notin 1 .. n
      BY <1>0, <2>1, FlySend
    <3> QED BY <2>1, <3>1, <3>2 DEF Fly
  <2> HIDE DEF fl
  <2>3. \A d \in fl : d \notin new /\ txFrag'[d] = txFrag[d]
    BY <2>1, <2>2
  <2>4. \A d \in new : slot[d] \in 1 .. n /\ txFrag'[d] = txChain[t][slot[d]]
    BY <2>1
  <2>5. \A d \in Descs : slot[d] = Gap(TxDescriptors, tswptr, d)
    BY <1>0, DistIs
  <2>6. \A d, e \in Descs : slot[d] = slot[e] => d = e
    BY <1>0, <2>5, RingSize DEF Gap, Descs
  <2>7. ASSUME NEW i \in 1 .. n PROVE \E d \in new : slot[d] = i
    <3> DEFINE d == (tswptr + i) % TxDescriptors
    <3>1. i \in Nat /\ i < TxDescriptors /\ i \in 1 .. n
      BY <2>1, RingSize
    <3> HIDE DEF n
    <3>2. d \in Descs /\ d = IF tswptr + i < TxDescriptors THEN tswptr + i ELSE tswptr + i - TxDescriptors
      BY <1>0, <3>1, AheadIs
    <3> HIDE DEF d
    <3>3. slot[d] = i
      BY <1>0, <2>5, <3>1, <3>2, RingSize DEF Gap, Descs
    <3> QED BY <3>1, <3>2, <3>3
  <2>8. \A d, e \in new : slot[d] = slot[e] => d = e
    BY <2>6
  <2> HIDE DEF slot, new
  <2>9. /\ Placed(freeFrags, [txChain EXCEPT ![t] = <<>>], txFrag', fl \cup new)
        /\ Apart(freeFrags, [txChain EXCEPT ![t] = <<>>], txFrag', fl \cup new)
    <3>1. Placed(freeFrags, txChain, txFrag, fl) /\ Apart(freeFrags, txChain, txFrag, fl)
          /\ txChain \in [Clients -> Seq(TxFrags)]
      BY <1>0
    <3>2. \A i \in 1 .. Len(txChain[t]) : \E d \in new : slot[d] = i
      BY <2>7
    <3>3. \A d \in new : slot[d] \in 1 .. Len(txChain[t]) /\ txFrag'[d] = txChain[t][slot[d]]
      BY <2>4
    <3> QED BY <2>3, <2>8, <3>1, <3>2, <3>3, MoveSend, ZenonT(60)
  <2> QED BY <1>1, <2>1, <2>2, <2>9
<1>7. ASSUME NEW t \in Clients, FragAlloc(t) \/ GetRingRes(t) \/ FragWait(t) \/ FragPost(t)
                                \/ SendKick(t) \/ SendRestart(t)
      PROVE UNCHANGED <<freeFrags, txChain, txFrag, txClean, tswptr>>
  BY <1>7 DEF FragAlloc, GetRingRes, FragWait, FragPost, SendKick, SendRestart
<1>8. CASE Transmit \/ RxReadsCtrl \/ RxWritesCtrl \/ LinkLost \/ LinkNegotiated
          \/ UNCHANGED txVars
  BY <1>2, <1>8 DEF Transmit, RxReadsCtrl, ReadGts, RxWritesCtrl, WriteBackGts, LinkLost,
         LinkNegotiated, LinkTo, txVars
<1> QED BY <1>2, <1>3, <1>4, <1>5, <1>6, <1>7, <1>8 DEF TxNext, ClientStep

\* No step promises more fragments than the free list holds.
LEMMA TxSemStep ==
  ASSUME TxInv, [TxNext]_txVars, ~gtsLost'
  PROVE  SemNeverAhead'
<1> USE DEF TxInv
<1> DEFINE free == Cardinality(freeFrags)
           k == Cardinality(Owed)
<1>0. /\ IsFiniteSet(freeFrags) /\ free \in Nat /\ IsFiniteSet(Owed) /\ k \in Nat
      /\ semCount \in Nat /\ txPc \in [Clients -> TxPlace] /\ freeFrags \subseteq TxFrags
  <2>1. freeFrags \subseteq TxFrags /\ Owed \subseteq Clients
    BY DEF TxOK, Owed
  <2>2. IsFiniteSet(freeFrags) /\ IsFiniteSet(Owed)
    BY <2>1, TxAssumption, FS_Subset
  <2> QED BY <2>1, <2>2, FS_CardinalityType DEF TxOK
<1>1. semCount + k <= free
  BY DEF SemNeverAhead, Owed, TxOK
<1>2. SemNeverAhead' <=> semCount' + Cardinality(Owed') <= Cardinality(freeFrags')
  BY DEF SemNeverAhead, Owed
<1>3. IsFiniteSet(freeFrags') /\ Cardinality(freeFrags') \in Nat
      /\ IsFiniteSet(Owed') /\ Cardinality(Owed') \in Nat /\ semCount' \in Nat
  <2>1. TxOK'
    BY TxTypeStep
  <2>2. freeFrags' \subseteq TxFrags /\ Owed' \subseteq Clients
    BY <2>1 DEF TxOK, Owed
  <2>3. IsFiniteSet(freeFrags') /\ IsFiniteSet(Owed')
    BY <2>2, TxAssumption, FS_Subset
  <2> QED BY <2>1, <2>3, FS_CardinalityType DEF TxOK
<1> HIDE DEF free, k
<1>4. CASE UNCHANGED <<semCount, txPc, freeFrags>>
  BY <1>4 DEF SemNeverAhead, TxOK
<1>5. ASSUME NEW t \in Clients, FragAlloc(t) \/ FragWait(t), semCount > 0
      PROVE SemNeverAhead'
  <2>1. semCount' = semCount - 1 /\ freeFrags' = freeFrags /\ txPc[t] \notin {"take", "post"}
        /\ txPc' = [txPc EXCEPT ![t] = "take"]
    BY <1>5 DEF FragAlloc, FragWait, GoTo, At
  <2>2. Owed' = Owed \cup {t} /\ t \notin Owed
    BY <1>0, <2>1 DEF Owed
  <2>3. Cardinality(Owed \cup {t}) = k + 1
    BY <1>0, <2>2, FS_AddElement DEF k
  <2> QED BY <1>0, <1>1, <1>2, <2>1, <2>2, <2>3 DEF free
<1>6. ASSUME NEW t \in Clients, FragAlloc(t) \/ FragWait(t), ~(semCount > 0)
      PROVE SemNeverAhead'
  <2>1. /\ semCount' = semCount /\ freeFrags' = freeFrags /\ txPc[t] \notin {"take", "post"}
        /\ \A u \in Clients : u # t => txPc'[u] = txPc[u]
        /\ txPc'[t] \notin {"take", "post"}
    BY <1>0, <1>6 DEF FragAlloc, FragWait, GoTo, At
  <2>2. Owed' = Owed
    BY <2>1 DEF Owed
  <2> QED BY <1>1, <1>2, <2>1, <2>2 DEF free, k
<1>7. ASSUME NEW t \in Clients, NEW next \in {"idle", "clean"}, PostBy(t, next), txPc[t] = "clean",
             NEW f, f \notin freeFrags, freeFrags' = freeFrags \cup {f}
      PROVE SemNeverAhead'
  <2>1. semCount' + Cardinality(Owed') = semCount + Cardinality(Owed \ {t}) + 1
    BY <1>7, PostBrings
  <2>2. Owed \ {t} = Owed
    BY <1>7 DEF Owed
  <2>3. Cardinality(freeFrags') = free + 1
    BY <1>0, <1>7, FS_AddElement DEF free
  <2> QED BY <1>0, <1>1, <1>2, <1>3, <2>1, <2>2, <2>3 DEF k
<1>8. ASSUME NEW t \in Clients, RingClean(t) PROVE SemNeverAhead'
  <2>1. CASE ~CaughtUp /\ txFrag[Succ(txClean)] # NoFrag
    <3>1. /\ PostBy(t, "clean") /\ txPc[t] = "clean"
          /\ freeFrags' = freeFrags \cup {txFrag[Succ(txClean)]}
      BY <1>8, <2>1 DEF RingClean, At
    <3>2. txFrag[Succ(txClean)] \notin freeFrags
      <4>1. txClean \in Descs /\ tbdptr \in Descs /\ tswptr \in Descs /\ Succ(txClean) \in Descs
        BY SuccIs DEF TxOK
      <4>2. Dist(Succ(txClean), tbdptr) = Gap(TxDescriptors, Succ(txClean), tbdptr)
        BY <4>1, DistIs
      <4>3. Dist(Succ(txClean), tbdptr) > 0
        BY <2>1, <4>1, <4>2, RingSize DEF Gap, Descs, CaughtUp
      <4>4. Dist(Succ(txClean), tbdptr) \in Nat /\ Dist(txClean, tswptr) \in Nat
        BY <4>1, DistIs
      <4>5. Dist(txClean, tswptr) > 0
        BY <4>3, <4>4 DEF TxOrder
      <4>6. Succ(txClean) \in Fly(txClean, tswptr)
        BY <4>1, <4>5, FlyClean
      <4> QED BY <4>6 DEF TxPlaces, Apart
    <3> QED BY <1>7, <3>1, <3>2
  <2>2. CASE CaughtUp
    <3>1. /\ semCount' = semCount /\ freeFrags' = freeFrags /\ txPc[t] = "clean"
          /\ txPc' = [txPc EXCEPT ![t] = "waitsem"]
      BY <1>8, <2>2 DEF RingClean, GoTo, At
    <3>2. Owed' = Owed
      BY <1>0, <3>1 DEF Owed
    <3> QED BY <1>1, <1>2, <3>1, <3>2 DEF free, k
  <2>3. CASE ~CaughtUp /\ txFrag[Succ(txClean)] = NoFrag
    BY <1>4, <1>8, <2>3 DEF RingClean
  <2> QED BY <2>1, <2>2, <2>3
<1>9. ASSUME NEW t \in Clients, FragTake(t) PROVE SemNeverAhead'
  <2>1. /\ semCount' = semCount /\ txPc[t] = "take" /\ txPc' = [txPc EXCEPT ![t] = "idle"]
    BY <1>9 DEF FragTake, GoTo, At
  <2>2. t \in Owed /\ Owed' = Owed \ {t}
    BY <1>0, <2>1 DEF Owed
  <2>3. Cardinality(Owed \ {t}) = k - 1
    BY <1>0, <2>2, FS_RemoveElement DEF k
  <2>4. PICK f \in IF freeFrags = {} THEN {NoFrag} ELSE freeFrags : freeFrags' = freeFrags \ {f}
    BY <1>9 DEF FragTake
  <2>5. k # 0
    BY <1>0, <2>2, FS_EmptySet DEF k
  <2>6. freeFrags # {}
    BY <1>0, <1>1, <2>5, FS_EmptySet DEF free
  <2>7. f \in freeFrags
    BY <2>4, <2>6
  <2>8. Cardinality(freeFrags \ {f}) = free - 1
    BY <1>0, <2>7, FS_RemoveElement DEF free
  <2> QED BY <1>0, <1>1, <1>2, <2>1, <2>2, <2>3, <2>4, <2>8
<1>10. ASSUME NEW t \in Clients, SendDrop(t) PROVE SemNeverAhead'
  <2>1. /\ semCount' = semCount /\ txPc[t] = "idle" /\ txPc' = [txPc EXCEPT ![t] = "post"]
        /\ txChain[t] # <<>> /\ freeFrags' = freeFrags \cup Elems(txChain[t])
    BY <1>10 DEF SendDrop, GoTo, At
  <2>2. t \notin Owed /\ Owed' = Owed \cup {t}
    BY <1>0, <2>1 DEF Owed
  <2>3. Cardinality(Owed \cup {t}) = k + 1
    BY <1>0, <2>2, FS_AddElement DEF k
  <2>4. 1 \in 1 .. Len(txChain[t]) /\ 1 \in DOMAIN txChain[t]
    BY <2>1 DEF TxOK
  <2>5. txChain[t][1] \notin freeFrags /\ txChain[t][1] \in Elems(txChain[t])
    BY <2>4 DEF TxPlaces, Apart, Elems
  <2>6. Cardinality(freeFrags \cup {txChain[t][1]}) = free + 1
    BY <1>0, <2>5, FS_AddElement DEF free
  <2>7. freeFrags \cup {txChain[t][1]} \subseteq freeFrags'
    BY <2>1, <2>5
  <2>8. free + 1 <= Cardinality(freeFrags')
    BY <1>3, <2>6, <2>7, FS_Subset
  <2> QED BY <1>0, <1>1, <1>2, <1>3, <2>1, <2>2, <2>3, <2>8
<1>11. ASSUME NEW t \in Clients, FragPost(t) PROVE SemNeverAhead'
  <2>1. PostBy(t, "idle") /\ txPc[t] = "post" /\ freeFrags' = freeFrags
    BY <1>11 DEF FragPost, At
  <2>2. semCount' + Cardinality(Owed') = semCount + Cardinality(Owed \ {t}) + 1
    BY <2>1, PostBrings
  <2>3. t \in Owed
    BY <2>1 DEF Owed
  <2>4. Cardinality(Owed \ {t}) = k - 1
    BY <1>0, <2>3, FS_RemoveElement DEF k
  <2> QED BY <1>0, <1>1, <1>2, <1>3, <2>1, <2>2, <2>4 DEF free
<1>12. ASSUME NEW t \in Clients, GetRingRes(t) \/ SendInstall(t) \/ SendKick(t) \/ SendRestart(t)
       PROVE SemNeverAhead'
  <2>1. /\ semCount' = semCount /\ freeFrags' = freeFrags /\ txPc[t] \notin {"take", "post"}
        /\ \A u \in Clients : u # t => txPc'[u] = txPc[u]
        /\ txPc'[t] \notin {"take", "post"}
    BY <1>0, <1>12 DEF GetRingRes, SendInstall, SendKick, SendRestart, GoTo, At
  <2>2. Owed' = Owed
    BY <2>1 DEF Owed
  <2> QED BY <1>1, <1>2, <2>1, <2>2 DEF free, k
<1>13. CASE Transmit \/ RxReadsCtrl \/ RxWritesCtrl \/ LinkLost \/ LinkNegotiated
          \/ UNCHANGED txVars
  BY <1>4, <1>13 DEF Transmit, RxReadsCtrl, ReadGts, RxWritesCtrl, WriteBackGts, LinkLost,
         LinkNegotiated, LinkTo, txVars
<1> QED BY <1>5, <1>6, <1>8, <1>9, <1>10, <1>11, <1>12, <1>13 DEF TxNext, ClientStep

\* The invariant holds when the clients start.
LEMMA TxInitInv == TxInit => TxInv
<1> SUFFICES ASSUME TxInit PROVE TxInv
  OBVIOUS
<1> USE DEF TxInit, TxFragInit, TxRingInit, TxHardwareInit
<1>1. TxDescriptors - 1 \in Descs /\ 0 \in Descs /\ Succ(TxDescriptors - 1) = 0
  <2>1. TxDescriptors - 1 \in Descs /\ 0 \in Descs
    BY RingSize DEF Descs
  <2> QED BY <2>1, SuccIs, RingSize
<1>2. TxOK
  <2>1. /\ txPc \in [Clients -> TxPlace] /\ txChain \in [Clients -> Seq(TxFrags)]
        /\ semQueue \in Seq(Clients)
    BY DEF TxPlace
  <2>2. semCount \in Nat /\ freeFrags \in SUBSET TxFrags
    BY RingSize
  <2>3. firstBd \in [Clients -> Descs] /\ txFrag \in [Descs -> TxFrags \cup {NoFrag}]
    BY <1>1
  <2> QED BY <1>1, <2>1, <2>2, <2>3 DEF TxOK
<1>3. TxWaiters
  BY DEF TxWaiters
<1>4. Dist(0, 0) = 0 /\ Dist(TxDescriptors - 1, TxDescriptors - 1) = 0
  BY <1>1, DistIs, RingSize DEF Gap, Descs
<1>5. TxOrder
  BY <1>1, <1>4 DEF TxOrder
<1>6. TxKick /\ TransmitterRuns
  BY <1>1, TxAssumption DEF TxKick, KickOwner, TransmitterRuns
<1>7. Fly(txClean, tswptr) = {}
  BY <1>4 DEF Fly
<1>8. TxPlaces
  BY <1>7 DEF TxPlaces, Placed, Apart
<1>9. SemNeverAhead
  <2>1. {t \in Clients : txPc[t] \in {"take", "post"}} = {}
    OBVIOUS
  <2>2. Cardinality({t \in Clients : txPc[t] \in {"take", "post"}}) = 0
    BY <2>1, FS_EmptySet
  <2> QED BY <2>2, RingSize DEF SemNeverAhead
<1> QED BY <1>2, <1>3, <1>5, <1>6, <1>8, <1>9 DEF TxInv

\* The invariant of the transmit side, until the receive side loses a GTS.
LEMMA TxInvHolds == TxSide => [](gtsLost \/ TxInv)
<1> DEFINE Inv == gtsLost \/ TxInv
<1>1. TxInit => Inv
  BY TxInitInv
<1>2. Inv /\ [TxNext]_txVars => Inv'
  <2> SUFFICES ASSUME Inv, [TxNext]_txVars, ~gtsLost' PROVE TxInv'
    OBVIOUS
  <2>1. ~gtsLost
    <3>1. gtsLost' = gtsLost \/ RxWritesCtrl
      BY DEF TxNext, ClientStep, FragAlloc, GetRingRes, RingClean, FragWait, FragTake, SendDrop,
         FragPost, SendInstall, SendKick, SendRestart, Transmit, RxReadsCtrl, ReadGts,
         LinkLost, LinkNegotiated, LinkTo, txVars, ctrlVars
    <3> QED BY <3>1 DEF RxWritesCtrl, WriteBackGts
  <2> QED BY <2>1, TxTypeStep, TxWaitersStep, TxOrderStep, TxRunStep, TxPlacesStep, TxSemStep
       DEF TxInv
<1> HIDE DEF Inv
<1>3. TxSide => []Inv
  BY <1>1, <1>2, PTL DEF TxSide
<1> QED BY <1>3 DEF Inv

\* What the invariant says of one fragment, in numbers.
LEMMA TxPlacesCount == TxInv => FragsInOnePlace
<1> SUFFICES ASSUME TxInv PROVE FragsInOnePlace
  OBVIOUS
<1> USE DEF TxInv
<1>0. /\ txClean \in Descs /\ tswptr \in Descs /\ tbdptr \in Descs
      /\ Succ(txClean) \in Descs /\ txChain \in [Clients -> Seq(TxFrags)]
  BY SuccIs DEF TxOK
<1>1. InFlight = Fly(txClean, tswptr)
  BY DEF InFlight, Fly
<1>2. Unsent \subseteq InFlight
  <2>1. CASE tbdptr = Succ(tswptr)
    BY <2>1 DEF Unsent
  <2>2. CASE tbdptr # Succ(tswptr)
    <3> SUFFICES ASSUME NEW d \in Descs, Dist(tbdptr, d) <= Dist(tbdptr, tswptr)
                 PROVE  Dist(txClean, d) \in 1 .. Dist(txClean, tswptr)
      BY <2>2 DEF Unsent, InFlight
    <3>1. /\ Dist(tbdptr, d) = Gap(TxDescriptors, tbdptr, d)
          /\ Dist(tbdptr, tswptr) = Gap(TxDescriptors, tbdptr, tswptr)
          /\ Dist(txClean, d) = Gap(TxDescriptors, txClean, d)
          /\ Dist(txClean, tswptr) = Gap(TxDescriptors, txClean, tswptr)
          /\ Dist(Succ(txClean), tbdptr) = Gap(TxDescriptors, Succ(txClean), tbdptr)
      BY <1>0, DistIs
    <3>2. /\ Succ(txClean) = IF txClean + 1 = TxDescriptors THEN 0 ELSE txClean + 1
          /\ Succ(tswptr) = IF tswptr + 1 = TxDescriptors THEN 0 ELSE tswptr + 1
      BY <1>0, SuccIs
    <3>3. Dist(Succ(txClean), tbdptr) <= Dist(txClean, tswptr)
      BY DEF TxOrder
    <3>4. Dist(txClean, d) \in Int /\ Dist(txClean, tswptr) \in Int
      BY <1>0, DistIs
    <3>5. 1 <= Dist(txClean, d) /\ Dist(txClean, d) <= Dist(txClean, tswptr)
      BY <1>0, <2>2, <3>1, <3>2, <3>3, RingSize DEF Gap, Descs
    <3> QED BY <3>4, <3>5
  <2> QED BY <2>1, <2>2
<1>3. ASSUME NEW f \in TxFrags
      PROVE  Cardinality({t \in Clients : f \in Elems(txChain[t])})
               + Cardinality({d \in InFlight : txFrag[d] = f})
               + (IF f \in freeFrags THEN 1 ELSE 0) = 1
  <2> DEFINE C == {t \in Clients : f \in Elems(txChain[t])}
             D == {d \in InFlight : txFrag[d] = f}
  <2>1. \A t \in Clients : f \in Elems(txChain[t]) <=> \E i \in 1 .. Len(txChain[t]) : txChain[t][i] = f
    BY <1>0 DEF Elems
  <2>2. \A t, u \in C : t = u
    BY <2>1 DEF TxPlaces, Apart
  <2>3. \A d, e \in D : d = e
    BY <1>1 DEF TxPlaces, Apart
  <2>4. D # {} => C = {} /\ f \notin freeFrags
    BY <1>1, <2>1 DEF TxPlaces, Apart
  <2>5. C # {} => f \notin freeFrags
    BY <2>1 DEF TxPlaces, Apart
  <2>6. C # {} \/ D # {} \/ f \in freeFrags
    BY <1>1, <2>1 DEF TxPlaces, Placed
  <2> HIDE DEF C, D
  <2>7. /\ Cardinality(C) = IF C = {} THEN 0 ELSE 1
        /\ Cardinality(D) = IF D = {} THEN 0 ELSE 1
    BY <2>2, <2>3, AtMostOne
  <2>8. Cardinality(C) + Cardinality(D) + (IF f \in freeFrags THEN 1 ELSE 0) = 1
    BY <2>4, <2>5, <2>6, <2>7
  <2> QED BY <2>8 DEF C, D
<1> QED BY <1>2, <1>3 DEF FragsInOnePlace

\* As long as no GTS is lost, no fragment is in two places or lost, whatever the
\* clients, the cleaner, the DMA and the link do and in whatever order: nobody
\* writes what is being sent.
THEOREM FragsKept == TxSide => []FragsInOnePlace
<1>1. gtsLost \/ TxInv => FragsInOnePlace
  BY TxPlacesCount DEF FragsInOnePlace
<1> QED BY <1>1, TxInvHolds, PTL

\* As long as no GTS is lost, eth_tx_frag_alloc never finds the list empty after
\* the semaphore let it in.
THEOREM SemaphoreCovered == TxSide => []SemNeverAhead
<1>1. gtsLost \/ TxInv => SemNeverAhead
  BY DEF TxInv, SemNeverAhead
<1> QED BY <1>1, TxInvHolds, PTL

\* No restart of the transmit DMA is missed, and none made on sent descriptors: a
\* GTS set while the receive side changes the register is the one way to lose it.
THEOREM TransmitterKeptRunning == TxSide => []TransmitterRuns
<1>1. gtsLost \/ TxInv => TransmitterRuns
  BY DEF TxInv, TransmitterRuns
<1> QED BY <1>1, TxInvHolds, PTL

-----------------------------------------------------------------------------
(* The receive side. Where the fragments are, over plain values: the       *)
(* descriptors fl with what they hold, the queue, and the receiver's hands.*)

RDist(a, b) == Gap(RxDescriptors, a, b)

RPlaced(fl, fr, q, h) ==
  \A f \in RxFrags : \/ \E d \in fl : fr[d] = f
                     \/ \E i \in 1 .. Len(q) : q[i] = f
                     \/ f \in h

RApart(fl, fr, q, h) ==
  /\ \A d \in fl : fr[d] \in RxFrags \ h
  /\ \A d, e \in fl : fr[d] = fr[e] => d = e
  /\ \A i \in 1 .. Len(q) : q[i] \notin h /\ \A d \in fl : fr[d] # q[i]
  /\ \A i, j \in 1 .. Len(q) : q[i] = q[j] => i = j

\* The descriptors from st to RSWPTR.
Ring(st, sw) == {d \in RDescs : RDist(st, d) < RDist(st, RSucc(sw))}

\* The first descriptor whose fragment is still the ring's, and how many of them
\* eth_rx_process has handed on since the causes were cleared.
HandingOn == {"restart", "rov", "rewrite", "advance"}
HandedOn == rxPc.handler \in HandingOn
Start == IF HandedOn THEN RSucc(rxIdx) ELSE rxIdx
Done == IF HandedOn THEN processed + 1 ELSE processed

HandlerPlaces == {"wait", "read", "clear", "overflow", "stop", "reset", "resume", "process",
                  "restart", "rov", "rewrite", "advance", "enable"}
ReceiverPlaces == {"idle", "restart", "rov", "rewrite"}
Kinds == {"none", "whole", "first", "middle", "last"}

RxOK ==
  /\ rxPc \in [handler : HandlerPlaces, receiver : ReceiverPlaces]
  /\ isrEvent \in BOOLEAN /\ vicOn \in BOOLEAN /\ again \in BOOLEAN /\ processed \in Nat
  /\ rawIntr \in SUBSET {"RXF", "ROV"} /\ intrs \in SUBSET {"RXF", "ROV"}
  /\ rxIdx \in RDescs /\ rbdptr \in RDescs /\ rswptr \in RDescs
  /\ rxFrag \in [RDescs -> RxFrags \cup {NoRxFrag}] /\ rxKind \in [RDescs -> Kinds]
  /\ grs \in BOOLEAN /\ grsRead \in BOOLEAN /\ frameOpen \in BOOLEAN
  /\ rxQueue \in Seq(RxFrags) /\ held \in SUBSET RxFrags

\* The software, the DMA and RSWPTR stay in this order.
RxOrder == RDist(Start, rbdptr) <= RDist(Start, RSucc(rswptr))

RxPlaces ==
  /\ RPlaced(Ring(Start, rswptr), rxFrag, rxQueue, held)
  /\ RApart(Ring(Start, rswptr), rxFrag, rxQueue, held)

\* Descriptor d ends a frame that has not been handed on.
Ends(d) == RDist(Start, d) < RDist(Start, rbdptr) /\ rxKind[d] \in {"whole", "last"}

\* Every such frame has its cause raised, ...
AllRaised == \A d \in RDescs : Ends(d) => "RXF" \in rawIntr

\* ... or at least those that came after the causes were cleared.
Late(d) == RDist(Start, d) + Done >= RxDescriptors - 1
LateRaised == \A d \in RDescs : Ends(d) /\ Late(d) => "RXF" \in rawIntr

Overflowing == {"overflow", "stop", "reset", "resume"}

RxFrames ==
  /\ rxPc.handler \in {"wait", "read", "clear", "enable"} => AllRaised
  /\ rxPc.handler \in Overflowing => AllRaised \/ "RXF" \in intrs
  /\ rxPc.handler \in Overflowing \cup HandingOn \cup {"process"} => LateRaised

RxLine == rxPc.handler = "wait" => isrEvent \/ vicOn

\* Who is inside eth_rx_frag_queue has interrupts suspended; the handler waits while
\* a client has, and what the client has read as set is set until it writes.
RxOwner ==
  /\ rxPc.handler \in {"restart", "rov", "rewrite"} => rxIrqOff = "handler"
  /\ rxPc.receiver # "idle" => rxIrqOff = "receiver"
  /\ rxIrqOff = "client" => rxPc.handler = "wait" /\ (grsRead => grs)

RxInv == RxOK /\ RxOrder /\ RxPlaces /\ RxFrames /\ RxLine /\ RxOwner /\ ReceiverRuns

-----------------------------------------------------------------------------
(* Positions on the receive ring.                                          *)

\* The next descriptor.
LEMMA RSuccIs ==
  ASSUME NEW d \in RDescs
  PROVE  /\ RSucc(d) = IF d + 1 = RxDescriptors THEN 0 ELSE d + 1
         /\ RSucc(d) \in RDescs
<1>1. d \in Nat /\ d < RxDescriptors
  BY RingSize DEF RDescs
<1>2. RSucc(d) = IF d + 1 < RxDescriptors THEN d + 1 ELSE d + 1 - RxDescriptors
  BY <1>1, RingSize, ModSmall DEF RSucc
<1> QED BY <1>1, <1>2, RingSize DEF RDescs

\* A distance is less than a turn, and 0 only to itself.
LEMMA RDistIs ==
  ASSUME NEW a \in RDescs, NEW b \in RDescs
  PROVE  RDist(a, b) \in 0 .. RxDescriptors - 1 /\ (RDist(a, b) = 0 <=> a = b)
BY RingSize DEF RDescs, RDist, Gap

\* What Between compares.
LEMMA BetweenIs ==
  ASSUME NEW d \in RDescs, NEW a \in RDescs, NEW b \in RDescs
  PROVE  Between(d, a, b) <=> RDist(a, d) < RDist(a, b)
<1>1. ASSUME NEW e \in RDescs PROVE (e + RxDescriptors - a) % RxDescriptors = RDist(a, e)
  <2>1. a \in Nat /\ e \in Nat /\ a < RxDescriptors /\ e < RxDescriptors
    BY RingSize DEF RDescs
  <2> DEFINE x == e + RxDescriptors - a
  <2>2. x \in Nat /\ x < RxDescriptors + RxDescriptors
    BY <2>1, RingSize
  <2> HIDE DEF x
  <2>3. x % RxDescriptors = IF x < RxDescriptors THEN x ELSE x - RxDescriptors
    BY <2>2, RingSize, ModSmall
  <2> QED BY <2>1, <2>3, RingSize DEF RDist, Gap, x
<1> QED BY <1>1 DEF Between

\* One descriptor further on at the front.
LEMMA FromNext ==
  ASSUME NEW a \in RDescs, NEW d \in RDescs
  PROVE  RDist(RSucc(a), d) = IF d = a THEN RxDescriptors - 1 ELSE RDist(a, d) - 1
<1>1. RSucc(a) = IF a + 1 = RxDescriptors THEN 0 ELSE a + 1
  BY RSuccIs
<1> QED BY <1>1, RingSize DEF RDescs, RDist, Gap

\* One descriptor further on at the end.
LEMMA ToNext ==
  ASSUME NEW a \in RDescs, NEW d \in RDescs
  PROVE  RDist(a, RSucc(d)) = IF RDist(a, d) = RxDescriptors - 1 THEN 0 ELSE RDist(a, d) + 1
<1>1. RSucc(d) = IF d + 1 = RxDescriptors THEN 0 ELSE d + 1
  BY RSuccIs
<1> QED BY <1>1, RingSize DEF RDescs, RDist, Gap

\* The start and the DMA's descriptor are on the ring.
LEMMA StartIs ==
  ASSUME RxOK
  PROVE  Start \in RDescs /\ RSucc(rswptr) \in RDescs /\ RSucc(rxIdx) \in RDescs
BY RSuccIs DEF RxOK, Start

\* The ring loses its first descriptor.
LEMMA RingLosesFirst ==
  ASSUME NEW st \in RDescs, NEW sw \in RDescs, RDist(st, RSucc(sw)) > 0
  PROVE  /\ st \in Ring(st, sw) /\ Ring(RSucc(st), sw) = Ring(st, sw) \ {st}
         /\ RDist(RSucc(st), RSucc(sw)) = RDist(st, RSucc(sw)) - 1
<1>1. RSucc(st) \in RDescs /\ RSucc(sw) \in RDescs /\ RxDescriptors \in Nat
  BY RSuccIs, RingSize
<1>2. /\ RDist(st, st) = 0 /\ RSucc(sw) # st
      /\ RDist(st, RSucc(sw)) \in 0 .. RxDescriptors - 1
  BY <1>1, RDistIs
<1>3. RDist(RSucc(st), RSucc(sw)) = RDist(st, RSucc(sw)) - 1
  BY <1>1, <1>2, FromNext
<1>4. ASSUME NEW d \in RDescs
      PROVE  RDist(RSucc(st), d) < RDist(RSucc(st), RSucc(sw)) <=>
               RDist(st, d) < RDist(st, RSucc(sw)) /\ d # st
  <2>1. RDist(st, d) \in 0 .. RxDescriptors - 1
    BY RDistIs
  <2>2. RDist(RSucc(st), d) = IF d = st THEN RxDescriptors - 1 ELSE RDist(st, d) - 1
    BY FromNext
  <2> QED BY <1>1, <1>2, <1>3, <2>1, <2>2
<1> QED BY <1>2, <1>3, <1>4 DEF Ring

\* The ring gains a descriptor at its end.
LEMMA RingGainsLast ==
  ASSUME NEW st \in RDescs, NEW sw \in RDescs, RDist(st, RSucc(sw)) < RxDescriptors - 1
  PROVE  /\ RSucc(sw) \notin Ring(st, sw) /\ Ring(st, RSucc(sw)) = Ring(st, sw) \cup {RSucc(sw)}
         /\ RDist(st, RSucc(RSucc(sw))) = RDist(st, RSucc(sw)) + 1
<1>1. RSucc(st) \in RDescs /\ RSucc(sw) \in RDescs /\ RxDescriptors \in Nat
  BY RSuccIs, RingSize
<1>2. RDist(st, RSucc(sw)) \in 0 .. RxDescriptors - 1
  BY <1>1, RDistIs
<1>3. RDist(st, RSucc(RSucc(sw))) = RDist(st, RSucc(sw)) + 1
  BY <1>1, <1>2, ToNext
<1>4. ASSUME NEW d \in RDescs
      PROVE  RDist(st, d) < RDist(st, RSucc(sw)) + 1 <=>
               RDist(st, d) < RDist(st, RSucc(sw)) \/ d = RSucc(sw)
  <2>1. RDist(st, d) \in 0 .. RxDescriptors - 1
    BY RDistIs
  <2>2. RDist(st, d) = RDist(st, RSucc(sw)) => d = RSucc(sw)
    BY <1>1, RingSize DEF RDescs, RDist, Gap
  <2> QED BY <1>1, <1>2, <2>1, <2>2
<1>5. RSucc(sw) \notin Ring(st, sw)
  BY <1>2 DEF Ring
<1>6. \A d : d \in Ring(st, RSucc(sw)) <=> d \in Ring(st, sw) \/ d = RSucc(sw)
  BY <1>1, <1>3, <1>4 DEF Ring
<1> QED BY <1>3, <1>5, <1>6

-----------------------------------------------------------------------------
(* Where the received fragments are, move by move.                         *)

\* From the ring to the end of the queue.
LEMMA MoveQueued ==
  ASSUME NEW fl, NEW fr, NEW q \in Seq(RxFrags), NEW h,
         RPlaced(fl, fr, q, h), RApart(fl, fr, q, h), NEW x \in fl
  PROVE  /\ RPlaced(fl \ {x}, fr, Append(q, fr[x]), h)
         /\ RApart(fl \ {x}, fr, Append(q, fr[x]), h)
<1> DEFINE q2 == Append(q, fr[x])
           n == Len(q)
<1>1. fr[x] \in RxFrags /\ fr[x] \notin h
  BY DEF RApart
<1>2. /\ n \in Nat /\ Len(q2) = n + 1 /\ q2[n + 1] = fr[x]
      /\ \A i \in 1 .. n : q2[i] = q[i]
  BY <1>1, AppendProperties
<1> HIDE DEF q2
<1>3. n + 1 \in 1 .. Len(q2) /\ \A i \in 1 .. n : i \in 1 .. Len(q2)
  BY <1>2
<1>4. \A i \in 1 .. Len(q2) : i = n + 1 \/ i \in 1 .. n
  BY <1>2
<1>5. RPlaced(fl \ {x}, fr, q2, h)
  BY <1>2, <1>3 DEF RPlaced
<1>6. \A i \in 1 .. Len(q2) : q2[i] \notin h /\ \A d \in fl \ {x} : fr[d] # q2[i]
  BY <1>1, <1>2, <1>4 DEF RApart
<1>7. \A i, j \in 1 .. Len(q2) : q2[i] = q2[j] => i = j
  BY <1>2, <1>4 DEF RApart
<1>8. RApart(fl \ {x}, fr, q2, h)
  BY <1>6, <1>7 DEF RApart
<1> QED BY <1>5, <1>8 DEF q2

\* From the front of the queue to the receiver.
LEMMA MoveGot ==
  ASSUME NEW fl, NEW fr, NEW q \in Seq(RxFrags), NEW h,
         RPlaced(fl, fr, q, h), RApart(fl, fr, q, h), q # <<>>
  PROVE  /\ RPlaced(fl, fr, Tail(q), h \cup {Head(q)})
         /\ RApart(fl, fr, Tail(q), h \cup {Head(q)})
<1> DEFINE n == Len(q)
           q2 == Tail(q)
<1>1. n \in Nat /\ n >= 1 /\ Head(q) = q[1] /\ 1 \in 1 .. n /\ Head(q) \in RxFrags
  OBVIOUS
<1>2. Len(q2) = n - 1 /\ \A i \in 1 .. Len(q2) : q2[i] = q[i + 1]
  BY HeadTailProperties
<1> HIDE DEF q2
<1>3. \A i \in 1 .. Len(q2) : i \in Int /\ i + 1 \in 1 .. n /\ i + 1 # 1 /\ q2[i] = q[i + 1]
  BY <1>1, <1>2
<1>4. ASSUME NEW i \in 1 .. n, i # 1 PROVE \E j \in 1 .. Len(q2) : q2[j] = q[i]
  <2>1. i - 1 \in 1 .. Len(q2) /\ i - 1 + 1 = i
    BY <1>1, <1>2, <1>4
  <2>2. q2[i - 1] = q[i - 1 + 1]
    BY <1>2, <2>1
  <2> QED BY <2>1, <2>2
<1>5. RPlaced(fl, fr, q2, h \cup {Head(q)})
  BY <1>1, <1>4 DEF RPlaced
<1>6. \A i \in 1 .. Len(q2) : q2[i] \notin h \cup {Head(q)} /\ \A d \in fl : fr[d] # q2[i]
  BY <1>1, <1>3 DEF RApart
<1>7. ASSUME NEW i \in 1 .. Len(q2), NEW j \in 1 .. Len(q2), q2[i] = q2[j] PROVE i = j
  <2>1. i + 1 = j + 1
    BY <1>3, <1>7 DEF RApart
  <2> QED BY <1>3, <2>1
<1>8. \A d \in fl : fr[d] \in RxFrags \ (h \cup {Head(q)})
  BY <1>1 DEF RApart
<1>9. RApart(fl, fr, q2, h \cup {Head(q)})
  BY <1>6, <1>7, <1>8 DEF RApart
<1> QED BY <1>5, <1>9 DEF q2

\* From one descriptor of the ring to another.
LEMMA MoveBack ==
  ASSUME NEW fl, NEW fr \in [RDescs -> RxFrags \cup {NoRxFrag}], NEW q, NEW h,
         RPlaced(fl, fr, q, h), RApart(fl, fr, q, h), NEW x \in fl,
         NEW y \in RDescs, y \notin fl
  PROVE  /\ RPlaced((fl \ {x}) \cup {y}, [fr EXCEPT ![y] = fr[x]], q, h)
         /\ RApart((fl \ {x}) \cup {y}, [fr EXCEPT ![y] = fr[x]], q, h)
<1> DEFINE fr2 == [fr EXCEPT ![y] = fr[x]]
<1>1. fr2[y] = fr[x] /\ \A d \in fl : fr2[d] = IF d = y THEN fr[x] ELSE fr[d]
  OBVIOUS
<1>2. \A d \in fl : fr2[d] = fr[d]
  OBVIOUS
<1> HIDE DEF fr2
<1>3. RPlaced((fl \ {x}) \cup {y}, fr2, q, h)
  BY <1>1, <1>2 DEF RPlaced
<1>4. RApart((fl \ {x}) \cup {y}, fr2, q, h)
  BY <1>1, <1>2 DEF RApart
<1> QED BY <1>3, <1>4 DEF fr2

\* From the receiver to a descriptor.
LEMMA MoveFreed ==
  ASSUME NEW fl, NEW fr \in [RDescs -> RxFrags \cup {NoRxFrag}], NEW q, NEW h,
         RPlaced(fl, fr, q, h), RApart(fl, fr, q, h), NEW f \in RxFrags, f \in h,
         NEW y \in RDescs, y \notin fl
  PROVE  /\ RPlaced(fl \cup {y}, [fr EXCEPT ![y] = f], q, h \ {f})
         /\ RApart(fl \cup {y}, [fr EXCEPT ![y] = f], q, h \ {f})
<1> DEFINE fr2 == [fr EXCEPT ![y] = f]
<1>1. fr2[y] = f /\ \A d \in fl : fr2[d] = fr[d]
  OBVIOUS
<1> HIDE DEF fr2
<1>2. RPlaced(fl \cup {y}, fr2, q, h \ {f})
  BY <1>1 DEF RPlaced
<1>3. RApart(fl \cup {y}, fr2, q, h \ {f})
  BY <1>1 DEF RApart
<1> QED BY <1>2, <1>3 DEF fr2

\* Whoever holds a fragment finds room on the ring for it.
LEMMA RoomToFree ==
  ASSUME RxOK, RxPlaces, NEW f \in held
  PROVE  RDist(Start, RSucc(rswptr)) < RxDescriptors - 1
<1> DEFINE R == RDist(Start, RSucc(rswptr))
           at(i) == IF Start + i < RxDescriptors THEN Start + i ELSE Start + i - RxDescriptors
           g == [i \in 0 .. R |-> IF i < R THEN rxFrag[at(i)] ELSE f]
<1>1. /\ R \in 0 .. RxDescriptors - 1 /\ RxDescriptors \in Nat
      /\ Start \in Nat /\ Start < RxDescriptors /\ f \in RxFrags
  <2>1. Start \in RDescs /\ RSucc(rswptr) \in RDescs
    BY StartIs
  <2>2. f \in RxFrags
    BY DEF RxOK
  <2>3. R \in 0 .. RxDescriptors - 1
    BY <2>1, RDistIs
  <2> HIDE DEF R
  <2> QED BY <2>1, <2>2, <2>3, RingSize DEF RDescs
<1> HIDE DEF R
<1>2. ASSUME NEW i \in 0 .. R, i < R PROVE at(i) \in Ring(Start, rswptr)
  <2>1. at(i) \in RDescs
    BY <1>1, <1>2 DEF RDescs
  <2>2. RDist(Start, at(i)) = i
    BY <1>1, <1>2 DEF RDist, Gap
  <2> HIDE DEF at
  <2> QED BY <1>2, <2>1, <2>2 DEF Ring, R
<1>3. \A i, j \in 0 .. R : i < R /\ j < R /\ at(i) = at(j) => i = j
  BY <1>1
<1> HIDE DEF at
<1>4. \A i \in 0 .. R : i < R => g[i] \in RxFrags /\ g[i] # f
  BY <1>2 DEF RxPlaces, RApart
<1>5. \A i \in 0 .. R : i = R \/ i < R
  BY <1>1
<1>6. g[R] = f /\ R \in 0 .. R
  BY <1>1
<1>7. \A i, j \in 0 .. R : i < R /\ j < R /\ g[i] = g[j] => i = j
  BY <1>2, <1>3 DEF RxPlaces, RApart
<1>8. g \in [0 .. R -> RxFrags]
  BY <1>1, <1>4, <1>5, <1>6
<1>9. \A i, j \in 0 .. R : g[i] = g[j] => i = j
  BY <1>4, <1>5, <1>6, <1>7
<1>10. g \in Injection(0 .. R, RxFrags)
  BY <1>8, <1>9 DEF Injection, IsInjective
<1> HIDE DEF g
<1>11. Cardinality(0 .. R) <= Cardinality(RxFrags)
  BY <1>10, RxAssumption, FS_Injection
<1>12. 0 \in Int /\ R \in Int
  BY <1>1
<1>13. Cardinality(0 .. R) = IF 0 > R THEN 0 ELSE R - 0 + 1
  BY <1>12, FS_Interval
<1>14. R + 1 <= Cardinality(RxFrags)
  BY <1>1, <1>11, <1>13
<1> QED BY <1>1, <1>14, RingSize, RingNeverFull DEF R

-----------------------------------------------------------------------------
(* The receive side keeps its invariant, conjunct by conjunct.             *)

\* The end of eth_rx_frag_queue, by either.
HandlerFrag ==
  FragRestart("handler", "advance") \/ FragOverflow("handler") \/ FragRewrite("handler", "advance")
ReceiverFrag ==
  FragRestart("receiver", "idle") \/ FragOverflow("receiver") \/ FragRewrite("receiver", "idle")

\* Where the two actors are after a move of one.
LEMMA PcTo ==
  ASSUME NEW pc \in [handler : HandlerPlaces, receiver : ReceiverPlaces],
         NEW p \in HandlerPlaces
  PROVE  /\ [pc EXCEPT !.handler = p] \in [handler : HandlerPlaces, receiver : ReceiverPlaces]
         /\ [pc EXCEPT !.handler = p].handler = p
         /\ [pc EXCEPT !["handler"] = p] = [pc EXCEPT !.handler = p]
         /\ \A r \in ReceiverPlaces :
              /\ [pc EXCEPT !["receiver"] = r] \in [handler : HandlerPlaces, receiver : ReceiverPlaces]
              /\ [pc EXCEPT !["receiver"] = r].handler = pc.handler
OBVIOUS

\* What eth_rx_frag_queue writes.
LEMMA QueueTypes ==
  ASSUME RxOK, NEW f \in RxFrags, NEW who \in {"handler", "receiver"}, FragQueue(who, f)
  PROVE  /\ rxFrag' = [rxFrag EXCEPT ![RSucc(rswptr)] = f]
         /\ rxKind' = [rxKind EXCEPT ![RSucc(rswptr)] = "none"]
         /\ rxFrag' \in [RDescs -> RxFrags \cup {NoRxFrag}] /\ rxKind' \in [RDescs -> Kinds]
         /\ rswptr' = RSucc(rswptr) /\ rswptr' \in RDescs
         /\ rbdptr' = rbdptr /\ grs' = grs /\ frameOpen' = frameOpen
<1>1. RSucc(rswptr) \in RDescs
  BY RSuccIs DEF RxOK
<1> QED BY <1>1 DEF FragQueue, RxOK, Kinds

\* A descriptor that the DMA has filled and the software not looked at is in the
\* ring, with a fragment.
LEMMA ToProcess ==
  ASSUME RxInv, rxPc.handler = "process", rxIdx # rbdptr
  PROVE  /\ Start = rxIdx /\ RDist(rxIdx, RSucc(rswptr)) > 0
         /\ rxIdx \in Ring(rxIdx, rswptr) /\ rxFrag[rxIdx] \in RxFrags
<1>1. Start = rxIdx /\ rxIdx \in RDescs /\ rbdptr \in RDescs /\ rswptr \in RDescs
  BY DEF Start, HandedOn, HandingOn, RxInv, RxOK
<1>2. RDist(rxIdx, rbdptr) \in 0 .. RxDescriptors - 1 /\ RDist(rxIdx, rbdptr) # 0
  BY <1>1, RDistIs
<1>3. RDist(rxIdx, RSucc(rswptr)) \in 0 .. RxDescriptors - 1
  BY <1>1, RSuccIs, RDistIs
<1>4. RDist(rxIdx, RSucc(rswptr)) > 0
  BY <1>1, <1>2, <1>3 DEF RxInv, RxOrder
<1>5. rxIdx \in Ring(rxIdx, rswptr)
  BY <1>1, <1>4, RingLosesFirst
<1> QED BY <1>1, <1>4, <1>5 DEF RxInv, RxPlaces, RApart

\* Every step keeps the types.
LEMMA RxTypeStep ==
  ASSUME RxInv, [RxNext]_rxVars
  PROVE  RxOK'
<1> USE DEF RxInv
<1>1. CASE Receive
  <2>1. rbdptr' \in RDescs
    BY <1>1, RSuccIs DEF Receive, RxOK
  <2>2. PICK kind \in {"middle", "last", "whole", "first"} :
          /\ rxKind' = [rxKind EXCEPT ![rbdptr] = kind]
          /\ frameOpen' = (kind \in {"first", "middle"})
          /\ rawIntr' = IF frameOpen' THEN rawIntr ELSE rawIntr \cup {"RXF"}
    BY <1>1 DEF Receive
  <2>3. rxKind' \in [RDescs -> Kinds] /\ frameOpen' \in BOOLEAN /\ rawIntr' \in SUBSET {"RXF", "ROV"}
    BY <2>2 DEF RxOK, Kinds
  <2> QED BY <1>1, <2>1, <2>3 DEF Receive, RxOK
<1>2. CASE HaltEmpty \/ Overflow \/ EthIrq \/ TxReadsCtrl \/ TxWritesCtrl
  BY <1>2 DEF HaltEmpty, Overflow, EthIrq, TxReadsCtrl, ReadGrs, TxWritesCtrl, WriteBackGrs,
       isrVars, dmaVars, RxOK
<1>3. CASE HandlerWakes \/ IsrRead \/ IsrClear \/ OverflowRead \/ OverflowStop \/ OverflowReset
           \/ OverflowResume \/ ProcessEmpty \/ HandlerEnables
  <2>1. rxPc' \in [handler : HandlerPlaces, receiver : ReceiverPlaces]
    <3>1. PICK p \in HandlerPlaces : rxPc' = [rxPc EXCEPT !.handler = p]
      BY <1>3 DEF HandlerWakes, IsrRead, IsrClear, OverflowRead, OverflowStop, OverflowReset, OverflowResume, ProcessEmpty,
                  HandlerEnables, HandlerTo, HandlerPlaces, AfterOverflow
    <3> QED BY <3>1, PcTo DEF RxOK
  <2>2. /\ isrEvent' \in BOOLEAN /\ vicOn' \in BOOLEAN /\ again' \in BOOLEAN /\ processed' \in Nat
        /\ rawIntr' \in SUBSET {"RXF", "ROV"} /\ intrs' \in SUBSET {"RXF", "ROV"} /\ grs' \in BOOLEAN
        /\ grsRead' \in BOOLEAN
    <3>1. CASE HandlerWakes \/ HandlerEnables \/ ProcessEmpty
      BY <3>1 DEF HandlerWakes, HandlerEnables, ProcessEmpty, RxOK, dmaVars
    <3>2. CASE IsrRead
      BY <3>2 DEF IsrRead, RxOK, dmaVars
    <3>3. CASE IsrClear
      <4>1. rawIntr' \in SUBSET {"RXF", "ROV"}
        BY <3>3 DEF IsrClear, RxOK
      <4> QED BY <3>3, <4>1 DEF IsrClear, RxOK, dmaVars
    <3>4. CASE OverflowRead \/ OverflowStop \/ OverflowReset \/ OverflowResume
      BY <3>4 DEF OverflowRead, OverflowStop, OverflowReset, OverflowResume, RxOK, isrVars, dmaVars
    <3> QED BY <1>3, <3>1, <3>2, <3>3, <3>4
  <2>3. UNCHANGED <<rxIdx, rbdptr, rswptr, rxFrag, rxKind, frameOpen, rxQueue, held>>
    BY <1>3 DEF HandlerWakes, IsrRead, IsrClear, OverflowRead, OverflowStop, OverflowReset, OverflowResume, ProcessEmpty,
                HandlerEnables, isrVars, dmaVars
  <2> QED BY <2>1, <2>2, <2>3 DEF RxOK
<1>4. ASSUME Handler("process"), rxIdx # rbdptr, FragQueue("handler", rxFrag[rxIdx]),
             UNCHANGED <<isrVars, processed, rxIdx, rxQueue, held, grsRead>>
      PROVE  RxOK'
  <2>1. rxFrag[rxIdx] \in RxFrags
    BY <1>4, ToProcess DEF Handler
  <2>2. rxPc' \in [handler : HandlerPlaces, receiver : ReceiverPlaces]
    <3>1. rxPc' = [rxPc EXCEPT !["handler"] = "restart"] /\ "restart" \in HandlerPlaces
      BY <1>4 DEF FragQueue, HandlerPlaces
    <3> QED BY <3>1, PcTo DEF RxOK
  <2> QED BY <1>4, <2>1, <2>2, QueueTypes DEF RxOK, isrVars
<1>5. CASE ProcessWhole
  <2>1. CASE FragQueue("handler", rxFrag[rxIdx]) /\ UNCHANGED rxQueue
    BY <1>4, <1>5, <2>1 DEF ProcessWhole
  <2>2. CASE /\ rxQueue' = Append(rxQueue, rxFrag[rxIdx])
             /\ HandlerTo("advance") /\ UNCHANGED <<dmaVars, rxIrqOff>>
    <3>1. rxFrag[rxIdx] \in RxFrags
      BY <1>5, ToProcess DEF Handler, ProcessWhole
    <3>2. rxQueue' \in Seq(RxFrags)
      BY <2>2, <3>1, AppendProperties DEF RxOK
    <3>3. rxPc' \in [handler : HandlerPlaces, receiver : ReceiverPlaces]
      BY <2>2, PcTo DEF HandlerTo, HandlerPlaces, RxOK
    <3> QED BY <1>5, <2>2, <3>2, <3>3 DEF ProcessWhole, RxOK, dmaVars, isrVars
  <2> QED BY <1>5, <2>1, <2>2 DEF ProcessWhole
<1>6. CASE ProcessPart
  BY <1>4, <1>6 DEF ProcessPart
<1>7. CASE ProcessAdvance
  <2>1. rxPc' \in [handler : HandlerPlaces, receiver : ReceiverPlaces]
    <3>1. PICK p \in HandlerPlaces : rxPc' = [rxPc EXCEPT !.handler = p]
      BY <1>7 DEF ProcessAdvance, HandlerTo, HandlerPlaces
    <3> QED BY <3>1, PcTo DEF RxOK
  <2>2. rxIdx' \in RDescs /\ processed' \in Nat /\ again' \in BOOLEAN
    BY <1>7, RSuccIs DEF ProcessAdvance, RxOK
  <2> QED BY <1>7, <2>1, <2>2 DEF ProcessAdvance, RxOK, dmaVars
<1>8. CASE HandlerFrag \/ ReceiverFrag
  <2>1. rxPc' \in [handler : HandlerPlaces, receiver : ReceiverPlaces]
    <3>1. CASE HandlerFrag
      <4>1. PICK p \in HandingOn : rxPc' = [rxPc EXCEPT !["handler"] = p]
        BY <3>1 DEF HandlerFrag, FragRestart, FragOverflow, FragRewrite, HandingOn
      <4> QED BY <4>1, PcTo DEF RxOK, HandlerPlaces, HandingOn
    <3>2. CASE ReceiverFrag
      <4>1. PICK q \in ReceiverPlaces : rxPc' = [rxPc EXCEPT !["receiver"] = q]
        BY <3>2 DEF ReceiverFrag, FragRestart, FragOverflow, FragRewrite, ReceiverPlaces
      <4> QED BY <4>1, PcTo DEF RxOK, HandlerPlaces
    <3> QED BY <1>8, <3>1, <3>2
  <2>2. grs' \in BOOLEAN
    BY <1>8 DEF HandlerFrag, ReceiverFrag, FragRestart, FragOverflow, FragRewrite, RxOK, dmaVars
  <2> QED BY <1>8, <2>1, <2>2 DEF HandlerFrag, ReceiverFrag, FragRestart, FragOverflow,
       FragRewrite, RxOK, isrVars, dmaVars
<1>9. CASE GetRxFrag
  <2>1. rxQueue # <<>> /\ rxQueue' = Tail(rxQueue) /\ held' = held \cup {Head(rxQueue)}
    BY <1>9 DEF GetRxFrag
  <2>2. rxQueue' \in Seq(RxFrags) /\ held' \in SUBSET RxFrags
    BY <2>1, HeadTailProperties DEF RxOK
  <2> QED BY <1>9, <2>2 DEF GetRxFrag, RxOK, isrVars, dmaVars
<1>10. CASE FreeRxFrag
  <2>1. PICK f \in held : FragQueue("receiver", f) /\ held' = held \ {f}
    BY <1>10 DEF FreeRxFrag
  <2>2. f \in RxFrags
    BY DEF RxOK
  <2>3. rxPc' \in [handler : HandlerPlaces, receiver : ReceiverPlaces]
    BY <2>1, PcTo DEF FragQueue, HandlerPlaces, ReceiverPlaces, RxOK
  <2> QED BY <1>10, <2>1, <2>2, <2>3, QueueTypes DEF FreeRxFrag, RxOK, isrVars
<1>11. CASE UNCHANGED rxVars
  BY <1>11 DEF rxVars, RxOK
<1> QED BY <1>1, <1>2, <1>3, <1>5, <1>6, <1>7, <1>8, <1>9, <1>10, <1>11
        DEF RxNext, DmaStep, HandlerStep, ReceiverStep, HandlerFrag, ReceiverFrag

\* The steps that hand no fragment on: those that leave the ring as it is, and
\* those of the receiver that give fragments back.
StaysPut ==
  \/ HaltEmpty \/ Overflow \/ EthIrq \/ HandlerWakes \/ IsrRead \/ IsrClear
  \/ OverflowRead \/ OverflowStop \/ OverflowReset \/ OverflowResume \/ ProcessEmpty
  \/ HandlerFrag \/ ProcessAdvance \/ HandlerEnables \/ ReceiverFrag
  \/ TxReadsCtrl \/ TxWritesCtrl \/ UNCHANGED rxVars

\* Every step is one of these, or one of five others.
LEMMA RxSteps ==
  ASSUME [RxNext]_rxVars
  PROVE  StaysPut \/ Receive \/ ProcessWhole \/ ProcessPart \/ GetRxFrag \/ FreeRxFrag
BY DEF RxNext, DmaStep, HandlerStep, ReceiverStep, StaysPut, HandlerFrag, ReceiverFrag

\* At the end of eth_rx_frag_queue the handler is still about to advance.
LEMMA HandlerFragTo ==
  ASSUME RxOK, HandlerFrag
  PROVE  /\ rxPc.handler \in HandingOn /\ rxPc'.handler \in HandingOn
         /\ rxPc'.receiver = rxPc.receiver
<1>1. PICK p \in HandingOn : rxPc' = [rxPc EXCEPT !["handler"] = p]
  BY DEF HandlerFrag, FragRestart, FragOverflow, FragRewrite, HandingOn
<1>2. rxPc.handler \in HandingOn
  BY DEF HandlerFrag, FragRestart, FragOverflow, FragRewrite, HandingOn, RxOK
<1> QED BY <1>1, <1>2 DEF RxOK

\* ... and what the receiver does there is nothing to him.
LEMMA ReceiverFragTo ==
  ASSUME RxOK, ReceiverFrag \/ FreeRxFrag
  PROVE  rxPc'.handler = rxPc.handler
<1>1. PICK q \in ReceiverPlaces : rxPc' = [rxPc EXCEPT !["receiver"] = q]
  BY DEF ReceiverFrag, FragRestart, FragOverflow, FragRewrite, FreeRxFrag, FragQueue, ReceiverPlaces
<1> QED BY <1>1 DEF RxOK

\* They leave the first descriptor of the ring and the count where they are.
LEMMA StartStays ==
  ASSUME RxOK, StaysPut \/ Receive \/ GetRxFrag \/ FreeRxFrag
  PROVE  /\ Start' = Start
         /\ IsrClear \/ Done' = Done
<1>1. CASE HaltEmpty \/ Overflow \/ EthIrq \/ Receive \/ GetRxFrag \/ TxReadsCtrl \/ TxWritesCtrl
           \/ UNCHANGED rxVars
  <2>1. UNCHANGED <<rxPc, rxIdx, processed>>
    BY <1>1 DEF HaltEmpty, Overflow, EthIrq, Receive, GetRxFrag, TxReadsCtrl, ReadGrs, TxWritesCtrl,
         WriteBackGrs, rxVars
  <2> QED BY <2>1 DEF Start, Done, HandedOn, RSucc
<1>2. CASE HandlerWakes \/ IsrRead \/ OverflowRead \/ OverflowStop \/ OverflowReset
           \/ OverflowResume \/ ProcessEmpty \/ HandlerEnables \/ IsrClear
  <2>1. PICK p \in HandlerPlaces \ HandingOn : rxPc' = [rxPc EXCEPT !.handler = p]
    BY <1>2 DEF HandlerWakes, IsrRead, IsrClear, OverflowRead, OverflowStop, OverflowReset, OverflowResume, ProcessEmpty,
                HandlerEnables, HandlerTo, HandlerPlaces, HandingOn, AfterOverflow
  <2>2. rxPc'.handler = p
    BY <2>1, PcTo DEF RxOK
  <2>3. rxPc.handler \notin HandingOn /\ rxIdx' = rxIdx
    BY <1>2 DEF HandlerWakes, IsrRead, IsrClear, OverflowRead, OverflowStop, OverflowReset, OverflowResume, ProcessEmpty,
                HandlerEnables, Handler, HandingOn
  <2>4. IsrClear \/ processed' = processed
    BY <1>2 DEF HandlerWakes, IsrRead, OverflowRead, OverflowStop, OverflowReset, OverflowResume, ProcessEmpty,
                HandlerEnables
  <2> QED BY <2>2, <2>3, <2>4 DEF Start, Done, HandedOn
<1>3. CASE HandlerFrag
  <2>1. rxPc'.handler \in HandingOn /\ rxPc.handler \in HandingOn
    BY <1>3, HandlerFragTo
  <2>2. rxIdx' = rxIdx /\ processed' = processed
    BY <1>3 DEF HandlerFrag, FragRestart, FragOverflow, FragRewrite
  <2> QED BY <2>1, <2>2 DEF Start, Done, HandedOn, RSucc
<1>4. CASE ReceiverFrag \/ FreeRxFrag
  <2>1. rxPc'.handler = rxPc.handler
    BY <1>4, ReceiverFragTo
  <2>2. rxIdx' = rxIdx /\ processed' = processed
    BY <1>4 DEF ReceiverFrag, FragRestart, FragOverflow, FragRewrite, FreeRxFrag
  <2> QED BY <2>1, <2>2 DEF Start, Done, HandedOn, RSucc
<1>5. CASE ProcessAdvance
  <2>1. PICK p \in {"read", "process"} : rxPc' = [rxPc EXCEPT !.handler = p]
    BY <1>5 DEF ProcessAdvance, HandlerTo
  <2>2. rxPc'.handler \in {"read", "process"} /\ rxPc.handler = "advance"
    BY <1>5, <2>1, PcTo DEF RxOK, HandlerPlaces, ProcessAdvance, Handler
  <2>3. rxIdx' = RSucc(rxIdx) /\ processed' = processed + 1
    BY <1>5 DEF ProcessAdvance
  <2> QED BY <2>2, <2>3 DEF Start, Done, HandedOn, HandingOn
<1> QED BY <1>1, <1>2, <1>3, <1>4, <1>5 DEF StaysPut

\* What they do not write.
LEMMA RestStays ==
  ASSUME StaysPut
  PROVE  UNCHANGED <<rbdptr, rswptr, rxFrag, rxKind, rxQueue, held>>
BY DEF StaysPut, HaltEmpty, Overflow, EthIrq, HandlerWakes, IsrRead, IsrClear, OverflowRead,
       OverflowStop, OverflowReset, OverflowResume, ProcessEmpty, HandlerFrag, ReceiverFrag,
       FragRestart, FragOverflow, FragRewrite, ProcessAdvance, HandlerEnables, TxReadsCtrl, ReadGrs,
       TxWritesCtrl, WriteBackGrs, dmaVars, isrVars, rxVars

\* Handing the fragment of the first descriptor on.
LEMMA StartMoves ==
  ASSUME RxInv, ProcessWhole \/ ProcessPart
  PROVE  /\ Start = rxIdx /\ Start' = RSucc(rxIdx) /\ Done' = Done + 1 /\ rxIdx # rbdptr
         /\ rbdptr' = rbdptr /\ rawIntr' = rawIntr /\ held' = held
         /\ rxPc.handler = "process" /\ rxPc'.handler \in HandingOn
<1>1. rxPc.handler = "process" /\ rxIdx # rbdptr /\ rxIdx' = rxIdx /\ processed' = processed
      /\ rawIntr' = rawIntr /\ held' = held /\ rbdptr' = rbdptr
  BY DEF ProcessWhole, ProcessPart, Handler, isrVars, dmaVars, FragQueue
<1>2. rxPc'.handler \in HandingOn
  <2>1. PICK p \in {"advance", "restart"} :
          rxPc' = [rxPc EXCEPT !.handler = p] \/ rxPc' = [rxPc EXCEPT !["handler"] = p]
    BY DEF ProcessWhole, ProcessPart, FragQueue, HandlerTo
  <2>2. p \in HandlerPlaces /\ rxPc \in [handler : HandlerPlaces, receiver : ReceiverPlaces]
    BY DEF RxInv, RxOK, HandlerPlaces
  <2>3. /\ [rxPc EXCEPT !.handler = p].handler = p
        /\ [rxPc EXCEPT !["handler"] = p] = [rxPc EXCEPT !.handler = p]
    BY <2>2, PcTo
  <2> QED BY <2>1, <2>3 DEF HandingOn
<1> QED BY <1>1, <1>2 DEF Start, Done, HandedOn, HandingOn, RSucc

\* The order on the ring.
LEMMA RxOrderStep ==
  ASSUME RxInv, [RxNext]_rxVars
  PROVE  RxOrder'
<1> USE DEF RxInv
<1>0. /\ Start \in RDescs /\ rbdptr \in RDescs /\ rswptr \in RDescs /\ RSucc(rswptr) \in RDescs
      /\ RxDescriptors \in Nat
  BY StartIs, RingSize DEF RxOK
<1>1. /\ RDist(Start, rbdptr) \in 0 .. RxDescriptors - 1
      /\ RDist(Start, RSucc(rswptr)) \in 0 .. RxDescriptors - 1
      /\ RDist(Start, rbdptr) <= RDist(Start, RSucc(rswptr))
  BY <1>0, RDistIs DEF RxOrder
<1>2. RxOrder' <=> RDist(Start', rbdptr') <= RDist(Start', RSucc(rswptr'))
  BY DEF RxOrder, RDist, Gap, RSucc
<1>3. CASE StaysPut \/ GetRxFrag
  <2>1. Start' = Start /\ rbdptr' = rbdptr /\ rswptr' = rswptr
    BY <1>3, StartStays, RestStays DEF GetRxFrag, dmaVars
  <2> QED BY <1>1, <1>2, <2>1
<1>4. CASE Receive
  <2>1. /\ Start' = Start /\ rbdptr' = RSucc(rbdptr) /\ rswptr' = rswptr /\ rbdptr # RSucc(rswptr)
    BY <1>4, StartStays DEF Receive
  <2>2. RDist(Start, rbdptr) # RDist(Start, RSucc(rswptr))
    BY <1>0, <2>1 DEF RDescs, RDist, Gap
  <2>3. RDist(Start, RSucc(rbdptr)) =
          IF RDist(Start, rbdptr) = RxDescriptors - 1 THEN 0 ELSE RDist(Start, rbdptr) + 1
    BY <1>0, ToNext
  <2> QED BY <1>0, <1>1, <1>2, <2>1, <2>2, <2>3
<1>5. CASE ProcessWhole \/ ProcessPart
  <2>1. Start' = RSucc(Start) /\ rbdptr' = rbdptr /\ Start # rbdptr
    BY <1>5, StartMoves
  <2>2. rswptr' = rswptr \/ rswptr' = RSucc(rswptr)
    BY <1>5 DEF ProcessWhole, ProcessPart, FragQueue, dmaVars
  <2>3. RDist(RSucc(Start), rbdptr) = RDist(Start, rbdptr) - 1 /\ RDist(Start, rbdptr) > 0
    BY <1>0, <1>1, <2>1, FromNext, RDistIs
  <2>4. RDist(RSucc(Start), RSucc(rswptr)) = RDist(Start, RSucc(rswptr)) - 1
    BY <1>0, <1>1, <2>3, RingLosesFirst
  <2>5. CASE rswptr' = rswptr
    BY <1>1, <1>2, <2>1, <2>3, <2>4, <2>5
  <2>6. CASE rswptr' = RSucc(rswptr)
    <3>1. RSucc(Start) \in RDescs /\ RDist(RSucc(Start), RSucc(rswptr)) < RxDescriptors - 1
      BY <1>0, <1>1, <2>4, RSuccIs
    <3>2. RDist(RSucc(Start), RSucc(RSucc(rswptr))) = RDist(RSucc(Start), RSucc(rswptr)) + 1
      BY <1>0, <3>1, RingGainsLast
    <3> QED BY <1>1, <1>2, <2>1, <2>3, <2>4, <2>6, <3>2
  <2> QED BY <2>2, <2>5, <2>6
<1>6. CASE FreeRxFrag
  <2>1. Start' = Start /\ rbdptr' = rbdptr /\ rswptr' = RSucc(rswptr)
    BY <1>6, StartStays DEF FreeRxFrag, FragQueue
  <2>2. held # {}
    BY <1>6 DEF FreeRxFrag
  <2>3. RDist(Start, RSucc(rswptr)) < RxDescriptors - 1
    BY <2>2, RoomToFree
  <2>4. RDist(Start, RSucc(RSucc(rswptr))) = RDist(Start, RSucc(rswptr)) + 1
    BY <1>0, <2>3, RingGainsLast
  <2> QED BY <1>1, <1>2, <2>1, <2>4
<1> QED BY <1>3, <1>4, <1>5, <1>6, RxSteps

\* No step puts a received fragment in two places, or loses one.
LEMMA RxPlacesStep ==
  ASSUME RxInv, [RxNext]_rxVars
  PROVE  RxPlaces'
<1> USE DEF RxInv
<1> DEFINE fl == Ring(Start, rswptr)
<1>0. /\ Start \in RDescs /\ rbdptr \in RDescs /\ rswptr \in RDescs /\ RSucc(rswptr) \in RDescs
      /\ RxDescriptors \in Nat /\ rxQueue \in Seq(RxFrags) /\ held \subseteq RxFrags
      /\ rxFrag \in [RDescs -> RxFrags \cup {NoRxFrag}]
      /\ RPlaced(fl, rxFrag, rxQueue, held) /\ RApart(fl, rxFrag, rxQueue, held)
  BY StartIs, RingSize DEF RxOK, RxPlaces
<1>1. RxPlaces' <=> /\ RPlaced(Ring(Start', rswptr'), rxFrag', rxQueue', held')
                    /\ RApart(Ring(Start', rswptr'), rxFrag', rxQueue', held')
  BY DEF RxPlaces, RPlaced, RApart, Ring, RDist, Gap, RSucc, RDescs
<1> HIDE DEF fl
<1>2. CASE StaysPut \/ Receive
  <2>1. Start' = Start /\ UNCHANGED <<rswptr, rxFrag, rxQueue, held>>
    BY <1>2, StartStays, RestStays DEF Receive
  <2> QED BY <1>0, <1>1, <2>1 DEF fl
<1>3. CASE GetRxFrag
  <2>1. /\ Start' = Start /\ rswptr' = rswptr /\ rxFrag' = rxFrag /\ rxQueue # <<>>
        /\ rxQueue' = Tail(rxQueue) /\ held' = held \cup {Head(rxQueue)}
    BY <1>3, StartStays DEF GetRxFrag, dmaVars
  <2>2. /\ RPlaced(fl, rxFrag, Tail(rxQueue), held \cup {Head(rxQueue)})
        /\ RApart(fl, rxFrag, Tail(rxQueue), held \cup {Head(rxQueue)})
    BY <1>0, <2>1, MoveGot
  <2> QED BY <1>1, <2>1, <2>2 DEF fl
<1>4. CASE FreeRxFrag
  <2>1. PICK f \in held : FragQueue("receiver", f) /\ held' = held \ {f}
    BY <1>4 DEF FreeRxFrag
  <2>2. f \in RxFrags
    BY <1>0
  <2>3. /\ Start' = Start /\ rxQueue' = rxQueue /\ rswptr' = RSucc(rswptr)
        /\ rxFrag' = [rxFrag EXCEPT ![RSucc(rswptr)] = f]
    BY <1>4, <2>1, StartStays DEF FreeRxFrag, FragQueue
  <2>4. RDist(Start, RSucc(rswptr)) < RxDescriptors - 1
    BY <2>1, RoomToFree
  <2>5. RSucc(rswptr) \notin fl /\ Ring(Start, RSucc(rswptr)) = fl \cup {RSucc(rswptr)}
    BY <1>0, <2>4, RingGainsLast DEF fl
  <2>6. /\ RPlaced(fl \cup {RSucc(rswptr)}, [rxFrag EXCEPT ![RSucc(rswptr)] = f], rxQueue, held \ {f})
        /\ RApart(fl \cup {RSucc(rswptr)}, [rxFrag EXCEPT ![RSucc(rswptr)] = f], rxQueue, held \ {f})
    BY <1>0, <2>1, <2>2, <2>5, MoveFreed
  <2> QED BY <1>1, <2>1, <2>3, <2>5, <2>6
<1>5. CASE ProcessWhole \/ ProcessPart
  <2>1. /\ Start = rxIdx /\ Start' = RSucc(Start) /\ held' = held
        /\ RDist(Start, RSucc(rswptr)) > 0 /\ Start \in fl /\ rxFrag[Start] \in RxFrags
    BY <1>5, StartMoves, ToProcess DEF fl
  <2>2. /\ Ring(RSucc(Start), rswptr) = fl \ {Start}
        /\ RDist(RSucc(Start), RSucc(rswptr)) = RDist(Start, RSucc(rswptr)) - 1
    BY <1>0, <2>1, RingLosesFirst DEF fl
  <2>3. CASE /\ rxQueue' = Append(rxQueue, rxFrag[rxIdx])
             /\ HandlerTo("advance") /\ UNCHANGED <<dmaVars, rxIrqOff>>
    <3>1. /\ RPlaced(fl \ {Start}, rxFrag, Append(rxQueue, rxFrag[Start]), held)
          /\ RApart(fl \ {Start}, rxFrag, Append(rxQueue, rxFrag[Start]), held)
      BY <1>0, <2>1, MoveQueued
    <3>2. rxFrag' = rxFrag /\ rswptr' = rswptr
      BY <2>3 DEF dmaVars
    <3> QED BY <1>1, <2>1, <2>2, <2>3, <3>1, <3>2
  <2>4. CASE FragQueue("handler", rxFrag[rxIdx]) /\ UNCHANGED rxQueue
    <3>1. RSucc(Start) \in RDescs /\ RDist(RSucc(Start), RSucc(rswptr)) < RxDescriptors - 1
      <4>1. RDist(Start, RSucc(rswptr)) \in 0 .. RxDescriptors - 1
        BY <1>0, RDistIs
      <4> QED BY <1>0, <2>2, <4>1, RSuccIs
    <3>2. Ring(RSucc(Start), RSucc(rswptr)) = (fl \ {Start}) \cup {RSucc(rswptr)}
      BY <1>0, <2>2, <3>1, RingGainsLast
    <3>3. RSucc(rswptr) \notin fl
      <4>1. RDist(Start, RSucc(rswptr)) \in 0 .. RxDescriptors - 1
        BY <1>0, RDistIs
      <4> QED BY <4>1 DEF fl, Ring
    <3>4. /\ RPlaced((fl \ {Start}) \cup {RSucc(rswptr)}, [rxFrag EXCEPT ![RSucc(rswptr)] = rxFrag[Start]],
                     rxQueue, held)
          /\ RApart((fl \ {Start}) \cup {RSucc(rswptr)}, [rxFrag EXCEPT ![RSucc(rswptr)] = rxFrag[Start]],
                    rxQueue, held)
      BY <1>0, <2>1, <3>3, MoveBack
    <3>5. rxFrag' = [rxFrag EXCEPT ![RSucc(rswptr)] = rxFrag[Start]] /\ rswptr' = RSucc(rswptr)
      BY <2>1, <2>4 DEF FragQueue
    <3> QED BY <1>1, <2>1, <2>4, <3>2, <3>4, <3>5
  <2> QED BY <1>5, <2>3, <2>4 DEF ProcessWhole, ProcessPart
<1> QED BY <1>2, <1>3, <1>4, <1>5, RxSteps

\* A stopped receive DMA has no released descriptor left, outside the two places
\* that restart it.
LEMMA RxRunStep ==
  ASSUME RxInv, [RxNext]_rxVars
  PROVE  ReceiverRuns'
<1> USE DEF RxInv
<1>1. CASE Receive
  <2>1. rbdptr' = RSucc(rbdptr) /\ grs' = (rbdptr = rswptr) /\ rswptr' = rswptr
    BY <1>1 DEF Receive
  <2> QED BY <2>1 DEF ReceiverRuns, RSucc
<1>2. CASE HaltEmpty
  BY <1>2 DEF HaltEmpty, ReceiverRuns, RSucc
<1>3. CASE OverflowStop \/ OverflowReset
  <2>1. rxPc'.handler \in {"reset", "resume"}
    <3>1. HandlerTo("reset") \/ HandlerTo("resume")
      BY <1>3 DEF OverflowStop, OverflowReset
    <3> QED BY <3>1 DEF HandlerTo, RxOK
  <2> QED BY <2>1 DEF ReceiverRuns
<1>4. CASE OverflowResume
  BY <1>4 DEF OverflowResume, ReceiverRuns
<1>5. ASSUME NEW who \in {"handler", "receiver"}, NEW next, FragRestart(who, next)
      PROVE ReceiverRuns'
  <2>1. grs' = grs /\ rbdptr' = rbdptr /\ rswptr' = rswptr
    BY <1>5 DEF FragRestart, dmaVars
  <2>2. CASE StoppedShort
    <3>1. rxIrqOff = who
      BY <1>5 DEF FragRestart, RxOwner
    <3> QED BY <1>5, <2>2, <3>1 DEF FragRestart, ReceiverRuns
  <2>3. CASE ~StoppedShort
    BY <2>1, <2>3 DEF StoppedShort, ReceiverRuns, RSucc
  <2> QED BY <2>2, <2>3
<1>6. ASSUME NEW who \in {"handler", "receiver"}, NEW f, FragQueue(who, f) PROVE ReceiverRuns'
  BY <1>6, RxAssumption DEF FragQueue, ReceiverRuns
<1>7. CASE Overflow \/ EthIrq \/ GetRxFrag \/ UNCHANGED rxVars
  BY <1>7 DEF Overflow, EthIrq, GetRxFrag, rxVars, isrVars, dmaVars, ReceiverRuns, RSucc
<1>8. CASE HandlerWakes \/ IsrRead \/ IsrClear \/ OverflowRead \/ ProcessEmpty \/ ProcessAdvance
           \/ HandlerEnables \/ (ProcessWhole /\ UNCHANGED <<dmaVars, rxIrqOff>>)
  <2>1. rxPc.handler \notin {"reset", "resume"} /\ UNCHANGED <<grs, rbdptr, rswptr, rxIrqOff>>
    BY <1>8 DEF HandlerWakes, IsrRead, IsrClear, OverflowRead, ProcessEmpty, ProcessAdvance,
                HandlerEnables, ProcessWhole, Handler, dmaVars
  <2> QED BY <2>1 DEF ReceiverRuns, RSucc
<1>9. CASE ProcessWhole \/ ProcessPart \/ FreeRxFrag
  BY <1>6, <1>8, <1>9 DEF ProcessWhole, ProcessPart, FreeRxFrag
<1>10. ASSUME NEW who \in {"handler", "receiver"}, FragOverflow(who) PROVE ReceiverRuns'
  <2>1. rxIrqOff = who /\ rxIrqOff' = rxIrqOff
    BY <1>10 DEF FragOverflow, RxOwner
  <2> QED BY <2>1 DEF ReceiverRuns
<1>11. ASSUME NEW who, NEW next, FragRewrite(who, next) PROVE ReceiverRuns'
  BY <1>11 DEF FragRewrite, ReceiverRuns
<1>12. CASE TxReadsCtrl
  <2>1. /\ rxPc' = rxPc /\ rxIrqOff = NoActor /\ grs' = grs /\ rbdptr' = rbdptr
        /\ RSucc(rswptr') = RSucc(rswptr)
    BY <1>12 DEF TxReadsCtrl, ReadGrs, dmaVars
  <2> QED BY <2>1, RxAssumption DEF ReceiverRuns
<1>13. CASE TxWritesCtrl
  <2>1. /\ rxPc' = rxPc /\ rxIrqOff = "client" /\ grs' = grsRead /\ rbdptr' = rbdptr
        /\ RSucc(rswptr') = RSucc(rswptr)
    BY <1>13 DEF TxWritesCtrl, WriteBackGrs
  <2> QED BY <2>1 DEF ReceiverRuns, RxOwner
<1> QED BY <1>1, <1>2, <1>3, <1>4, <1>5, <1>7, <1>8, <1>9, <1>10, <1>11, <1>12, <1>13
        DEF RxNext, DmaStep, HandlerStep, ReceiverStep

\* Who is where with interrupts suspended.
LEMMA RxOwnerStep ==
  ASSUME RxInv, [RxNext]_rxVars
  PROVE  RxOwner'
<1> USE DEF RxInv
<1>0. /\ rxPc \in [handler : HandlerPlaces, receiver : ReceiverPlaces]
      /\ NoActor \notin {"handler", "receiver", "client"} /\ grs \in BOOLEAN
  BY RxAssumption DEF RxOK
<1>1. CASE Receive \/ HaltEmpty \/ Overflow \/ GetRxFrag \/ UNCHANGED rxVars
  <2>1. UNCHANGED <<rxPc, rxIrqOff, grsRead>> /\ (grs => grs')
    BY <1>1 DEF Receive, HaltEmpty, Overflow, GetRxFrag, dmaVars, rxVars
  <2> QED BY <2>1 DEF RxOwner
<1>2. CASE EthIrq
  <2>1. UNCHANGED <<rxPc, rxIrqOff, grs, grsRead>>
    BY <1>2 DEF EthIrq, dmaVars
  <2> QED BY <2>1 DEF RxOwner
<1>3. CASE HandlerWakes \/ IsrRead \/ IsrClear \/ OverflowRead \/ OverflowStop \/ OverflowReset
           \/ OverflowResume \/ ProcessEmpty \/ ProcessAdvance \/ HandlerEnables
           \/ (ProcessWhole /\ UNCHANGED <<dmaVars, rxIrqOff>> /\ HandlerTo("advance"))
  <2>1. /\ rxIrqOff \in {NoActor, "handler"} /\ rxIrqOff' = rxIrqOff
    BY <1>3 DEF HandlerWakes, IsrRead, IsrClear, OverflowRead, OverflowStop, OverflowReset,
                OverflowResume, ProcessEmpty, ProcessAdvance, HandlerEnables, ProcessWhole, Handler
  <2>2. PICK p \in HandlerPlaces \ {"restart", "rov", "rewrite"} : rxPc' = [rxPc EXCEPT !.handler = p]
    BY <1>3 DEF HandlerWakes, IsrRead, IsrClear, OverflowRead, OverflowStop, OverflowReset,
                OverflowResume, ProcessEmpty, ProcessAdvance, HandlerEnables, HandlerTo,
                HandlerPlaces, AfterOverflow
  <2>3. rxPc'.handler = p /\ rxPc'.receiver = rxPc.receiver
    BY <1>0, <2>2
  <2> QED BY <1>0, <2>1, <2>3 DEF RxOwner
<1>4. ASSUME NEW f, FragQueue("handler", f), Handler("process") PROVE RxOwner'
  <2>1. rxIrqOff' = "handler" /\ rxPc'.receiver = rxPc.receiver
    BY <1>0, <1>4 DEF FragQueue
  <2>2. rxPc.receiver = "idle"
    BY <1>0, <1>4 DEF Handler, RxOwner
  <2> QED BY <2>1, <2>2 DEF RxOwner
<1>5. CASE FreeRxFrag
  <2>1. /\ rxIrqOff' = "receiver" /\ rxPc'.handler = rxPc.handler /\ rxPc.handler = "wait"
    BY <1>0, <1>5 DEF FreeRxFrag, FragQueue, Receiver
  <2> QED BY <2>1 DEF RxOwner
<1>6. CASE HandlerFrag
  <2>1. rxIrqOff = "handler" /\ rxPc.receiver = "idle" /\ rxPc'.receiver = "idle"
    BY <1>0, <1>6, HandlerFragTo DEF HandlerFrag, FragRestart, FragOverflow, FragRewrite, RxOwner
  <2>2. \/ rxIrqOff' = "handler"
        \/ rxIrqOff' = NoActor /\ rxPc' = [rxPc EXCEPT !["handler"] = "advance"]
    BY <1>6, <2>1 DEF HandlerFrag, FragRestart, FragOverflow, FragRewrite
  <2> QED BY <1>0, <2>1, <2>2 DEF RxOwner
<1>7. CASE ReceiverFrag
  <2>1. /\ rxIrqOff = "receiver" /\ rxPc'.handler = rxPc.handler
        /\ rxPc.handler \notin {"restart", "rov", "rewrite"}
    BY <1>0, <1>7, ReceiverFragTo DEF ReceiverFrag, FragRestart, FragOverflow, FragRewrite, RxOwner
  <2>2. \/ rxIrqOff' = "receiver"
        \/ rxIrqOff' = NoActor /\ rxPc' = [rxPc EXCEPT !["receiver"] = "idle"]
    BY <1>7, <2>1 DEF ReceiverFrag, FragRestart, FragOverflow, FragRewrite
  <2> QED BY <1>0, <2>1, <2>2 DEF RxOwner
<1>8. CASE TxReadsCtrl
  <2>1. /\ rxPc' = rxPc /\ rxPc.handler = "wait" /\ rxIrqOff = NoActor /\ grs' = grs
        /\ grsRead' = grs /\ rxIrqOff' = "client"
    BY <1>8 DEF TxReadsCtrl, ReadGrs, dmaVars
  <2> QED BY <1>0, <2>1 DEF RxOwner
<1>9. CASE TxWritesCtrl
  <2>1. rxPc' = rxPc /\ rxIrqOff = "client" /\ rxIrqOff' = NoActor
    BY <1>9 DEF TxWritesCtrl, WriteBackGrs
  <2> QED BY <1>0, <2>1 DEF RxOwner
<1>10. CASE ProcessWhole \/ ProcessPart
  BY <1>3, <1>4, <1>10 DEF ProcessWhole, ProcessPart
<1> QED BY <1>1, <1>2, <1>3, <1>5, <1>6, <1>7, <1>8, <1>9, <1>10
        DEF RxNext, DmaStep, HandlerStep, ReceiverStep, HandlerFrag, ReceiverFrag

\* While the handler waits it has been called, or can be.
LEMMA RxLineStep ==
  ASSUME RxInv, [RxNext]_rxVars
  PROVE  RxLine'
<1> USE DEF RxInv
<1>1. CASE Receive \/ HaltEmpty \/ Overflow \/ EthIrq \/ GetRxFrag \/ TxReadsCtrl \/ TxWritesCtrl
           \/ UNCHANGED rxVars
  BY <1>1 DEF Receive, HaltEmpty, Overflow, EthIrq, GetRxFrag, TxReadsCtrl, ReadGrs, TxWritesCtrl,
       WriteBackGrs, isrVars, dmaVars, rxVars, RxLine
<1>2. CASE HandlerWakes \/ IsrRead \/ IsrClear \/ OverflowRead \/ OverflowStop \/ OverflowReset
           \/ OverflowResume \/ ProcessEmpty \/ ProcessAdvance
  <2>1. PICK p \in HandlerPlaces \ {"wait"} : rxPc' = [rxPc EXCEPT !.handler = p]
    BY <1>2 DEF HandlerWakes, IsrRead, IsrClear, OverflowRead, OverflowStop, OverflowReset, OverflowResume, ProcessEmpty,
                ProcessAdvance, HandlerTo, HandlerPlaces, AfterOverflow
  <2> QED BY <2>1, PcTo DEF RxOK, RxLine
<1>3. CASE HandlerEnables
  BY <1>3 DEF HandlerEnables, RxLine
<1>4. CASE ProcessWhole \/ ProcessPart
  BY <1>4, StartMoves DEF RxLine, HandingOn
<1>5. CASE HandlerFrag
  BY <1>5, HandlerFragTo DEF RxLine, HandingOn
<1>6. CASE ReceiverFrag \/ FreeRxFrag
  <2>1. rxPc'.handler = rxPc.handler
    BY <1>6, ReceiverFragTo
  <2>2. isrEvent' = isrEvent /\ vicOn' = vicOn
    BY <1>6 DEF ReceiverFrag, FragRestart, FragOverflow, FragRewrite, FreeRxFrag, isrVars
  <2> QED BY <2>1, <2>2 DEF RxLine
<1> QED BY <1>1, <1>2, <1>3, <1>4, <1>5, <1>6
        DEF RxNext, DmaStep, HandlerStep, ReceiverStep, HandlerFrag, ReceiverFrag

\* What the causes have to be raised for, after a step.
LEMMA AllRaisedNext ==
  AllRaised' <=>
    \A d \in RDescs : RDist(Start', d) < RDist(Start', rbdptr') /\ rxKind'[d] \in {"whole", "last"}
                        => "RXF" \in rawIntr'
<1>1. ASSUME NEW d PROVE Ends(d)' <=> /\ RDist(Start', d) < RDist(Start', rbdptr')
                                       /\ rxKind'[d] \in {"whole", "last"}
  BY DEF Ends, RDist, Gap
<1>2. AllRaised' <=> \A d \in RDescs : Ends(d)' => "RXF" \in rawIntr'
  BY DEF AllRaised, RDescs
<1> QED BY <1>1, <1>2

\* ... and the same of the frames that come late.
LEMMA LateRaisedNext ==
  LateRaised' <=>
    \A d \in RDescs :
      RDist(Start', d) < RDist(Start', rbdptr') /\ rxKind'[d] \in {"whole", "last"} /\ Late(d)'
        => "RXF" \in rawIntr'
<1>1. ASSUME NEW d PROVE Ends(d)' <=> /\ RDist(Start', d) < RDist(Start', rbdptr')
                                       /\ rxKind'[d] \in {"whole", "last"}
  BY DEF Ends, RDist, Gap
<1>2. LateRaised' <=> \A d \in RDescs : Ends(d)' /\ Late(d)' => "RXF" \in rawIntr'
  BY DEF LateRaised, RDescs
<1> QED BY <1>1, <1>2

\* When a frame is a late one, after the step.
LEMMA LateNext ==
  ASSUME NEW d
  PROVE  Late(d)' <=> RDist(Start', d) + Done' >= RxDescriptors - 1
BY DEF Late, RDist, Gap

\* A step that completes no frame and clears no cause leaves them as they are.
LEMMA RaisedKept ==
  ASSUME "RXF" \in rawIntr => "RXF" \in rawIntr',
         \A d \in RDescs :
           RDist(Start', d) < RDist(Start', rbdptr') /\ rxKind'[d] \in {"whole", "last"}
             => Ends(d) /\ RDist(Start', d) + Done' = RDist(Start, d) + Done
  PROVE  (AllRaised => AllRaised') /\ (LateRaised => LateRaised')
<1>1. AllRaised => AllRaised'
  BY AllRaisedNext DEF AllRaised
<1>2. \A d \in RDescs :
        RDist(Start', d) < RDist(Start', rbdptr') /\ rxKind'[d] \in {"whole", "last"}
          => Ends(d) /\ (Late(d)' => Late(d))
  BY LateNext DEF Late
<1>3. LateRaised => LateRaised'
  BY <1>2, LateRaisedNext DEF LateRaised
<1> QED BY <1>1, <1>3

\* No complete frame is in the ring but that its cause is raised, or that the
\* processing that is under way comes to it.
LEMMA RxFramesStep ==
  ASSUME RxInv, [RxNext]_rxVars
  PROVE  RxFrames'
<1> USE DEF RxInv
<1>0. /\ Start \in RDescs /\ rbdptr \in RDescs /\ rswptr \in RDescs /\ RSucc(rswptr) \in RDescs
      /\ RxDescriptors \in Nat /\ Done \in Nat /\ rxKind \in [RDescs -> Kinds]
      /\ RDist(Start, rbdptr) \in 0 .. RxDescriptors - 1
  BY StartIs, RingSize, RDistIs DEF RxOK, Done
<1>1. RxFrames' <=>
        /\ rxPc'.handler \in {"wait", "read", "clear", "enable"} => AllRaised'
        /\ rxPc'.handler \in Overflowing => AllRaised' \/ "RXF" \in intrs'
        /\ rxPc'.handler \in Overflowing \cup HandingOn \cup {"process"} => LateRaised'
  BY DEF RxFrames
<1>2. AllRaised => LateRaised
  BY DEF AllRaised, LateRaised
<1>3. CASE StaysPut /\ ~IsrClear
  <2>1. Start' = Start /\ Done' = Done /\ UNCHANGED <<rbdptr, rxKind>>
    BY <1>3, StartStays, RestStays
  <2>2. "RXF" \in rawIntr => "RXF" \in rawIntr'
    BY <1>3 DEF StaysPut, HaltEmpty, Overflow, EthIrq, HandlerWakes, IsrRead, OverflowRead,
         OverflowStop, OverflowReset, OverflowResume, ProcessEmpty, HandlerFrag, ReceiverFrag,
         FragRestart, FragOverflow, FragRewrite, ProcessAdvance, HandlerEnables, TxReadsCtrl, ReadGrs,
         TxWritesCtrl, WriteBackGrs, dmaVars, isrVars, rxVars
  <2>3. (AllRaised => AllRaised') /\ (LateRaised => LateRaised')
    BY <2>1, <2>2, RaisedKept DEF Ends
  <2>4. CASE HaltEmpty \/ Overflow \/ EthIrq \/ TxReadsCtrl \/ TxWritesCtrl \/ UNCHANGED rxVars
             \/ HandlerFrag \/ ReceiverFrag
    <3>1. intrs' = intrs
      BY <2>4 DEF HaltEmpty, Overflow, EthIrq, TxReadsCtrl, ReadGrs, TxWritesCtrl, WriteBackGrs,
           HandlerFrag, ReceiverFrag, FragRestart, FragOverflow, FragRewrite, isrVars, dmaVars, rxVars
    <3>2. rxPc'.handler = rxPc.handler \/ (rxPc.handler \in HandingOn /\ rxPc'.handler \in HandingOn)
      <4>1. CASE HaltEmpty \/ Overflow \/ EthIrq \/ TxReadsCtrl \/ TxWritesCtrl \/ UNCHANGED rxVars
        BY <4>1 DEF HaltEmpty, Overflow, EthIrq, TxReadsCtrl, ReadGrs, TxWritesCtrl, WriteBackGrs, rxVars
      <4> QED BY <2>4, <4>1, HandlerFragTo, ReceiverFragTo
    <3> QED BY <1>1, <2>3, <3>1, <3>2 DEF RxFrames, HandingOn, Overflowing
  <2>5. CASE HandlerWakes \/ IsrRead \/ HandlerEnables
    <3>1. rxPc.handler \in {"wait", "read", "enable"}
      BY <2>5 DEF HandlerWakes, IsrRead, HandlerEnables, Handler
    <3>2. PICK p \in {"wait", "read", "clear", "enable"} : rxPc' = [rxPc EXCEPT !.handler = p]
      BY <2>5 DEF HandlerWakes, IsrRead, HandlerEnables, HandlerTo
    <3>3. rxPc'.handler = p
      BY <3>2, PcTo DEF RxOK, HandlerPlaces
    <3> QED BY <1>1, <2>3, <3>1, <3>3 DEF RxFrames, HandingOn, Overflowing
  <2>6. CASE OverflowRead \/ OverflowStop \/ OverflowReset
    <3>1. rxPc.handler \in Overflowing /\ intrs' = intrs
      BY <2>6 DEF OverflowRead, OverflowStop, OverflowReset, Handler, Overflowing, isrVars
    <3>2. PICK p \in Overflowing : rxPc' = [rxPc EXCEPT !.handler = p]
      BY <2>6 DEF OverflowRead, OverflowStop, OverflowReset, HandlerTo, Overflowing
    <3>3. rxPc'.handler = p
      BY <3>2, PcTo DEF RxOK, HandlerPlaces, Overflowing
    <3> QED BY <1>1, <2>3, <3>1, <3>3 DEF RxFrames, HandingOn, Overflowing
  <2>7. CASE OverflowResume
    <3>1. rxPc.handler = "resume" /\ intrs' = intrs
      BY <2>7 DEF OverflowResume, Handler, isrVars
    <3>2. rxPc'.handler = AfterOverflow
      BY <2>7, PcTo DEF OverflowResume, HandlerTo, RxOK, HandlerPlaces, AfterOverflow
    <3> QED BY <1>1, <2>3, <3>1, <3>2 DEF RxFrames, AfterOverflow, HandingOn, Overflowing
  <2>8. CASE ProcessEmpty
    <3>1. rxPc'.handler = "enable" /\ rxPc.handler = "process" /\ rxIdx = rbdptr
      BY <2>8, PcTo DEF ProcessEmpty, Handler, HandlerTo, RxOK, HandlerPlaces
    <3>2. RDist(Start, rbdptr) = 0
      BY <1>0, <3>1, RDistIs DEF Start, HandedOn, HandingOn
    <3>3. \A d \in RDescs : ~Ends(d)
      BY <1>0, <3>2, RDistIs DEF Ends
    <3> QED BY <1>1, <2>3, <3>1, <3>3 DEF AllRaised, HandingOn, Overflowing
  <2>9. CASE ProcessAdvance
    <3>1. /\ rxPc.handler = "advance" /\ Done = processed'
          /\ processed' \in Nat
      BY <2>9 DEF ProcessAdvance, Handler, Done, HandedOn, HandingOn, RxOK
    <3>2. rxPc'.handler = IF processed' >= RxDescriptors THEN "read" ELSE "process"
      BY <2>9, PcTo DEF ProcessAdvance, HandlerTo, RxOK, HandlerPlaces
    <3>3. LateRaised
      BY <3>1 DEF RxFrames, HandingOn
    <3>4. processed' >= RxDescriptors => AllRaised
      <4>1. SUFFICES ASSUME processed' >= RxDescriptors, NEW d \in RDescs, Ends(d)
                     PROVE  "RXF" \in rawIntr
        BY DEF AllRaised
      <4>2. RDist(Start, d) \in 0 .. RxDescriptors - 1
        BY <1>0, RDistIs
      <4>3. RDist(Start, d) + Done >= RxDescriptors - 1
        BY <1>0, <3>1, <4>1, <4>2
      <4> QED BY <3>3, <4>1, <4>3 DEF LateRaised, Late
    <3> QED BY <1>1, <2>3, <3>2, <3>3, <3>4 DEF HandingOn, Overflowing
  <2> QED BY <1>3, <2>4, <2>5, <2>6, <2>7, <2>8, <2>9 DEF StaysPut
<1>4. CASE IsrClear
  <2>1. Start' = Start /\ UNCHANGED <<rbdptr, rxKind>>
    BY <1>4, StartStays, RestStays DEF StaysPut
  <2>2. rxPc.handler = "clear" /\ intrs' = intrs /\ rawIntr' = rawIntr \ intrs /\ processed' = 0
    BY <1>4 DEF IsrClear, Handler
  <2>3. rxPc'.handler = IF "ROV" \in intrs THEN "overflow" ELSE AfterOverflow
    BY <1>4, PcTo DEF IsrClear, HandlerTo, RxOK, HandlerPlaces, AfterOverflow
  <2>4. Done' = 0
    BY <2>2, <2>3 DEF Done, HandedOn, HandingOn, AfterOverflow
  <2>5. LateRaised'
    <3>1. ASSUME NEW d \in RDescs, RDist(Start', d) < RDist(Start', rbdptr'),
                 Late(d)'
          PROVE  FALSE
      <4>1. RDist(Start, d) \in 0 .. RxDescriptors - 1
        BY <1>0, RDistIs
      <4> QED BY <1>0, <2>1, <2>4, <3>1, <4>1, LateNext
    <3> QED BY <3>1, LateRaisedNext
  <2>6. "RXF" \notin intrs => AllRaised'
    <3>1. AllRaised
      BY <2>2 DEF RxFrames
    <3> QED BY <2>1, <2>2, <3>1, AllRaisedNext DEF AllRaised, Ends
  <2> QED BY <1>1, <2>2, <2>3, <2>5, <2>6 DEF AfterOverflow, HandingOn, Overflowing
<1>5. CASE Receive
  <2>1. PICK kind \in Kinds :
          /\ rxKind' = [rxKind EXCEPT ![rbdptr] = kind]
          /\ kind \in {"whole", "last"} => "RXF" \in rawIntr'
    <3>1. PICK kind \in {"middle", "last", "whole", "first"} :
            /\ rxKind' = [rxKind EXCEPT ![rbdptr] = kind]
            /\ frameOpen' = (kind \in {"first", "middle"})
            /\ rawIntr' = IF frameOpen' THEN rawIntr ELSE rawIntr \cup {"RXF"}
      BY <1>5 DEF Receive
    <3> QED BY <3>1 DEF Kinds
  <2>2. /\ Start' = Start /\ Done' = Done /\ rbdptr' = RSucc(rbdptr) /\ rxPc' = rxPc /\ intrs' = intrs
    BY <1>5, StartStays DEF Receive, IsrClear, Handler, HandlerTo, Done, HandedOn
  <2>3. "RXF" \in rawIntr => "RXF" \in rawIntr'
    BY <1>5 DEF Receive
  <2>4. CASE "RXF" \in rawIntr'
    <3>1. AllRaised' /\ LateRaised'
      BY <2>4, AllRaisedNext, LateRaisedNext
    <3> QED BY <1>1, <2>2, <3>1
  <2>5. CASE "RXF" \notin rawIntr'
    <3>1. ASSUME NEW d \in RDescs, RDist(Start', d) < RDist(Start', rbdptr'),
                 rxKind'[d] \in {"whole", "last"}
          PROVE  Ends(d)
      <4>1. d # rbdptr /\ rxKind[d] \in {"whole", "last"}
        BY <1>0, <2>1, <2>5, <3>1
      <4>2. RDist(Start, RSucc(rbdptr)) =
              IF RDist(Start, rbdptr) = RxDescriptors - 1 THEN 0 ELSE RDist(Start, rbdptr) + 1
        BY <1>0, ToNext
      <4>3. RDist(Start, d) \in 0 .. RxDescriptors - 1 /\ RDist(Start, d) # RDist(Start, rbdptr)
        BY <1>0, <4>1, RDistIs DEF RDescs, RDist, Gap
      <4>4. RDist(Start, d) < RDist(Start, rbdptr)
        BY <1>0, <2>2, <3>1, <4>2, <4>3
      <4> QED BY <4>1, <4>4 DEF Ends
    <3>2. (AllRaised => AllRaised') /\ (LateRaised => LateRaised')
      BY <2>2, <2>3, <3>1, RaisedKept
    <3> QED BY <1>1, <2>2, <3>2 DEF RxFrames
  <2> QED BY <2>4, <2>5
<1>6. CASE GetRxFrag
  <2>1. Start' = Start /\ Done' = Done /\ UNCHANGED <<rbdptr, rxKind, rawIntr, intrs, rxPc>>
    BY <1>6, StartStays DEF GetRxFrag, isrVars, dmaVars, Done, HandedOn
  <2>2. (AllRaised => AllRaised') /\ (LateRaised => LateRaised')
    BY <2>1, RaisedKept DEF Ends
  <2> QED BY <1>1, <2>1, <2>2 DEF RxFrames
<1>7. CASE FreeRxFrag
  <2>1. /\ Start' = Start /\ rbdptr' = rbdptr /\ rawIntr' = rawIntr /\ intrs' = intrs
        /\ processed' = processed /\ rxKind' = [rxKind EXCEPT ![RSucc(rswptr)] = "none"]
    BY <1>7, StartStays DEF FreeRxFrag, FragQueue, isrVars
  <2>2. rxPc'.handler = rxPc.handler
    <3> QED BY <1>7, ReceiverFragTo
  <2>3. Done' = Done
    BY <2>1, <2>2 DEF Done, HandedOn
  <2>4. \A d \in RDescs : rxKind'[d] \in {"whole", "last"} => rxKind[d] \in {"whole", "last"}
    BY <1>0, <2>1
  <2>5. (AllRaised => AllRaised') /\ (LateRaised => LateRaised')
    BY <2>1, <2>3, <2>4, RaisedKept DEF Ends
  <2> QED BY <1>1, <2>1, <2>2, <2>5 DEF RxFrames
<1>8. CASE ProcessWhole \/ ProcessPart
  <2>1. /\ Start' = RSucc(Start) /\ Done' = Done + 1 /\ rbdptr' = rbdptr /\ rawIntr' = rawIntr
        /\ Start # rbdptr /\ rxPc.handler = "process" /\ rxPc'.handler \in HandingOn
    BY <1>8, StartMoves
  <2>2. \A d \in RDescs : rxKind'[d] \in {"whole", "last"} => rxKind[d] \in {"whole", "last"}
    <3>1. rxKind' = rxKind \/ rxKind' = [rxKind EXCEPT ![RSucc(rswptr)] = "none"]
      BY <1>8 DEF ProcessWhole, ProcessPart, FragQueue, dmaVars
    <3> QED BY <1>0, <3>1
  <2>3. RDist(RSucc(Start), rbdptr) = RDist(Start, rbdptr) - 1
    BY <1>0, <2>1, FromNext
  <2>4. ASSUME NEW d \in RDescs, RDist(Start', d) < RDist(Start', rbdptr'),
               rxKind'[d] \in {"whole", "last"}
        PROVE  Ends(d) /\ RDist(Start', d) + Done' = RDist(Start, d) + Done
    <3>1. RDist(RSucc(Start), d) = IF d = Start THEN RxDescriptors - 1 ELSE RDist(Start, d) - 1
      BY <1>0, FromNext
    <3>2. RDist(Start, d) \in 0 .. RxDescriptors - 1
      BY <1>0, RDistIs
    <3>3. RDist(Start, d) < RDist(Start, rbdptr) /\ RDist(Start', d) + Done' = RDist(Start, d) + Done
      BY <1>0, <2>1, <2>3, <2>4, <3>1, <3>2
    <3> QED BY <2>2, <2>4, <3>3 DEF Ends
  <2>5. LateRaised => LateRaised'
    BY <2>1, <2>4, RaisedKept
  <2> QED BY <1>1, <2>1, <2>5 DEF RxFrames, HandingOn, Overflowing
<1> QED BY <1>3, <1>4, <1>5, <1>6, <1>7, <1>8, RxSteps

\* eth_hardware_init loads every fragment on a descriptor of its own.
LEMMA LoadedRing ==
  ASSUME RxHardwareInit, NEW n \in Nat, n = Cardinality(RxFrags)
  PROVE  /\ \A d \in 0 .. n - 1 : rxFrag[d] \in RxFrags
         /\ \A d, e \in 0 .. n - 1 : rxFrag[d] = rxFrag[e] => d = e
<1> DEFINE loaded == 0 .. n - 1
           g == [f \in RxFrags |-> CHOOSE d \in loaded : rxFrag[d] = f]
<1>1. \A f \in RxFrags : g[f] \in loaded /\ rxFrag[g[f]] = f
  BY DEF RxHardwareInit
<1>2. n - 1 \in Int /\ 0 \in Int
  OBVIOUS
<1>3. IsFiniteSet(loaded) /\ Cardinality(loaded) = n
  <2> DEFINE m == n - 1
  <2>1. m \in Int /\ n = m + 1 /\ m >= -1
    OBVIOUS
  <2> HIDE DEF m
  <2>2. IsFiniteSet(0 .. m) /\ Cardinality(0 .. m) = IF 0 > m THEN 0 ELSE m - 0 + 1
    BY <1>2, <2>1, FS_Interval
  <2>3. Cardinality(0 .. m) = n
    BY <2>1, <2>2
  <2> QED BY <2>2, <2>3 DEF m
<1>4. g \in [RxFrags -> loaded]
  BY <1>1
<1> HIDE DEF g, loaded
<1>5. g \in Injection(RxFrags, loaded)
  BY <1>1, <1>4 DEF Injection, IsInjective
<1>6. g \in Surjection(RxFrags, loaded)
  BY <1>3, <1>5, FS_Injection
<1>7. \A d \in loaded : \E f \in RxFrags : g[f] = d
  BY <1>6 DEF Surjection
<1>8. \A d \in loaded : rxFrag[d] \in RxFrags /\ g[rxFrag[d]] = d
  BY <1>1, <1>7
<1>9. \A d, e \in loaded : rxFrag[d] = rxFrag[e] => d = e
  BY <1>8
<1> QED BY <1>8, <1>9 DEF loaded

\* The invariant holds when the handler waits for the first time.
LEMMA RxInitInv == RxInit => RxInv
<1> SUFFICES ASSUME RxInit PROVE RxInv
  OBVIOUS
<1> DEFINE n == Cardinality(RxFrags)
<1>0. n \in Nat /\ n > 0 /\ n < RxDescriptors /\ RxDescriptors \in Nat
  <2>1. n # 0
    BY RxAssumption, FS_EmptySet
  <2> QED BY <2>1, RingSize, RingNeverFull
<1>1. /\ rbdptr = 0 /\ rswptr = n - 1 /\ rxIdx = 0 /\ grs = FALSE /\ rawIntr = {}
      /\ rxFrag \in [RDescs -> RxFrags \cup {NoRxFrag}]
      /\ \A f \in RxFrags : \E d \in 0 .. n - 1 : rxFrag[d] = f
  BY DEF RxInit, RxHardwareInit
<1>2. /\ rxPc = [handler |-> "wait", receiver |-> "idle"] /\ vicOn = TRUE /\ frameOpen = FALSE
      /\ isrEvent = FALSE /\ intrs = {} /\ again = FALSE /\ processed = 0 /\ held = {}
      /\ rxKind = [d \in RDescs |-> "none"] /\ rxQueue = <<>>
      /\ rxIrqOff = NoActor /\ grsRead = FALSE
  BY DEF RxInit, LineEnabled, RxRingInit
<1>3. /\ \A d \in 0 .. n - 1 : rxFrag[d] \in RxFrags
      /\ \A d, e \in 0 .. n - 1 : rxFrag[d] = rxFrag[e] => d = e
  BY <1>0, LoadedRing DEF RxInit
<1> HIDE DEF n
<1>4. /\ 0 \in RDescs /\ n - 1 \in RDescs /\ Start = 0 /\ RSucc(n - 1) = n /\ n \in RDescs
      /\ RDist(0, 0) = 0 /\ RDist(0, n) = n
  <2>1. 0 \in RDescs /\ n - 1 \in RDescs /\ n \in RDescs
    BY <1>0 DEF RDescs
  <2>2. Start = 0
    BY <1>1, <1>2 DEF Start, HandedOn, HandingOn
  <2>3. RSucc(n - 1) = n
    BY <1>0, <2>1, RSuccIs
  <2> QED BY <1>0, <2>1, <2>2, <2>3 DEF RDist, Gap
<1>5. RxOK
  <2>1. rxPc \in [handler : HandlerPlaces, receiver : ReceiverPlaces]
    BY <1>2 DEF HandlerPlaces, ReceiverPlaces
  <2>2. rxKind \in [RDescs -> Kinds]
    BY <1>2 DEF Kinds
  <2>3. rswptr \in RDescs /\ rbdptr \in RDescs /\ rxIdx \in RDescs
    BY <1>1, <1>4
  <2> QED BY <1>1, <1>2, <2>1, <2>2, <2>3 DEF RxOK
<1>6. RxOrder
  BY <1>0, <1>1, <1>4 DEF RxOrder
<1>7. RxPlaces
  <2>1. Ring(Start, rswptr) = 0 .. n - 1
    <3>1. \A d \in RDescs : RDist(0, d) < RDist(0, n) <=> d < n
      BY <1>0, <1>4 DEF RDescs, RDist, Gap
    <3>2. \A d : d \in Ring(Start, rswptr) <=> d \in RDescs /\ d < n
      BY <1>1, <1>4, <3>1 DEF Ring
    <3>3. \A d : d \in RDescs /\ d < n <=> d \in 0 .. n - 1
      BY <1>0 DEF RDescs
    <3> QED BY <3>2, <3>3
  <2>2. Len(rxQueue) = 0 /\ 1 .. Len(rxQueue) = {}
    BY <1>2
  <2>3. RPlaced(0 .. n - 1, rxFrag, rxQueue, held)
    BY <1>1 DEF RPlaced
  <2>4. RApart(0 .. n - 1, rxFrag, rxQueue, held)
    BY <1>2, <1>3, <2>2 DEF RApart
  <2> QED BY <2>1, <2>3, <2>4 DEF RxPlaces
<1>8. RxFrames
  <2>1. rxPc.handler = "wait"
    BY <1>2
  <2>2. AllRaised
    BY <1>2 DEF AllRaised, Ends
  <2> QED BY <2>1, <2>2 DEF RxFrames, HandingOn, Overflowing
<1>9. RxLine /\ RxOwner /\ ReceiverRuns
  BY <1>1, <1>2, RxAssumption DEF RxLine, RxOwner, ReceiverRuns
<1> QED BY <1>5, <1>6, <1>7, <1>8, <1>9 DEF RxInv

\* The invariant of the receive side.
LEMMA RxInvHolds == RxSide => []RxInv
<1>1. RxInv /\ [RxNext]_rxVars => RxInv'
  BY RxTypeStep, RxOrderStep, RxPlacesStep, RxFramesStep, RxLineStep, RxOwnerStep, RxRunStep
     DEF RxInv
<1> QED BY <1>1, RxInitInv, PTL DEF RxSide

\* What the invariant says of one fragment, in numbers.
LEMMA RxPlacesCount == RxInv => RxFragsInOnePlace
<1> SUFFICES ASSUME RxInv PROVE RxFragsInOnePlace
  OBVIOUS
<1> USE DEF RxInv
<1>0. /\ Start \in RDescs /\ rbdptr \in RDescs /\ RSucc(rswptr) \in RDescs
      /\ RxDescriptors \in Nat
  BY StartIs, RingSize DEF RxOK
<1>1. InRing = Ring(Start, rswptr)
  <2>1. InRing = {d \in RDescs : Between(d, Start, RSucc(rswptr))}
    BY DEF InRing, Start, HandedOn, HandingOn
  <2>2. \A d \in RDescs : Between(d, Start, RSucc(rswptr)) <=> RDist(Start, d) < RDist(Start, RSucc(rswptr))
    BY <1>0, BetweenIs
  <2> QED BY <2>1, <2>2 DEF Ring
<1>2. rbdptr # RSucc(rswptr) => rbdptr \in InRing
  <2>1. rbdptr # RSucc(rswptr) => RDist(Start, rbdptr) # RDist(Start, RSucc(rswptr))
    BY <1>0 DEF RDescs, RDist, Gap
  <2>2. RDist(Start, rbdptr) \in 0 .. RxDescriptors - 1 /\ RDist(Start, RSucc(rswptr)) \in 0 .. RxDescriptors - 1
    BY <1>0, RDistIs
  <2>3. RDist(Start, rbdptr) <= RDist(Start, RSucc(rswptr))
    BY DEF RxOrder
  <2>4. rbdptr # RSucc(rswptr) => RDist(Start, rbdptr) < RDist(Start, RSucc(rswptr))
    BY <2>1, <2>2, <2>3
  <2> QED BY <1>0, <1>1, <2>4 DEF Ring
<1>3. ASSUME NEW f \in RxFrags
      PROVE  Cardinality({d \in InRing : rxFrag[d] = f})
               + Cardinality({i \in DOMAIN rxQueue : rxQueue[i] = f})
               + (IF f \in held THEN 1 ELSE 0) = 1
  <2> DEFINE D == {d \in InRing : rxFrag[d] = f}
             Q == {i \in DOMAIN rxQueue : rxQueue[i] = f}
  <2>0. DOMAIN rxQueue = 1 .. Len(rxQueue)
    BY DEF RxOK
  <2>1. \A d, e \in D : d = e
    BY <1>1 DEF RxPlaces, RApart
  <2>2. \A i, j \in Q : i = j
    BY <2>0 DEF RxPlaces, RApart
  <2>3. D # {} => Q = {} /\ f \notin held
    BY <1>1, <2>0 DEF RxPlaces, RApart
  <2>4. Q # {} => f \notin held
    BY <2>0 DEF RxPlaces, RApart
  <2>5. D # {} \/ Q # {} \/ f \in held
    BY <1>1, <2>0 DEF RxPlaces, RPlaced
  <2> HIDE DEF D, Q
  <2>6. /\ Cardinality(D) = IF D = {} THEN 0 ELSE 1
        /\ Cardinality(Q) = IF Q = {} THEN 0 ELSE 1
    BY <2>1, <2>2, AtMostOne
  <2>7. Cardinality(D) + Cardinality(Q) + (IF f \in held THEN 1 ELSE 0) = 1
    BY <2>3, <2>4, <2>5, <2>6
  <2> QED BY <2>7 DEF D, Q
<1> QED BY <1>2, <1>3 DEF RxFragsInOnePlace

\* What the invariant says while the handler waits.
LEMMA RxWaitingNoticed == RxInv => RxWorkNoticed
<1> SUFFICES ASSUME RxInv, rxPc.handler = "wait"
             PROVE  /\ isrEvent \/ vicOn
                    /\ \A d \in RDescs : Between(d, rxIdx, rbdptr) /\ rxKind[d] \in {"whole", "last"}
                         => "RXF" \in rawIntr
  BY DEF RxWorkNoticed
<1> USE DEF RxInv
<1>1. isrEvent \/ vicOn
  BY DEF RxLine
<1>2. Start = rxIdx /\ rxIdx \in RDescs /\ rbdptr \in RDescs
  BY DEF Start, HandedOn, HandingOn, RxOK
<1>3. AllRaised
  BY DEF RxFrames
<1>4. \A d \in RDescs : Between(d, rxIdx, rbdptr) => RDist(Start, d) < RDist(Start, rbdptr)
  BY <1>2, BetweenIs
<1> QED BY <1>1, <1>3, <1>4 DEF AllRaised, Ends

\* Of the received fragments none is lost or in two places, and the DMA writes
\* only those of the ring, whatever the DMA, the interrupt, the handler and the
\* receiver do and in whatever order.
THEOREM RxFragsKept == RxSide => []RxFragsInOnePlace
BY RxInvHolds, RxPlacesCount, PTL

\* The hand-over between the interrupt, the line mask, the event and the causes
\* forgets no complete frame.
THEOREM FramesNoticed == RxSide => []RxWorkNoticed
BY RxInvHolds, RxWaitingNoticed, PTL

\* No restart of the receive DMA is missed.
THEOREM ReceiverKeptRunning == RxSide => []ReceiverRuns
<1>1. RxInv => ReceiverRuns
  BY DEF RxInv
<1> QED BY <1>1, RxInvHolds, PTL

-----------------------------------------------------------------------------
(* The two sides together.                                                 *)

\* Whoever is between its read and its write of ETH_ETH_CTRL lets the other side's
\* software not run.
EthInv ==
  /\ irqOff \in Clients \cup {NoTask, "receive"} /\ DOMAIN txPc = Clients
  /\ RxWindow <=> irqOff = "receive"
  /\ TxWindow <=> rxIrqOff = "client"
  /\ \A t \in Clients : txPc[t] \in {"kick", "restart"} => irqOff = t

\* What a client does to the suspension of interrupts.
LEMMA ClientOwns ==
  ASSUME EthInv, NEW t \in Clients, ClientStep(t)
  PROVE  /\ irqOff' \in Clients \cup {NoTask, "receive"} /\ DOMAIN txPc' = Clients
         /\ irqOff = "receive" <=> irqOff' = "receive"
         /\ \A u \in Clients : txPc'[u] \in {"kick", "restart"} => irqOff' = u
<1> USE DEF EthInv
<1>0. NoTask \notin Clients /\ "receive" \notin Clients \cup {NoTask}
  BY TxAssumption
<1>1. CASE FragAlloc(t) \/ GetRingRes(t) \/ FragWait(t) \/ FragTake(t) \/ SendDrop(t)
  BY <1>1 DEF FragAlloc, GetRingRes, FragWait, FragTake, SendDrop, GoTo
<1>2. CASE RingClean(t) \/ FragPost(t)
  <2>1. irqOff' = irqOff
    BY <1>2 DEF RingClean, FragPost
  <2>2. \/ txPc' = txPc
        \/ \E p \in {"waitsem", "clean", "idle"} :
             \/ txPc' = [txPc EXCEPT ![t] = p]
             \/ txPc' = [txPc EXCEPT ![t] = p, ![Head(semQueue)] = "take"]
    BY <1>2 DEF RingClean, FragPost, PostBy, GoTo
  <2> QED BY <2>1, <2>2
<1>3. CASE SendInstall(t)
  <2>1. irqOff \in {NoTask, t} /\ irqOff' = t /\ txPc' = [txPc EXCEPT ![t] = "kick"]
    BY <1>3 DEF SendInstall, At, Runs, GoTo
  <2> QED BY <1>0, <2>1
<1>4. CASE SendKick(t) \/ SendRestart(t)
  <2>1. /\ irqOff \in {NoTask, t} /\ txPc[t] \in {"kick", "restart"}
        /\ \/ irqOff' = irqOff /\ txPc' = [txPc EXCEPT ![t] = "restart"]
           \/ irqOff' = NoTask /\ txPc' = [txPc EXCEPT ![t] = "idle"]
    BY <1>4 DEF SendKick, SendRestart, At, Runs, GoTo
  <2> QED BY <1>0, <2>1
<1> QED BY <1>1, <1>2, <1>3, <1>4 DEF ClientStep

\* The receive side's software never suspends interrupts in a client's name.
LEMMA RxTurnOwns ==
  ASSUME EthIrq \/ HandlerStep \/ ReceiverStep, rxIrqOff # "client"
  PROVE  rxIrqOff' # "client"
<1>1. NoActor # "client"
  BY RxAssumption
<1>2. rxIrqOff' \in {rxIrqOff, NoActor, "handler", "receiver"}
  BY DEF EthIrq, HandlerStep, ReceiverStep, HandlerWakes, IsrRead, IsrClear, OverflowRead,
         OverflowStop, OverflowReset, OverflowResume, ProcessEmpty, ProcessWhole, ProcessPart,
         FragRestart, FragOverflow, FragRewrite, ProcessAdvance, HandlerEnables, GetRxFrag,
         FreeRxFrag, FragQueue
<1> QED BY <1>1, <1>2

\* Each step of the driver is one of either side's, or of its environment, or none.
LEMMA EthStep ==
  ASSUME EthInv, [EthNext]_ethVars
  PROVE  EthInv' /\ [TxNext]_txVars /\ [RxNext]_rxVars
<1> USE DEF EthInv
<1>0. NoTask \notin Clients /\ "receive" \notin Clients \cup {NoTask} /\ NoActor # "client"
  BY TxAssumption, RxAssumption
<1>1. CASE Transmit /\ UNCHANGED rxVars
  <2>1. UNCHANGED <<irqOff, txPc, rxPc, rxIrqOff>>
    BY <1>1 DEF Transmit, rxVars
  <2> QED BY <1>1, <2>1 DEF TxNext, RxWindow, TxWindow
<1>2. CASE DmaStep /\ UNCHANGED txVars
  <2>1. UNCHANGED <<irqOff, txPc, rxPc, rxIrqOff>>
    BY <1>2 DEF DmaStep, Receive, HaltEmpty, Overflow, txVars
  <2> QED BY <1>2, <2>1 DEF RxNext, RxWindow, TxWindow
<1>3. CASE RxTurn
  <2>1. EthIrq \/ HandlerStep \/ ReceiverStep
    BY <1>3 DEF RxTurn
  <2>2. irqOff \in {NoTask, "receive"} /\ ~TxWindow
    BY <1>0, <1>3 DEF RxTurn, InterruptsOn, TxWindow
  <2>3. rxIrqOff' # "client"
    BY <2>1, <2>2, RxTurnOwns
  <2>4. CASE ~RxWindow /\ RxWindow' /\ ~gtsLost /\ ReadGts
    <3>1. txPc' = txPc /\ irqOff' = "receive" /\ irqOff = NoTask
      BY <2>2, <2>4 DEF ReadGts
    <3> QED BY <1>0, <2>1, <2>2, <2>3, <2>4, <3>1 DEF TxNext, RxReadsCtrl, RxNext, TxWindow
  <2>5. CASE RxWindow /\ ~RxWindow' /\ WriteBackGts
    <3>1. txPc' = txPc /\ irqOff' = NoTask /\ irqOff = "receive"
      BY <2>5 DEF WriteBackGts
    <3> QED BY <1>0, <2>1, <2>2, <2>3, <2>5, <3>1 DEF TxNext, RxWritesCtrl, RxNext, TxWindow
  <2>6. CASE (RxWindow <=> RxWindow') /\ UNCHANGED txVars
    <3>1. txPc' = txPc /\ irqOff' = irqOff
      BY <2>6 DEF txVars
    <3> QED BY <2>1, <2>2, <2>3, <2>6, <3>1 DEF RxNext, TxWindow
  <2>7. RxWindow \in BOOLEAN /\ RxWindow' \in BOOLEAN
    BY DEF RxWindow
  <2> QED BY <1>3, <2>4, <2>5, <2>6, <2>7 DEF RxTurn
<1>4. CASE TxTurn
  <2>1. PICK t \in Clients : ClientStep(t)
    BY <1>4 DEF TxTurn
  <2>2. /\ irqOff' \in Clients \cup {NoTask, "receive"} /\ DOMAIN txPc' = Clients
        /\ irqOff = "receive" <=> irqOff' = "receive"
        /\ \A u \in Clients : txPc'[u] \in {"kick", "restart"} => irqOff' = u
    BY <2>1, ClientOwns
  <2>3. TxNext
    BY <2>1 DEF TxNext
  <2>4. rxPc.handler = "wait" /\ ~isrEvent /\ rxIrqOff \in {NoActor, "client"}
    BY <1>4 DEF TxTurn, ClientMay
  <2>5. CASE ~TxWindow /\ TxWindow' /\ ReadGrs
    <3>1. rxPc' = rxPc /\ rxIrqOff' = "client" /\ rxIrqOff = NoActor
      BY <2>4, <2>5 DEF ReadGrs
    <3> QED BY <2>2, <2>3, <2>4, <2>5, <3>1 DEF RxNext, TxReadsCtrl, RxWindow
  <2>6. CASE TxWindow /\ ~TxWindow' /\ WriteBackGrs
    <3>1. rxPc' = rxPc /\ rxIrqOff' = NoActor /\ rxIrqOff = "client"
      BY <2>6 DEF WriteBackGrs
    <3> QED BY <1>0, <2>2, <2>3, <2>6, <3>1 DEF RxNext, TxWritesCtrl, RxWindow
  <2>7. CASE (TxWindow <=> TxWindow') /\ UNCHANGED rxVars
    <3>1. rxPc' = rxPc /\ rxIrqOff' = rxIrqOff
      BY <2>7 DEF rxVars
    <3> QED BY <2>2, <2>3, <2>7, <3>1 DEF RxWindow
  <2>8. TxWindow \in BOOLEAN /\ TxWindow' \in BOOLEAN
    BY DEF TxWindow
  <2> QED BY <1>4, <2>5, <2>6, <2>7, <2>8 DEF TxTurn
<1>5. CASE LinkTurn
  <2>1. UNCHANGED <<irqOff, txPc, rxPc, rxIrqOff>>
    BY <1>5 DEF LinkTurn, LinkLost, LinkNegotiated, LinkTo, rxVars
  <2> QED BY <1>5, <2>1 DEF LinkTurn, TxNext, RxWindow, TxWindow
<1>6. CASE UNCHANGED ethVars
  <2>1. UNCHANGED txVars /\ UNCHANGED rxVars
    BY <1>6 DEF ethVars
  <2>2. UNCHANGED <<irqOff, txPc, rxPc, rxIrqOff>>
    BY <2>1 DEF txVars, rxVars
  <2> QED BY <2>1, <2>2 DEF RxWindow, TxWindow
<1> QED BY <1>1, <1>2, <1>3, <1>4, <1>5, <1>6 DEF EthNext

\* The transmit side sees of the receive side no more than the steps of its environment:
\* what is proved above of TxSide is so of the driver, for every number of clients,
\* fragments and descriptors, ...
THEOREM TxSideOfTheDriver == EthSpec => TxSide
<1>1. EthInit => EthInv
  BY TxAssumption, RxAssumption
     DEF EthInit, TxInit, RxInit, EthInv, RxWindow, TxWindow
<1> QED BY <1>1, EthStep, PTL DEF EthSpec, EthInit, TxSide

\* ... and so does the receive side see of the transmit side.
THEOREM RxSideOfTheDriver == EthSpec => RxSide
<1>1. EthInit => EthInv
  BY TxAssumption, RxAssumption
     DEF EthInit, TxInit, RxInit, EthInv, RxWindow, TxWindow
<1> QED BY <1>1, EthStep, PTL DEF EthSpec, EthInit, RxSide
=============================================================================
