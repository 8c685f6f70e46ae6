---------------------------- MODULE ServicesProofs ----------------------------
(***************************************************************************)
(* What the runs check of the services, for every value of the constants.  *)
(* Each property holds because of a larger invariant:                      *)
(*                                                                         *)
(* UART: a reader that found no input and is on its way to wait has a post *)
(* ahead of it if input came meanwhile; outside the ISR no cause is read.  *)
(*                                                                         *)
(* Management commands: from its wake-up until it enables the interrupt    *)
(* again the task runs with it masked, and the command belongs to the host *)
(* until the doorbell is rung.                                             *)
(*                                                                         *)
(* Heap: chunks and blocks are aligned, and every unit of memory is in     *)
(* exactly one of them. A chunk may be handed out whole only when it has   *)
(* the size asked for, and freeing joins neighbours only.                  *)
(*                                                                         *)
(* Sleeping: the ticks counted, the pending one and the counter give the   *)
(* time, so that a task that reads them with no interrupt pending reads    *)
(* the time, and the ISR never a later one; the queue is ordered and has   *)
(* every sleeper once, and what is left after a wake-up is not due yet.    *)
(*                                                                         *)
(* Flash: an update writes only the first copy of its type (Confined); a   *)
(* valid bit of a copy that is never written stays true although it was    *)
(* found at boot (BitsHold), so an update that is allowed has an image to  *)
(* fall back to (BackupThere) and owes it (Updating); and what was read    *)
(* back before the update goes on is the new image (WrittenTo), so that    *)
(* ERR_OK means all of it. All of this until a short read has passed for a *)
(* whole one (misread).                                                    *)
(*                                                                         *)
(* Partition table: the entries of the table in memory are always some     *)
(* copy's or Bad, and the caller's buffer holds what some listed partition *)
(* holds, or Bad.                                                          *)
(***************************************************************************)
EXTENDS SleepQueue, UartPl011, MgmtCommands, Heap, FlashUpdater, Ptm, ListLemmas

-----------------------------------------------------------------------------
(* The UART.                                                               *)

UartTypes == semRx \in Nat /\ txFull \in BOOLEAN /\ rxFull \in BOOLEAN /\ inIsr \in BOOLEAN

\* A reader on its way to wait finds a post if input came after its test; the ISR
\* has read causes only while it runs.
UartInv ==
  /\ ReaderServed
  /\ readerPc = "wait" /\ ~RxEmpty => semRx > 0
  /\ ~inIsr => mis = {}
  /\ NoByteStranded

\* Every step keeps the types ...
LEMMA UartTypeStep ==
  ASSUME UartTypes, [UartNext]_uartVars
  PROVE  UartTypes'
<1> USE DEF UartTypes
<1>1. CASE ByteSent \/ ByteReceived \/ IsrEnter
  BY <1>1 DEF ByteSent, ByteReceived, IsrEnter, txSide, rxSide
<1>2. CASE IsrWork
  <2>1. semRx' \in Nat
    BY <1>2 DEF IsrWork, RestartReader
  <2>2. txFull' \in BOOLEAN /\ rxFull' \in BOOLEAN /\ inIsr' \in BOOLEAN
    BY <1>2, Zenon DEF IsrWork
  <2> QED BY <2>1, <2>2
<1>3. CASE Putc \/ PutcPolled
  BY <1>3 DEF Putc, PushesOut, PutcPolled, rxSide
<1>4. CASE GetcWait \/ WaitSemRx \/ GetcTake
  BY <1>4 DEF GetcWait, WaitSemRx, GetcTake, txSide
<1>5. CASE UNCHANGED uartVars
  BY <1>5 DEF uartVars
<1> QED BY <1>1, <1>2, <1>3, <1>4, <1>5 DEF UartNext

\* ... and the invariant.
LEMMA UartStep ==
  ASSUME UartTypes, UartInv, [UartNext]_uartVars
  PROVE  UartInv'
<1> USE DEF UartInv, ReaderServed, NoByteStranded, RxEmpty, TxEmpty
<1>1. CASE ByteSent \/ ByteReceived \/ IsrEnter
  BY <1>1 DEF ByteSent, ByteReceived, IsrEnter, Raised, txSide, rxSide
<1>2. CASE IsrWork
  <2>1. /\ readerPc' = "blocked" => rxHead = rxTail'
        /\ readerPc' = "wait" /\ rxHead # rxTail' => semRx' > 0
    BY <1>2, SemRxCounts DEF IsrWork, RestartReader, UartTypes
  <2>2. rxHead' = rxHead /\ txTail' = txTail /\ ris' = ris /\ mis' = {} /\ txMasked' = txMasked
    BY <1>2 DEF IsrWork
  <2>3. txHead' # txTail /\ ~txMasked => txFull' \/ "TX" \in ris
    BY <1>2 DEF IsrWork
  <2>4. rxFull' => "RX" \in ris
    BY <1>2 DEF IsrWork
  <2> QED BY <2>1, <2>2, <2>3, <2>4
<1>3. CASE Putc \/ PutcPolled
  <2>1. txFull' /\ UNCHANGED <<rxSide, mis, inIsr, rxFull, ris, txMasked>>
    BY <1>3 DEF Putc, PushesOut, PutcPolled, UartTypes
  <2> QED BY <2>1 DEF rxSide
<1>4. CASE GetcWait \/ WaitSemRx \/ GetcTake
  BY <1>4 DEF GetcWait, WaitSemRx, GetcTake, txSide, UartTypes
<1>5. CASE UNCHANGED uartVars
  BY <1>5 DEF uartVars
<1> QED BY <1>1, <1>2, <1>3, <1>4, <1>5 DEF UartNext

\* The invariant of the UART.
LEMMA UartInvHolds == UartSpec => [](UartTypes /\ UartInv)
<1>1. UartInit => UartInv
  BY DEF UartInit, UartInv, ReaderServed, NoByteStranded, RxEmpty, TxEmpty
<1>2. UartInit => UartTypes
  <2>1. UartInit => semRx \in Nat
    BY DEF UartInit
  <2>2. UartInit => txFull \in BOOLEAN /\ rxFull \in BOOLEAN /\ inIsr \in BOOLEAN
    BY Zenon DEF UartInit
  <2> QED BY <2>1, <2>2 DEF UartTypes
<1> QED BY <1>1, <1>2, UartTypeStep, UartStep, PTL DEF UartSpec

\* A reader is not left blocked with input in the ring, for every size of the rings
\* and every limit of the semaphore's counter.
THEOREM ReaderAlwaysServed == UartSpec => []ReaderServed
<1>1. UartInv => ReaderServed
  BY DEF UartInv
<1> QED BY <1>1, UartInvHolds, PTL

\* A byte in the receiver has its interrupt to come, and one in the transmit ring
\* too, unless the UART was configured with the transmit interrupt masked.
THEOREM BytesKeepMoving == UartSpec => []NoByteStranded
<1>1. UartInv => NoByteStranded
  BY DEF UartInv
<1> QED BY <1>1, UartInvHolds, PTL

-----------------------------------------------------------------------------
(* The doorbell.                                                           *)

MgmtTypes ==
  /\ sent \in Nat /\ rung \in Nat /\ executed \in Nat
  /\ mgmtPc \in {"wait", "run", "unforce", "enable", "done", "reply"}

\* From the wake-up to the enabling of the line the interrupt is masked; the command
\* is the host's until it has rung, the handler's until it is done.
MgmtInv ==
  /\ mgmtPc \in {"wait", "reply"} =>
       /\ sent = (IF spare14 THEN executed + 1 ELSE executed)
       /\ rung = executed \/ rung = sent
       /\ rung > executed <=> forced
       /\ softLine <=> ~cmdEvent
       /\ cmdEvent => forced
  /\ mgmtPc \in {"run", "unforce", "enable", "done"} =>
       /\ spare14 /\ ~cmdEvent /\ rung = sent
       /\ executed = (IF mgmtPc = "run" THEN sent - 1 ELSE sent)
  /\ mgmtPc \in {"run", "unforce", "enable"} => ~softLine
  /\ mgmtPc \in {"enable", "done"} => ~forced
  /\ mgmtPc = "done" => softLine

\* Every step keeps it.
LEMMA MgmtStep ==
  ASSUME MgmtTypes, MgmtInv, [MgmtNext]_mgmtVars
  PROVE  MgmtTypes' /\ MgmtInv'
<1> USE DEF MgmtTypes
<1>1. CASE HostQueue \/ HostRing \/ HostTakesReply
  BY <1>1 DEF MgmtInv, HostQueue, HostRing, HostTakesReply, hostVars
<1>2. CASE SoftIrq
  BY <1>2 DEF MgmtInv, SoftIrq, hostVars
<1>3. CASE CmdWakes
  BY <1>3 DEF MgmtInv, CmdWakes, hostVars
<1>4. CASE CmdRun
  BY <1>4 DEF MgmtInv, CmdRun, hostVars
<1>5. CASE CmdUnforce \/ CmdEnable
  BY <1>5 DEF MgmtInv, CmdUnforce, CmdEnable, hostVars
<1>6. CASE CmdDone \/ CmdReply
  BY <1>6 DEF MgmtInv, CmdDone, CmdReply, hostVars
<1>7. CASE UNCHANGED mgmtVars
  BY <1>7 DEF mgmtVars, MgmtInv
<1> QED BY <1>1, <1>2, <1>3, <1>4, <1>5, <1>6, <1>7 DEF MgmtNext

\* A command is run once for each that the host queues and rings for, and the
\* handler is neither left waiting with one nor woken without.
THEOREM CommandsRunOnce == MgmtSpec => []CommandOnce
<1>1. MgmtInit => MgmtTypes /\ MgmtInv
  BY DEF MgmtInit, MgmtTypes, MgmtInv
<1>2. MgmtTypes /\ MgmtInv => CommandOnce
  BY DEF MgmtTypes, MgmtInv, CommandOnce
<1> QED BY <1>1, <1>2, MgmtStep, PTL DEF MgmtSpec

\* A set without two members has one or none.
LEMMA NoneOrOne ==
  ASSUME NEW S, \A x, y \in S : x = y
  PROVE  Cardinality(S) = IF S = {} THEN 0 ELSE 1
<1>1. CASE S # {}
  <2>1. PICK x \in S : TRUE
    BY <1>1
  <2>2. S = {x}
    BY <2>1
  <2> QED BY <1>1, <2>2, FS_Singleton
<1> QED BY <1>1, FS_EmptySet

-----------------------------------------------------------------------------
(* Lists of chunks.                                                        *)

Chunks == [at : Nat, size : Nat]
Covers(c, u) == c.at <= u /\ u < c.at + c.size

\* A list without its entry i.
LEMMA WithoutIs ==
  ASSUME NEW T, NEW p \in Seq(T), NEW i \in 1 .. Len(p)
  PROVE  /\ Without(p, i) \in Seq(T) /\ Len(Without(p, i)) = Len(p) - 1
         /\ \A k \in 1 .. Len(p) - 1 : Without(p, i)[k] = IF k < i THEN p[k] ELSE p[k + 1]
BY OutIs DEF Without, IsWithout

\* A list with c behind its entry i.
LEMMA AfterIs ==
  ASSUME NEW T, NEW p \in Seq(T), NEW i \in 0 .. Len(p), NEW c \in T
  PROVE  After(p, i, c) \in Seq(T) /\ IsAfter(After(p, i, c), p, i, c)
BY InIs DEF After

-----------------------------------------------------------------------------
(* The heap. Unit u belongs to one chunk of list p or to one block of B.   *)

One(p, B, u) ==
  /\ (\E i \in 1 .. Len(p) : Covers(p[i], u)) \/ (\E b \in B : Covers(b, u))
  /\ \A i, j \in 1 .. Len(p) : Covers(p[i], u) /\ Covers(p[j], u) => i = j
  /\ \A b, c \in B : Covers(b, u) /\ Covers(c, u) => b = c
  /\ \A i \in 1 .. Len(p) : \A b \in B : ~(Covers(p[i], u) /\ Covers(b, u))

\* A chunk becomes a block.
LEMMA OneTaken ==
  ASSUME NEW p \in Seq(Chunks), NEW i \in 1 .. Len(p), NEW B, NEW b, NEW u,
         Covers(b, u) <=> Covers(p[i], u), One(p, B, u)
  PROVE  One(Without(p, i), B \cup {b}, u)
<1> DEFINE q == Without(p, i)
<1>0. Len(p) \in Nat /\ i \in Nat /\ 1 <= i /\ i <= Len(p)
  OBVIOUS
<1>a. /\ Len(q) = Len(p) - 1
      /\ \A k \in 1 .. Len(p) - 1 : q[k] = IF k < i THEN p[k] ELSE p[k + 1]
  BY WithoutIs, Zenon
<1>1. /\ Len(p) \in Nat /\ i \in Nat /\ 1 <= i /\ i <= Len(p) /\ Len(q) = Len(p) - 1
      /\ \A k \in 1 .. Len(p) - 1 : q[k] = IF k < i THEN p[k] ELSE p[k + 1]
  BY <1>0, <1>a, Zenon
<1> HIDE DEF q
<1>2. \A k \in 1 .. Len(q) : \E j \in 1 .. Len(p) : j # i /\ q[k] = p[j] /\ j = IF k < i THEN k ELSE k + 1
  BY <1>1
<1>3. \A j \in 1 .. Len(p) : j # i => \E k \in 1 .. Len(q) : q[k] = p[j]
  <2> SUFFICES ASSUME NEW j \in 1 .. Len(p), j # i PROVE \E k \in 1 .. Len(q) : q[k] = p[j]
    OBVIOUS
  <2>1. CASE j < i
    <3>1. j \in 1 .. Len(q) /\ q[j] = p[j]
      BY <1>1, <2>1
    <3> QED BY <3>1
  <2>2. CASE j > i
    <3>1. j - 1 \in 1 .. Len(q) /\ ~(j - 1 < i) /\ j - 1 + 1 = j
      BY <1>1, <2>2
    <3>2. q[j - 1] = p[j]
      BY <1>1, <3>1
    <3> QED BY <3>1, <3>2
  <2> QED BY <1>1, <2>1, <2>2
<1>4. \A k, l \in 1 .. Len(q) : Covers(q[k], u) /\ Covers(q[l], u) => k = l
  BY <1>1, <1>2 DEF One
<1>5. \A k \in 1 .. Len(q) : Covers(q[k], u) => ~Covers(b, u) /\ \A c \in B : ~Covers(c, u)
  BY <1>2 DEF One
<1>6. \A c, d \in B \cup {b} : Covers(c, u) /\ Covers(d, u) => c = d
  BY DEF One
<1>7. (\E k \in 1 .. Len(q) : Covers(q[k], u)) \/ (\E c \in B \cup {b} : Covers(c, u))
  BY <1>3 DEF One
<1>8. One(q, B \cup {b}, u)
  BY <1>4, <1>5, <1>6, <1>7 DEF One
<1> QED BY <1>8 DEF q

\* A block becomes a chunk of its own.
LEMMA OneGiven ==
  ASSUME NEW p \in Seq(Chunks), NEW i \in 1 .. Len(p), NEW B, NEW b \in B, NEW c \in Chunks, NEW u,
         Covers(c, u) <=> Covers(b, u), One(p, B, u)
  PROVE  One(After(p, i, c), B \ {b}, u)
<1> DEFINE q == After(p, i, c)
<1>0. Len(p) \in Nat /\ i \in Nat /\ 1 <= i /\ i <= Len(p)
  OBVIOUS
<1>a. IsAfter(q, p, i, c)
  <2>1. i \in 0 .. Len(p)
    OBVIOUS
  <2> QED BY <2>1, AfterIs
<1>1. /\ Len(p) \in Nat /\ i \in Nat /\ 1 <= i /\ i <= Len(p) /\ Len(q) = Len(p) + 1
      /\ \A k \in 1 .. Len(p) + 1 : q[k] = IF k <= i THEN p[k] ELSE IF k = i + 1 THEN c ELSE p[k - 1]
  BY <1>0, <1>a, Zenon DEF IsAfter
<1> HIDE DEF q
<1>2. \A k \in 1 .. Len(q) :
        \/ k = i + 1 /\ q[k] = c
        \/ k # i + 1 /\ \E j \in 1 .. Len(p) : q[k] = p[j] /\ j = IF k <= i THEN k ELSE k - 1
  BY <1>1
<1>3. \A j \in 1 .. Len(p) : \E k \in 1 .. Len(q) : q[k] = p[j]
  <2> SUFFICES ASSUME NEW j \in 1 .. Len(p) PROVE \E k \in 1 .. Len(q) : q[k] = p[j]
    OBVIOUS
  <2>1. CASE j <= i
    <3>1. j \in 1 .. Len(q) /\ q[j] = p[j]
      BY <1>1, <2>1
    <3> QED BY <3>1
  <2>2. CASE j > i
    <3>1. j + 1 \in 1 .. Len(q) /\ ~(j + 1 <= i) /\ j + 1 # i + 1 /\ j + 1 - 1 = j
      BY <1>1, <2>2
    <3>2. q[j + 1] = p[j]
      BY <1>1, <3>1
    <3> QED BY <3>1, <3>2
  <2> QED BY <1>1, <2>1, <2>2
<1>4. i + 1 \in 1 .. Len(q) /\ q[i + 1] = c
  BY <1>1
<1>5. \A k, l \in 1 .. Len(q) : Covers(q[k], u) /\ Covers(q[l], u) => k = l
  BY <1>1, <1>2 DEF One
<1>6. \A k \in 1 .. Len(q) : \A d \in B \ {b} : ~(Covers(q[k], u) /\ Covers(d, u))
  BY <1>2 DEF One
<1>7. \A d, e \in B \ {b} : Covers(d, u) /\ Covers(e, u) => d = e
  BY DEF One
<1>8. (\E k \in 1 .. Len(q) : Covers(q[k], u)) \/ (\E d \in B \ {b} : Covers(d, u))
  BY <1>3, <1>4 DEF One
<1>9. One(q, B \ {b}, u)
  BY <1>5, <1>6, <1>7, <1>8 DEF One
<1> QED BY <1>9 DEF q

\* A chunk is divided into a chunk and a block.
LEMMA OneSplit ==
  ASSUME NEW p \in Seq(Chunks), NEW i \in 1 .. Len(p), NEW c \in Chunks, NEW B, NEW b, NEW u,
         Covers(p[i], u) <=> Covers(c, u) \/ Covers(b, u), ~(Covers(c, u) /\ Covers(b, u)),
         One(p, B, u)
  PROVE  One([p EXCEPT ![i] = c], B \cup {b}, u)
<1> DEFINE q == [p EXCEPT ![i] = c]
<1>1. Len(q) = Len(p) /\ q[i] = c /\ \A k \in 1 .. Len(p) : k # i => q[k] = p[k]
  OBVIOUS
<1> HIDE DEF q
<1>2. \A k, l \in 1 .. Len(q) : Covers(q[k], u) /\ Covers(q[l], u) => k = l
  BY <1>1 DEF One
<1>3. \A k \in 1 .. Len(q) : \A d \in B \cup {b} : ~(Covers(q[k], u) /\ Covers(d, u))
  BY <1>1 DEF One
<1>4. \A d, e \in B \cup {b} : Covers(d, u) /\ Covers(e, u) => d = e
  BY DEF One
<1>5. (\E k \in 1 .. Len(q) : Covers(q[k], u)) \/ (\E d \in B \cup {b} : Covers(d, u))
  BY <1>1 DEF One
<1>6. One(q, B \cup {b}, u)
  BY <1>2, <1>3, <1>4, <1>5 DEF One
<1> QED BY <1>6 DEF q

\* A block is joined to a chunk.
LEMMA OneJoined ==
  ASSUME NEW p \in Seq(Chunks), NEW i \in 1 .. Len(p), NEW c \in Chunks, NEW B, NEW b \in B, NEW u,
         Covers(c, u) <=> Covers(p[i], u) \/ Covers(b, u), One(p, B, u)
  PROVE  One([p EXCEPT ![i] = c], B \ {b}, u)
<1> DEFINE q == [p EXCEPT ![i] = c]
<1>1. Len(q) = Len(p) /\ q[i] = c /\ \A k \in 1 .. Len(p) : k # i => q[k] = p[k]
  OBVIOUS
<1> HIDE DEF q
<1>2. \A k, l \in 1 .. Len(q) : Covers(q[k], u) /\ Covers(q[l], u) => k = l
  BY <1>1 DEF One
<1>3. \A k \in 1 .. Len(q) : \A d \in B \ {b} : ~(Covers(q[k], u) /\ Covers(d, u))
  BY <1>1 DEF One
<1>4. \A d, e \in B \ {b} : Covers(d, u) /\ Covers(e, u) => d = e
  BY DEF One
<1>5. (\E k \in 1 .. Len(q) : Covers(q[k], u)) \/ (\E d \in B \ {b} : Covers(d, u))
  BY <1>1 DEF One
<1>6. One(q, B \ {b}, u)
  BY <1>2, <1>3, <1>4, <1>5 DEF One
<1> QED BY <1>6 DEF q

\* A chunk swallows the next one of the list.
LEMMA OneMerged ==
  ASSUME NEW p \in Seq(Chunks), NEW i \in 1 .. Len(p), i < Len(p), NEW c \in Chunks, NEW B, NEW u,
         Covers(c, u) <=> Covers(p[i], u) \/ Covers(p[i + 1], u), One(p, B, u)
  PROVE  One(Without([p EXCEPT ![i] = c], i + 1), B, u)
<1> DEFINE r == [p EXCEPT ![i] = c]
           q == Without(r, i + 1)
<1>1. r \in Seq(Chunks) /\ Len(r) = Len(p) /\ r[i] = c /\ \A k \in 1 .. Len(p) : k # i => r[k] = p[k]
  OBVIOUS
<1> HIDE DEF r
<1>2. Len(p) \in Nat /\ i \in Nat /\ 1 <= i /\ i + 1 <= Len(p) /\ i + 1 \in 1 .. Len(r)
  BY <1>1
<1>3. /\ Len(q) = Len(p) - 1
      /\ \A k \in 1 .. Len(p) - 1 : q[k] = IF k < i + 1 THEN r[k] ELSE r[k + 1]
  <2>1. /\ Len(q) = Len(r) - 1
        /\ \A k \in 1 .. Len(r) - 1 : q[k] = IF k < i + 1 THEN r[k] ELSE r[k + 1]
    BY <1>1, <1>2, WithoutIs
  <2> HIDE DEF q
  <2> QED BY <1>1, <2>1
<1> HIDE DEF q
<1>4. ASSUME NEW k \in 1 .. Len(q), k # i
      PROVE  \E j \in 1 .. Len(p) : /\ j \notin {i, i + 1} /\ q[k] = p[j]
                                    /\ j = IF k < i THEN k ELSE k + 1
  <2>1. CASE k < i
    <3>1. k \in 1 .. Len(p) /\ k \notin {i, i + 1} /\ k < i + 1 /\ k \in 1 .. Len(p) - 1
      BY <1>2, <1>3, <1>4, <2>1
    <3>2. q[k] = p[k]
      BY <1>1, <1>3, <1>4, <3>1
    <3> QED BY <2>1, <3>1, <3>2
  <2>2. CASE k > i
    <3>1. k + 1 \in 1 .. Len(p) /\ k + 1 \notin {i, i + 1} /\ ~(k < i + 1) /\ ~(k < i)
      BY <1>2, <1>3, <2>2
    <3>2. q[k] = p[k + 1]
      BY <1>1, <1>2, <1>3, <3>1
    <3> QED BY <3>1, <3>2
  <2> QED BY <1>2, <1>3, <1>4, <2>1, <2>2
<1>5. i \in 1 .. Len(q) /\ q[i] = c
  BY <1>1, <1>2, <1>3
<1>6. \A j \in 1 .. Len(p) : j \notin {i, i + 1} => \E k \in 1 .. Len(q) : q[k] = p[j]
  <2> SUFFICES ASSUME NEW j \in 1 .. Len(p), j \notin {i, i + 1} PROVE \E k \in 1 .. Len(q) : q[k] = p[j]
    OBVIOUS
  <2>1. CASE j < i
    <3>1. j \in 1 .. Len(q) /\ q[j] = p[j]
      BY <1>1, <1>2, <1>3, <2>1
    <3> QED BY <3>1
  <2>2. CASE j > i
    <3>1. j - 1 \in 1 .. Len(q) /\ ~(j - 1 < i + 1) /\ j - 1 + 1 = j
      BY <1>2, <1>3, <2>2
    <3>2. q[j - 1] = p[j]
      BY <1>1, <1>2, <1>3, <3>1
    <3> QED BY <3>1, <3>2
  <2> QED BY <1>2, <2>1, <2>2
<1>a. \A k, l \in 1 .. Len(q) : k # i /\ l # i /\ Covers(q[k], u) /\ Covers(q[l], u) => k = l
  <2> SUFFICES ASSUME NEW k \in 1 .. Len(q), NEW l \in 1 .. Len(q), k # i, l # i,
                      Covers(q[k], u), Covers(q[l], u)
               PROVE  k = l
    OBVIOUS
  <2>1. PICK j \in 1 .. Len(p) : q[k] = p[j] /\ j = IF k < i THEN k ELSE k + 1
    BY <1>4
  <2>2. PICK m \in 1 .. Len(p) : q[l] = p[m] /\ m = IF l < i THEN l ELSE l + 1
    BY <1>4
  <2>3. j = m
    BY <2>1, <2>2 DEF One
  <2> QED BY <1>2, <1>3, <2>1, <2>2, <2>3
<1>b. \A k \in 1 .. Len(q) : k # i => ~(Covers(q[k], u) /\ Covers(c, u))
  <2> SUFFICES ASSUME NEW k \in 1 .. Len(q), k # i, Covers(q[k], u), Covers(c, u) PROVE FALSE
    OBVIOUS
  <2>1. PICK j \in 1 .. Len(p) : q[k] = p[j] /\ j \notin {i, i + 1}
    BY <1>4
  <2>2. i + 1 \in 1 .. Len(p)
    BY <1>2
  <2> QED BY <2>1, <2>2 DEF One
<1>7. \A k, l \in 1 .. Len(q) : Covers(q[k], u) /\ Covers(q[l], u) => k = l
  BY <1>5, <1>a, <1>b
<1>8. \A k \in 1 .. Len(q) : \A d \in B : ~(Covers(q[k], u) /\ Covers(d, u))
  <2>1. i + 1 \in 1 .. Len(p)
    BY <1>2
  <2>2. \A d \in B : ~(Covers(c, u) /\ Covers(d, u))
    BY <2>1 DEF One
  <2>3. \A k \in 1 .. Len(q) : k # i => \A d \in B : ~(Covers(q[k], u) /\ Covers(d, u))
    BY <1>4 DEF One
  <2> QED BY <1>5, <2>2, <2>3
<1>9. (\E k \in 1 .. Len(q) : Covers(q[k], u)) \/ (\E d \in B : Covers(d, u))
  BY <1>2, <1>5, <1>6 DEF One
<1>10. One(q, B, u)
  BY <1>7, <1>8, <1>9 DEF One
<1> QED BY <1>10 DEF q, r

\* A chunk inside the heap, and a block that holds what it was asked for.
Sized == {c \in Chunks : EndOf(c) <= HeapSize /\ c.size % 4 = 0}
Holding ==
  {b \in [at : Nat, size : Nat, asked : Nat] :
     b.asked + AllocHeader <= b.size /\ EndOf(b) <= HeapSize /\ b.size % 4 = 0}

\* Every unit is in one place.
EachOnce(p, B) == \A u \in 0 .. HeapSize - 1 : One(p, B, u)

HeapInv ==
  /\ pool \in Seq(Sized) /\ blocks \subseteq Holding
  /\ defined => EachOnce(pool, blocks)

\* A list of chunks inside the heap is a list of chunks.
LEMMA SizedChunks ==
  ASSUME NEW p \in Seq(Sized)
  PROVE  /\ p \in Seq(Chunks) /\ Len(p) \in Nat
         /\ \A i \in 1 .. Len(p) :
              /\ p[i] \in Chunks /\ p[i] \in Sized /\ p[i].at \in Nat /\ p[i].size \in Nat
              /\ p[i].at + p[i].size <= HeapSize /\ p[i].size % 4 = 0
<1>1. \A i \in 1 .. Len(p) : p[i] \in Sized
  OBVIOUS
<1>2. \A c \in Sized :
        c \in Chunks /\ c.at \in Nat /\ c.size \in Nat /\ c.at + c.size <= HeapSize /\ c.size % 4 = 0
  BY DEF Sized, Chunks, EndOf
<1>3. p \in Seq(Chunks)
  BY <1>1, <1>2
<1> QED BY <1>1, <1>2, <1>3

\* Changing the size of a chunk.
LEMMA ResizeIs ==
  ASSUME NEW p \in Seq(Chunks), NEW i \in 1 .. Len(p), NEW n
  PROVE  [p EXCEPT ![i].size = n] = [p EXCEPT ![i] = [at |-> p[i].at, size |-> n]]
<1>1. p[i] \in Chunks
  OBVIOUS
<1>2. [p[i] EXCEPT !.size = n] = [at |-> p[i].at, size |-> n]
  BY <1>1 DEF Chunks
<1> QED BY <1>2

\* Sums and differences of aligned sizes are aligned.
LEMMA AlignedSums ==
  ASSUME NEW x \in Nat, NEW y \in Nat, x % 4 = 0, y % 4 = 0
  PROVE  (x + y) % 4 = 0 /\ (x >= y => (x - y) % 4 = 0)
OBVIOUS

\* A chunk inside the heap.
LEMMA ChunkIs ==
  ASSUME NEW a \in Nat, NEW n \in Nat
  PROVE  LET c == [at |-> a, size |-> n] IN
         /\ c \in Chunks /\ c.at = a /\ c.size = n
         /\ a + n <= HeapSize /\ n % 4 = 0 => c \in Sized
BY DEF Chunks, Sized, EndOf

\* Two adjacent areas and the area they make.
LEMMA CoversBoth ==
  ASSUME NEW c, NEW d, NEW e, NEW u \in Nat, d.at \in Nat, d.size \in Nat, e.size \in Nat,
         e.at = d.at + d.size, c.at = d.at, c.size = d.size + e.size
  PROVE  /\ Covers(c, u) <=> Covers(d, u) \/ Covers(e, u)
         /\ ~(Covers(d, u) /\ Covers(e, u))
BY DEF Covers

\* Merging with the chunk that follows keeps every unit in one place.
LEMMA MergeKeeps ==
  ASSUME NEW p \in Seq(Sized), NEW i \in 1 .. Len(p), NEW B, EachOnce(p, B)
  PROVE  MergeFollowing(p, i) \in Seq(Sized) /\ EachOnce(MergeFollowing(p, i), B)
<1>1. CASE i < Len(p) /\ EndOf(p[i]) = p[i + 1].at
  <2> DEFINE c == [at |-> p[i].at, size |-> p[i].size + p[i + 1].size]
             r == [p EXCEPT ![i] = c]
  <2>1. p \in Seq(Chunks) /\ i + 1 \in 1 .. Len(p) /\ i \in Nat /\ Len(p) \in Nat
    BY <1>1, SizedChunks
  <2>2. /\ p[i].at \in Nat /\ p[i].size \in Nat /\ p[i].size % 4 = 0
        /\ p[i + 1].at \in Nat /\ p[i + 1].size \in Nat /\ p[i + 1].size % 4 = 0
        /\ p[i + 1].at + p[i + 1].size <= HeapSize /\ p[i].at + p[i].size = p[i + 1].at
    BY <1>1, <2>1, SizedChunks DEF EndOf
  <2>a. p[i].size + p[i + 1].size \in Nat /\ (p[i].size + p[i + 1].size) % 4 = 0
        /\ p[i].at + (p[i].size + p[i + 1].size) <= HeapSize
    <3>1. p[i].size + p[i + 1].size \in Nat /\ (p[i].size + p[i + 1].size) % 4 = 0
      <4> DEFINE x == p[i].size
                 y == p[i + 1].size
      <4>1. x \in Nat /\ y \in Nat /\ x % 4 = 0 /\ y % 4 = 0
        BY <2>2
      <4> HIDE DEF x, y
      <4>2. x + y \in Nat /\ (x + y) % 4 = 0
        BY <4>1, AlignedSums
      <4> QED BY <4>2 DEF x, y
    <3>2. p[i].at + (p[i].size + p[i + 1].size) <= HeapSize
      BY <2>2, HeapIsAligned
    <3> QED BY <3>1, <3>2
  <2>3. c \in Chunks /\ c.at = p[i].at /\ c.size = p[i].size + p[i + 1].size
    BY <2>2, <2>a, ChunkIs
  <2>4. c \in Sized
    BY <2>2, <2>a, ChunkIs
  <2>5. MergeFollowing(p, i) = Without(r, i + 1)
    <3>1. MergeFollowing(p, i) = Without([p EXCEPT ![i].size = p[i].size + p[i + 1].size], i + 1)
      BY <1>1 DEF MergeFollowing
    <3>2. [p EXCEPT ![i].size = p[i].size + p[i + 1].size] = r
      BY <2>1, ResizeIs
    <3> QED BY <3>1, <3>2
  <2>6. r \in Seq(Sized) /\ i + 1 \in 1 .. Len(r)
    BY <2>1, <2>4
  <2>7. Without(r, i + 1) \in Seq(Sized)
    BY <2>6, WithoutIs
  <2> HIDE DEF c
  <2>8. ASSUME NEW u \in 0 .. HeapSize - 1 PROVE One(Without(r, i + 1), B, u)
    <3>1. Covers(c, u) <=> Covers(p[i], u) \/ Covers(p[i + 1], u)
      <4>1. u \in Nat
        BY HeapIsAligned
      <4> QED BY <2>2, <2>3, <4>1, CoversBoth
    <3>2. One(p, B, u)
      BY DEF EachOnce
    <3> QED BY <1>1, <2>1, <2>3, <3>1, <3>2, OneMerged
  <2> HIDE DEF r
  <2> QED BY <2>5, <2>7, <2>8 DEF EachOnce
<1>2. CASE ~(i < Len(p) /\ EndOf(p[i]) = p[i + 1].at)
  BY <1>2 DEF MergeFollowing
<1> QED BY <1>1, <1>2

\* What malloc rounds to, and that a chunk is handed out whole only if it is of that size.
LEMMA NeedIs ==
  ASSUME NEW n \in Nat
  PROVE  /\ AlignUp(n + AllocHeader) \in Nat /\ AlignUp(n + AllocHeader) >= n + 1
         /\ AlignUp(n + AllocHeader) % 4 = 0
         /\ \A s \in Nat : s % 4 = 0 /\ s >= AlignUp(n + AllocHeader) /\ n + FreeHeader = s
                             => s = AlignUp(n + AllocHeader)
BY DEF AlignUp, Alignment, AllocHeader, FreeHeader

\* malloc keeps every unit in one place.
LEMMA MallocKeeps ==
  ASSUME HeapInv, NEW n \in Requests, Malloc(n)
  PROVE  HeapInv'
<1> DEFINE need == AlignUp(n + AllocHeader)
           fits == {j \in DOMAIN pool : pool[j].size >= need}
           i == CHOOSE k \in fits : \A j \in fits : k <= j
<1>0. n \in Nat /\ n > 0 /\ defined /\ defined' = defined
  BY RequestsAreSizes DEF Malloc
<1>1. /\ need \in Nat /\ need >= n + 1 /\ need % 4 = 0
      /\ \A s \in Nat : s % 4 = 0 /\ s >= need /\ n + FreeHeader = s => s = need
  BY <1>0, NeedIs
<1>2. pool \in Seq(Sized) /\ pool \in Seq(Chunks) /\ Len(pool) \in Nat /\ DOMAIN pool = 1 .. Len(pool)
  BY SizedChunks DEF HeapInv
<1>3. i \in fits
  <2>1. fits \subseteq Nat /\ fits # {}
    BY <1>2 DEF Malloc
  <2> HIDE DEF fits
  <2>2. \E k \in fits : \A j \in fits : k <= j
    <3>1. PICK k \in fits : \A j \in fits : <<j, k>> \notin OpToRel(<, Nat)
      BY <2>1, NatLessThanWellFounded, WFMin
    <3>2. \A j \in fits : ~(j < k)
      BY <2>1, <3>1 DEF OpToRel
    <3> QED BY <2>1, <3>2
  <2> QED BY <2>2
<1>4. i \in 1 .. Len(pool) /\ pool[i].size >= need
  BY <1>2, <1>3
<1>5. pool' = (IF pool[i].size = need \/ n + FreeHeader = pool[i].size
               THEN Without(pool, i) ELSE SetSize(i, pool[i].size - need))
  BY DEF Malloc
<1>6. blocks' = blocks \cup
        {IF pool[i].size = need \/ n + FreeHeader = pool[i].size
         THEN [at |-> pool[i].at, asked |-> n,
               size |-> IF pool[i].size # need THEN need + FreeHeader ELSE need]
         ELSE [at |-> EndOf(pool[i]) - need, size |-> need, asked |-> n]}
  BY DEF Malloc
<1> HIDE DEF need, i, fits
<1>7. /\ pool[i] \in Chunks /\ pool[i].at \in Nat /\ pool[i].size \in Nat /\ pool[i].size % 4 = 0
      /\ pool[i].at + pool[i].size <= HeapSize /\ HeapSize \in Nat
  BY <1>2, <1>4, SizedChunks, HeapIsAligned
<1>8. blocks \subseteq Holding /\ EachOnce(pool, blocks)
  BY <1>0 DEF HeapInv
<1>9. CASE pool[i].size = need
  <2> DEFINE b == [at |-> pool[i].at, size |-> need, asked |-> n]
  <2>1. pool' = Without(pool, i) /\ blocks' = blocks \cup {b}
    BY <1>5, <1>6, <1>9
  <2>2. pool' \in Seq(Sized)
    BY <1>2, <1>4, <2>1, WithoutIs
  <2>3. b.at = pool[i].at /\ b.size = need /\ b.asked = n /\ b \in [at : Nat, size : Nat, asked : Nat]
    BY <1>0, <1>1, <1>7
  <2>4. b \in Holding
    BY <1>1, <1>7, <1>9, <2>3 DEF Holding, EndOf, AllocHeader
  <2> HIDE DEF b
  <2>5. ASSUME NEW u \in 0 .. HeapSize - 1 PROVE One(pool', blocks', u)
    <3>1. Covers(b, u) <=> Covers(pool[i], u)
      BY <1>9, <2>3 DEF Covers
    <3>2. One(pool, blocks, u)
      BY <1>8 DEF EachOnce
    <3> QED BY <1>2, <1>4, <2>1, <3>1, <3>2, OneTaken
  <2>6. EachOnce(pool', blocks')
    BY <2>5 DEF EachOnce
  <2> QED BY <1>8, <2>1, <2>2, <2>4, <2>6 DEF HeapInv, EachOnce, One
<1>10. CASE pool[i].size # need
  <2> DEFINE b == [at |-> EndOf(pool[i]) - need, size |-> need, asked |-> n]
             c == [at |-> pool[i].at, size |-> pool[i].size - need]
  <2>1. n + FreeHeader # pool[i].size
    BY <1>1, <1>4, <1>7, <1>10
  <2>2. pool' = [pool EXCEPT ![i] = c] /\ blocks' = blocks \cup {b}
    BY <1>2, <1>4, <1>5, <1>6, <1>10, <2>1, ResizeIs DEF SetSize
  <2>3. /\ b.at = pool[i].at + pool[i].size - need /\ b.size = need /\ b.asked = n
        /\ b \in [at : Nat, size : Nat, asked : Nat]
    BY <1>0, <1>1, <1>4, <1>7 DEF EndOf
  <2>4. b \in Holding
    <3>1. b.asked + AllocHeader <= b.size /\ b.size % 4 = 0
      BY <1>0, <1>1, <2>3 DEF AllocHeader
    <3>2. EndOf(b) <= HeapSize
      BY <1>1, <1>7, <2>3 DEF EndOf
    <3> QED BY <2>3, <3>1, <3>2 DEF Holding
  <2>a. /\ pool[i].size - need \in Nat /\ (pool[i].size - need) % 4 = 0
        /\ pool[i].at + (pool[i].size - need) <= HeapSize
    <3>1. pool[i].size - need \in Nat
      BY <1>1, <1>4, <1>7
    <3>2. need \in Nat /\ need % 4 = 0 /\ need <= pool[i].size
      BY <1>1, <1>4
    <3>3. (pool[i].size - need) % 4 = 0
      BY <1>7, <3>2, AlignedSums
    <3>4. pool[i].at + (pool[i].size - need) <= HeapSize
      BY <1>7, <3>2
    <3> QED BY <3>1, <3>3, <3>4
  <2>5. c \in Chunks /\ c.at = pool[i].at /\ c.size = pool[i].size - need
    BY <1>7, <2>a, ChunkIs
  <2>6. c \in Sized
    BY <1>7, <2>a, ChunkIs
  <2>7. pool' \in Seq(Sized)
    BY <1>2, <1>4, <2>2, <2>6
  <2> HIDE DEF b, c
  <2>8. ASSUME NEW u \in 0 .. HeapSize - 1 PROVE One(pool', blocks', u)
    <3>1. /\ Covers(pool[i], u) <=> Covers(c, u) \/ Covers(b, u)
          /\ ~(Covers(c, u) /\ Covers(b, u))
      <4>1. /\ u \in Nat /\ c.at \in Nat /\ c.size \in Nat /\ b.size \in Nat
            /\ b.at = c.at + c.size /\ pool[i].at = c.at /\ pool[i].size = c.size + b.size
        BY <1>1, <1>4, <1>7, <2>3, <2>a, <2>5
      <4> QED BY <4>1, CoversBoth
    <3>2. One(pool, blocks, u)
      BY <1>8 DEF EachOnce
    <3> QED BY <1>2, <1>4, <2>2, <2>5, <3>1, <3>2, OneSplit
  <2>9. EachOnce(pool', blocks')
    BY <2>8 DEF EachOnce
  <2> QED BY <1>8, <2>2, <2>4, <2>7, <2>9 DEF HeapInv, EachOnce, One
<1> QED BY <1>9, <1>10

\* free keeps every unit in one place.
LEMMA FreeKeeps ==
  ASSUME HeapInv, NEW b \in blocks, Free(b)
  PROVE  HeapInv'
<1> DEFINE passed == {k \in DOMAIN pool : \A j \in 2 .. k : pool[j].at < b.at}
           i == Cardinality(passed)
           chunk == [at |-> b.at, size |-> b.size]
<1>1. /\ pool \in Seq(Sized) /\ pool \in Seq(Chunks) /\ Len(pool) \in Nat /\ DOMAIN pool = 1 .. Len(pool)
      /\ blocks \subseteq Holding /\ b \in Holding
  BY SizedChunks DEF HeapInv
<1>2. /\ b.at \in Nat /\ b.size \in Nat /\ b.at + b.size <= HeapSize /\ b.size % 4 = 0 /\ HeapSize \in Nat
  BY <1>1, HeapIsAligned DEF Holding, EndOf
<1>3. blocks' = blocks \ {b}
  BY DEF Free
<1>4. CASE pool = <<>>
  <2>1. defined' = FALSE /\ pool' = pool
    BY <1>4 DEF Free
  <2> QED BY <1>1, <1>3, <2>1 DEF HeapInv
<1>5. CASE pool # <<>>
  <2>1. /\ defined /\ defined' = defined
        /\ pool' = IF EndOf(pool[i]) = b.at
                   THEN MergeFollowing(SetSize(i, pool[i].size + b.size), i)
                   ELSE MergeFollowing(After(pool, i, chunk), i + 1)
    BY <1>5 DEF Free
  <2>2. i \in 1 .. Len(pool)
    <3>1. Len(pool) >= 1 /\ 1 \in passed /\ passed \subseteq 1 .. Len(pool)
      BY <1>1, <1>5
    <3> HIDE DEF passed
    <3>2. IsFiniteSet(1 .. Len(pool)) /\ Cardinality(1 .. Len(pool)) = Len(pool)
      <4>1. 1 \in Int /\ Len(pool) \in Int
        BY <1>1
      <4>2. /\ IsFiniteSet(1 .. Len(pool))
            /\ Cardinality(1 .. Len(pool)) = IF 1 > Len(pool) THEN 0 ELSE Len(pool) - 1 + 1
        BY <4>1, FS_Interval
      <4> QED BY <1>1, <3>1, <4>2
    <3>3. IsFiniteSet(passed) /\ Cardinality(passed) <= Len(pool)
      BY <3>1, <3>2, FS_Subset
    <3>4. Cardinality(passed) \in Nat /\ Cardinality(passed) # 0
      BY <3>1, <3>3, FS_CardinalityType, FS_EmptySet
    <3> QED BY <1>1, <3>3, <3>4
  <2> HIDE DEF i
  <2>3. /\ pool[i].at \in Nat /\ pool[i].size \in Nat /\ pool[i].size % 4 = 0
        /\ pool[i].at + pool[i].size <= HeapSize
    BY <1>1, <2>2, SizedChunks
  <2>4. EachOnce(pool, blocks)
    BY <2>1 DEF HeapInv
  <2>5. pool' \in Seq(Sized) /\ EachOnce(pool', blocks \ {b})
    <3>1. CASE EndOf(pool[i]) = b.at
      <4> DEFINE c == [at |-> pool[i].at, size |-> pool[i].size + b.size]
                 r == [pool EXCEPT ![i] = c]
      <4>1. pool' = MergeFollowing(r, i)
        <5>1. SetSize(i, pool[i].size + b.size) = r
          BY <1>1, <2>2, ResizeIs DEF SetSize
        <5> QED BY <2>1, <3>1, <5>1
      <4>a. /\ pool[i].size + b.size \in Nat /\ (pool[i].size + b.size) % 4 = 0
            /\ pool[i].at + (pool[i].size + b.size) <= HeapSize
        <5>1. pool[i].size + b.size \in Nat /\ (pool[i].size + b.size) % 4 = 0
          <6>1. pool[i].size \in Nat /\ b.size \in Nat
            BY <1>2, <2>3
          <6>2. pool[i].size % 4 = 0 /\ b.size % 4 = 0
            BY <1>2, <2>3
          <6> QED BY <6>1, <6>2, AlignedSums
        <5>2. pool[i].at + (pool[i].size + b.size) <= HeapSize
          BY <1>2, <2>3, <3>1 DEF EndOf
        <5> QED BY <5>1, <5>2
      <4>2. c \in Chunks /\ c.at = pool[i].at /\ c.size = pool[i].size + b.size
        BY <2>3, <4>a, ChunkIs
      <4>3. c \in Sized
        BY <2>3, <4>a, ChunkIs
      <4>4. r \in Seq(Sized) /\ i \in 1 .. Len(r)
        BY <1>1, <2>2, <4>3
      <4> HIDE DEF c
      <4>5. ASSUME NEW u \in 0 .. HeapSize - 1 PROVE One(r, blocks \ {b}, u)
        <5>1. Covers(c, u) <=> Covers(pool[i], u) \/ Covers(b, u)
          BY <1>2, <2>3, <3>1, <4>2 DEF Covers, EndOf
        <5>2. One(pool, blocks, u)
          BY <2>4 DEF EachOnce
        <5> QED BY <1>1, <2>2, <4>2, <5>1, <5>2, OneJoined
      <4> HIDE DEF r
      <4>6. EachOnce(r, blocks \ {b})
        BY <4>5 DEF EachOnce
      <4> QED BY <4>1, <4>4, <4>6, MergeKeeps
    <3>2. CASE EndOf(pool[i]) # b.at
      <4> DEFINE r == After(pool, i, chunk)
      <4>1. pool' = MergeFollowing(r, i + 1)
        BY <2>1, <3>2
      <4>2. chunk \in Chunks /\ chunk.at = b.at /\ chunk.size = b.size
        BY <1>2 DEF Chunks
      <4>3. chunk \in Sized
        BY <1>2, <4>2 DEF Sized, EndOf
      <4> HIDE DEF chunk
      <4>4. r \in Seq(Sized) /\ IsAfter(r, pool, i, chunk)
        <5>1. i \in 0 .. Len(pool)
          BY <1>1, <2>2
        <5> QED BY <1>1, <4>3, <5>1, AfterIs
      <4>5. i + 1 \in 1 .. Len(r)
        BY <1>1, <2>2, <4>4 DEF IsAfter
      <4>6. ASSUME NEW u \in 0 .. HeapSize - 1 PROVE One(r, blocks \ {b}, u)
        <5>1. Covers(chunk, u) <=> Covers(b, u)
          BY <4>2 DEF Covers
        <5>2. One(pool, blocks, u)
          BY <2>4 DEF EachOnce
        <5> QED BY <1>1, <2>2, <4>2, <5>1, <5>2, OneGiven
      <4> HIDE DEF r
      <4>7. EachOnce(r, blocks \ {b})
        BY <4>6 DEF EachOnce
      <4> QED BY <4>1, <4>4, <4>5, <4>7, MergeKeeps
    <3> QED BY <3>1, <3>2
  <2>6. EachOnce(pool', blocks')
    BY <1>3, <2>5
  <2> QED BY <1>1, <1>3, <2>1, <2>5, <2>6 DEF HeapInv, EachOnce, One
<1> QED BY <1>4, <1>5

\* The heap starts as one chunk.
LEMMA HeapInitInv == HeapInit => HeapInv
<1> SUFFICES ASSUME HeapInit PROVE HeapInv
  OBVIOUS
<1> DEFINE c == [at |-> 0, size |-> HeapSize]
<1>1. pool = <<c>> /\ blocks = {}
  BY DEF HeapInit
<1>2. c.at = 0 /\ c.size = HeapSize /\ c \in Chunks /\ HeapSize \in Nat
  BY HeapIsAligned DEF Chunks
<1>3. c \in Sized
  BY <1>2, HeapIsAligned DEF Sized, EndOf, Alignment
<1> HIDE DEF c
<1>4. pool \in Seq(Sized) /\ Len(pool) = 1 /\ pool[1] = c
  BY <1>1, <1>3
<1>5. ASSUME NEW u \in 0 .. HeapSize - 1 PROVE One(pool, blocks, u)
  <2>1. Covers(c, u) /\ 1 \in 1 .. Len(pool)
    BY <1>2, <1>4 DEF Covers
  <2> QED BY <1>1, <1>4, <2>1 DEF One
<1> QED BY <1>1, <1>4, <1>5 DEF HeapInv, EachOnce

\* What the invariant says, in numbers.
LEMMA HeapCount == HeapInv => HeapTiled
<1> SUFFICES ASSUME HeapInv, defined PROVE HeapTiled
  BY DEF HeapTiled
<1>1. /\ pool \in Seq(Sized) /\ DOMAIN pool = 1 .. Len(pool) /\ blocks \subseteq Holding
      /\ EachOnce(pool, blocks) /\ HeapSize \in Nat
  BY HeapIsAligned DEF HeapInv
<1>2. ASSUME NEW u \in 0 .. HeapSize - 1
      PROVE  Cardinality({i \in DOMAIN pool : u \in pool[i].at .. EndOf(pool[i]) - 1})
               + Cardinality({b \in blocks : u \in b.at .. EndOf(b) - 1}) = 1
  <2> DEFINE P == {i \in DOMAIN pool : u \in pool[i].at .. EndOf(pool[i]) - 1}
             B == {b \in blocks : u \in b.at .. EndOf(b) - 1}
  <2>1. \A i \in DOMAIN pool : u \in pool[i].at .. EndOf(pool[i]) - 1 <=> Covers(pool[i], u)
    BY <1>1, SizedChunks DEF Covers, EndOf
  <2>2. \A b \in blocks : u \in b.at .. EndOf(b) - 1 <=> Covers(b, u)
    BY <1>1 DEF Covers, EndOf, Holding
  <2>3. One(pool, blocks, u)
    BY <1>1 DEF EachOnce
  <2>4. \A i, j \in P : i = j
    BY <1>1, <2>1, <2>3 DEF One
  <2>5. \A b, c \in B : b = c
    BY <2>2, <2>3 DEF One
  <2>6. (P = {}) # (B = {})
    BY <1>1, <2>1, <2>2, <2>3 DEF One
  <2> HIDE DEF P, B
  <2>7. /\ Cardinality(P) = IF P = {} THEN 0 ELSE 1
        /\ Cardinality(B) = IF B = {} THEN 0 ELSE 1
    BY <2>4, <2>5, NoneOrOne
  <2>8. Cardinality(P) + Cardinality(B) = 1
    BY <2>6, <2>7
  <2> QED BY <2>8 DEF P, B
<1>3. \A i \in DOMAIN pool : EndOf(pool[i]) <= HeapSize
  BY <1>1, SizedChunks DEF EndOf
<1>4. \A b \in blocks : b.asked + AllocHeader <= b.size /\ EndOf(b) <= HeapSize
  BY <1>1 DEF Holding
<1> QED BY <1>2, <1>3, <1>4 DEF HeapTiled

\* malloc hands out nothing twice and free loses nothing, for every size of the heap
\* and every sequence of requests, as long as the free list is not empty at a free.
THEOREM HeapStaysTiled == HeapSpec => []HeapTiled
<1>1. HeapInv /\ [HeapNext]_heapVars => HeapInv'
  <2>1. HeapInv /\ UNCHANGED heapVars => HeapInv'
    BY DEF heapVars, HeapInv, EachOnce, One
  <2> QED BY <2>1, MallocKeeps, FreeKeeps DEF HeapNext
<1> QED BY <1>1, HeapInitInv, HeapCount, PTL DEF HeapSpec
-----------------------------------------------------------------------------
(* Sleeping.                                                               *)

Places == {"idle", "counter", "queue", "insert", "resume", "wait"}

SleepTypes ==
  /\ clock \in Nat /\ ticks \in Nat /\ oneShot \in Nat /\ timerq \in Seq(Sleepers)
  /\ sleepPc \in [Sleepers -> Places]
  /\ timeNs \in [Sleepers -> Nat] /\ timeout \in [Sleepers -> Nat] /\ due \in [Sleepers -> Nat]
  /\ sleepEvent \in [Sleepers -> BOOLEAN]

\* The ticks counted and the one that is pending make up the time.
TicksAgree ==
  ticks + (IF tickPending THEN TickLength ELSE 0) + SinceTick = clock

\* What is still asked for by a task at each place of nsleep.
Asked(t) ==
  /\ sleepPc[t] = "counter" => due[t] <= clock + timeout[t]
  /\ sleepPc[t] \in {"queue", "insert"} => due[t] <= timeNs[t] + timeout[t]
  /\ sleepPc[t] \in {"counter", "queue", "insert"} => timeout[t] > 0
  /\ sleepPc[t] \in {"resume", "wait"} => due[t] <= timeout[t]
  /\ sleepEvent[t] => sleepPc[t] \in {"resume", "wait"} /\ due[t] <= clock

Sorted(q, at) == \A i, j \in 1 .. Len(q) : i < j => at[q[i]] <= at[q[j]]

\* The queue, with each sleeper once.
QueueOK ==
  /\ Sorted(timerq, timeout) /\ Once(timerq)
  /\ \A t \in Sleepers : Has(timerq, t) <=> sleepPc[t] \in {"resume", "wait"} /\ ~sleepEvent[t]

Armed == timerq # <<>> => oneShot # Off \/ shotPending

SleepInv == SleepTypes /\ TicksAgree /\ (\A t \in Sleepers : Asked(t)) /\ QueueOK /\ Armed

\* Where timerq_add puts an entry.
LEMMA AddIs ==
  ASSUME NEW t \in Sleepers, NEW at \in Nat, timerq \in Seq(Sleepers),
         timeout \in [Sleepers -> Nat], Sorted(timerq, timeout)
  PROVE  \E i \in 0 .. Len(timerq) :
           /\ IsAfter(TimerqAdd(t, at), timerq, i, t) /\ TimerqAdd(t, at) \in Seq(Sleepers)
           /\ \A j \in 1 .. Len(timerq) : timeout[timerq[j]] \in Nat
           /\ \A j \in 1 .. Len(timerq) : j <= i <=> timeout[timerq[j]] <= at
<1> DEFINE n == Len(timerq)
           later == {i \in DOMAIN timerq : at < timeout[timerq[i]]}
           pos == IF later = {} THEN n + 1
                  ELSE CHOOSE i \in later : \A j \in later : i <= j
<1>1. /\ n \in Nat /\ DOMAIN timerq = 1 .. n
      /\ \A j \in 1 .. n : timerq[j] \in Sleepers /\ timeout[timerq[j]] \in Nat
  OBVIOUS
<1>2. TimerqAdd(t, at) = SubSeq(timerq, 1, pos - 1) \o <<t>> \o SubSeq(timerq, pos, n)
  BY DEF TimerqAdd
<1>3. pos \in 1 .. n + 1 /\ \A j \in 1 .. n : j < pos <=> timeout[timerq[j]] <= at
  <2>1. CASE later = {}
    BY <1>1, <2>1
  <2>2. CASE later # {}
    <3>1. later \subseteq Nat /\ \A i : i \in later <=> i \in 1 .. n /\ at < timeout[timerq[i]]
      BY <1>1
    <3>2. pos = CHOOSE i \in later : \A j \in later : i <= j
      BY <2>2
    <3> HIDE DEF later, pos
    <3>3. \E i \in later : \A j \in later : i <= j
      BY <2>2, <3>1, SomeLeast
    <3>4. pos \in later /\ \A j \in later : pos <= j
      BY <3>2, <3>3
    <3>5. pos \in 1 .. n /\ at < timeout[timerq[pos]]
      BY <3>1, <3>4
    <3>6. ASSUME NEW j \in 1 .. n PROVE j < pos <=> timeout[timerq[j]] <= at
      <4>1. CASE j < pos
        <5>1. j \notin later
          BY <1>1, <3>4, <3>5, <4>1
        <5> QED BY <1>1, <3>1, <4>1, <5>1
      <4>2. CASE j >= pos
        <5>1. timeout[timerq[pos]] <= timeout[timerq[j]]
          BY <1>1, <3>5, <4>2 DEF Sorted
        <5> QED BY <1>1, <3>5, <4>2, <5>1
      <4> QED BY <1>1, <3>5, <4>1, <4>2
    <3> QED BY <1>1, <3>5, <3>6
  <2> QED BY <2>1, <2>2
<1> HIDE DEF pos
<1> DEFINE i == pos - 1
<1>4. i \in 0 .. n /\ i + 1 = pos
  BY <1>1, <1>3
<1>5. TimerqAdd(t, at) = After(timerq, i, t)
  BY <1>2, <1>4 DEF After
<1>6. TimerqAdd(t, at) \in Seq(Sleepers) /\ IsAfter(TimerqAdd(t, at), timerq, i, t)
  BY <1>4, <1>5, AfterIs
<1>7. \A j \in 1 .. n : j <= i <=> timeout[timerq[j]] <= at
  BY <1>1, <1>3, <1>4
<1> HIDE DEF i
<1> QED BY <1>1, <1>4, <1>6, <1>7

\* A queue with t, too.
IsJoined(q, p, t, at) ==
  /\ Sorted(q, at) /\ Once(q)
  /\ \A u \in Sleepers : Has(q, u) <=> Has(p, u) \/ u = t

\* Where the entries of a queue with t come from.
Placed(q, p, i, t) ==
  \A k \in 1 .. Len(q) :
    \/ k <= i /\ k \in 1 .. Len(p) /\ q[k] = p[k]
    \/ k = i + 1 /\ q[k] = t
    \/ k > i + 1 /\ k - 1 \in 1 .. Len(p) /\ q[k] = p[k - 1]

\* They come from there.
LEMMA PlacedIs ==
  ASSUME NEW p \in Seq(Sleepers), NEW q, NEW i \in 0 .. Len(p), NEW t, IsAfter(q, p, i, t)
  PROVE  Placed(q, p, i, t)
BY AfterEach DEF Placed

\* The queue after the insertion.
LEMMA AddKeeps ==
  ASSUME NEW p \in Seq(Sleepers), NEW q \in Seq(Sleepers), NEW t \in Sleepers, NEW i \in 0 .. Len(p),
         IsAfter(q, p, i, t), NEW old \in [Sleepers -> Nat], NEW at \in Nat, ~Has(p, t),
         Sorted(p, old), Once(p), \A j \in 1 .. Len(p) : j <= i <=> old[p[j]] <= at
  PROVE  IsJoined(q, p, t, [old EXCEPT ![t] = at])
<1> DEFINE new == [old EXCEPT ![t] = at]
<1>1. Len(p) \in Nat /\ i \in Nat /\ i <= Len(p) /\ Len(q) = Len(p) + 1
  BY DEF IsAfter
<1>2. \A k \in 1 .. Len(q) :
        \/ k <= i /\ k \in 1 .. Len(p) /\ q[k] = p[k]
        \/ k = i + 1 /\ q[k] = t
        \/ k > i + 1 /\ k - 1 \in 1 .. Len(p) /\ q[k] = p[k - 1]
  BY PlacedIs DEF Placed
<1>3. /\ new[t] = at
      /\ \A j \in 1 .. Len(p) : p[j] # t /\ p[j] \in Sleepers /\ new[p[j]] = old[p[j]] /\ old[p[j]] \in Nat
  BY DEF Has
<1> HIDE DEF new
<1>4. Sorted(q, new)
  <2> SUFFICES ASSUME NEW k \in 1 .. Len(q), NEW l \in 1 .. Len(q), k < l
               PROVE  new[q[k]] <= new[q[l]]
    BY DEF Sorted
  <2>1. CASE k <= i /\ k \in 1 .. Len(p) /\ q[k] = p[k]
    <3>1. CASE l <= i /\ l \in 1 .. Len(p) /\ q[l] = p[l]
      BY <1>3, <2>1, <3>1 DEF Sorted
    <3>2. CASE l = i + 1 /\ q[l] = t
      BY <1>3, <2>1, <3>2
    <3>3. CASE l > i + 1 /\ l - 1 \in 1 .. Len(p) /\ q[l] = p[l - 1]
      <4>1. k < l - 1
        BY <1>1, <2>1, <3>3
      <4>2. old[p[k]] <= old[p[l - 1]]
        BY <2>1, <3>3, <4>1 DEF Sorted
      <4> QED BY <1>3, <2>1, <3>3, <4>2
    <3> QED BY <1>2, <3>1, <3>2, <3>3
  <2>2. CASE k = i + 1 /\ q[k] = t
    <3>0. ~(l <= i) /\ l # i + 1
      BY <1>1, <2>2
    <3>1. l > i + 1 /\ l - 1 \in 1 .. Len(p) /\ q[l] = p[l - 1]
      BY <1>2, <3>0
    <3>2. ~(l - 1 <= i)
      BY <1>1, <3>1
    <3>3. ~(old[p[l - 1]] <= at)
      BY <3>1, <3>2
    <3>4. new[q[k]] = at /\ new[q[l]] = old[p[l - 1]] /\ old[p[l - 1]] \in Nat
      BY <1>3, <2>2, <3>1
    <3> QED BY <3>3, <3>4
  <2>3. CASE k > i + 1 /\ k - 1 \in 1 .. Len(p) /\ q[k] = p[k - 1]
    <3>a. ~(l <= i) /\ l # i + 1 /\ k - 1 < l - 1
      <4>1. i \in Nat /\ k \in Nat /\ l \in Nat /\ k > i + 1 /\ k < l
        BY <1>1, <2>3
      <4> QED BY <4>1
    <3>1. l > i + 1 /\ l - 1 \in 1 .. Len(p) /\ q[l] = p[l - 1] /\ k - 1 < l - 1
      BY <1>2, <3>a
    <3>2. old[p[k - 1]] <= old[p[l - 1]]
      BY <2>3, <3>1 DEF Sorted
    <3> QED BY <1>3, <2>3, <3>1, <3>2
  <2> QED BY <1>2, <2>1, <2>2, <2>3
<1>5. Once(q)
  BY OnceAfter
<1>6. \A u : Has(q, u) <=> Has(p, u) \/ u = t
  BY HasAfter
<1> QED BY <1>4, <1>5, <1>6 DEF new, IsJoined

\* The entries timerq_process wakes, and those it leaves.
Due(now) ==
  {i \in DOMAIN timerq : timeout[timerq[i]] <= now /\ \A j \in 1 .. i : timeout[timerq[j]] <= now}
Left(now) ==
  SubSeq(timerq, 1 + (IF Due(now) = {} THEN 0 ELSE CHOOSE i \in Due(now) : \A j \in Due(now) : j <= i),
         Len(timerq))

\* They are the first k, and the next is not due.
LEMMA DueAreFirst ==
  ASSUME NEW now \in Nat, timerq \in Seq(Sleepers), timeout \in [Sleepers -> Nat]
  PROVE  \E k \in 0 .. Len(timerq) :
           /\ Due(now) = 1 .. k /\ Left(now) = SubSeq(timerq, k + 1, Len(timerq))
           /\ \A i \in 1 .. k : timeout[timerq[i]] <= now
           /\ k < Len(timerq) => timeout[timerq[k + 1]] > now
<1> DEFINE n == Len(timerq)
           late == {i \in 1 .. n : timeout[timerq[i]] > now}
<1>1. /\ n \in Nat /\ DOMAIN timerq = 1 .. n
      /\ \A i \in 1 .. n : timerq[i] \in Sleepers /\ timeout[timerq[i]] \in Nat
  OBVIOUS
<1>2. PICK k \in 0 .. n : /\ \A i \in 1 .. k : timeout[timerq[i]] <= now
                          /\ k < n => timeout[timerq[k + 1]] > now
  <2>1. CASE late = {}
    <3>1. \A i \in 1 .. n : timeout[timerq[i]] <= now
      BY <1>1, <2>1
    <3>2. n \in 0 .. n /\ ~(n < n)
      BY <1>1
    <3> QED BY <3>1, <3>2
  <2>2. CASE late # {}
    <3>1. PICK e \in late : \A f \in late : e <= f
      <4>1. late \subseteq Nat
        BY <1>1
      <4> HIDE DEF late
      <4> QED BY <2>2, <4>1, SomeLeast
    <3>2. e \in 1 .. n /\ timeout[timerq[e]] > now /\ e - 1 \in 0 .. n /\ e - 1 + 1 = e
      BY <1>1
    <3>3. \A i \in 1 .. e - 1 : timeout[timerq[i]] <= now
      <4> SUFFICES ASSUME NEW i \in 1 .. e - 1 PROVE timeout[timerq[i]] <= now
        OBVIOUS
      <4>1. i \in 1 .. n /\ ~(e <= i)
        BY <3>2
      <4>2. i \notin late
        BY <3>1, <4>1
      <4> QED BY <1>1, <4>1, <4>2
    <3> QED BY <3>2, <3>3
  <2> QED BY <2>1, <2>2
<1> HIDE DEF late
<1>3. \A i : i \in Due(now) <=> i \in 1 .. k
  <2>1. ASSUME NEW i \in 1 .. k PROVE i \in Due(now)
    <3>1. i \in 1 .. n /\ \A j \in 1 .. i : j \in 1 .. k
      BY <1>1
    <3> QED BY <1>1, <1>2, <3>1 DEF Due
  <2>2. ASSUME NEW i \in Due(now) PROVE i \in 1 .. k
    <3>1. i \in 1 .. n /\ \A j \in 1 .. i : timeout[timerq[j]] <= now
      BY <1>1 DEF Due
    <3>2. CASE i > k
      <4>1. k < n /\ k + 1 \in 1 .. i /\ k + 1 \in 1 .. n
        BY <1>1, <3>1, <3>2
      <4>2. timeout[timerq[k + 1]] > now /\ timeout[timerq[k + 1]] <= now
        BY <1>2, <3>1, <4>1
      <4> QED BY <1>1, <4>1, <4>2
    <3> QED BY <1>1, <3>1, <3>2
  <2> QED BY <2>1, <2>2
<1>4. Due(now) = 1 .. k
  BY <1>3
<1>5. Left(now) = SubSeq(timerq, k + 1, n)
  <2>1. CASE k = 0
    <3>1. Due(now) = {}
      BY <1>4, <2>1
    <3> QED BY <2>1, <3>1 DEF Left
  <2>2. CASE k > 0
    <3>1. Due(now) # {}
      <4>1. 1 \in 1 .. k
        BY <1>1, <2>2
      <4> QED BY <1>4, <4>1
    <3>2. (CHOOSE i \in Due(now) : \A j \in Due(now) : j <= i) = k
      <4>1. k \in Due(now) /\ \A j \in Due(now) : j <= k
        BY <1>4, <2>2
      <4>2. \A i \in Due(now) : (\A j \in Due(now) : j <= i) => i = k
        BY <1>4, <4>1
      <4> QED BY <4>1, <4>2
    <3>3. 1 + k = k + 1
      BY <1>1
    <3> QED BY <3>1, <3>2, <3>3 DEF Left
  <2> QED BY <1>1, <2>1, <2>2
<1> QED BY <1>2, <1>4, <1>5

\* The queue without its first k entries.
IsLeft(q, p, k, at) ==
  /\ q \in Seq(Sleepers) /\ Sorted(q, at) /\ Once(q)
  /\ q # <<>> => k < Len(p) /\ Head(q) = p[k + 1]
  /\ \A u : Has(q, u) <=> Has(p, u) /\ ~\E i \in 1 .. k : p[i] = u

\* It is ordered and holds the others.
LEMMA LeftKeeps ==
  ASSUME NEW p \in Seq(Sleepers), NEW k \in 0 .. Len(p), NEW q, q = SubSeq(p, k + 1, Len(p)),
         NEW at, Sorted(p, at), Once(p)
  PROVE  IsLeft(q, p, k, at)
<1>1. Len(p) \in Nat /\ k \in Nat /\ k <= Len(p)
  OBVIOUS
<1>2. /\ q \in Seq(Sleepers) /\ Len(q) = Len(p) - k
      /\ \A j \in 1 .. Len(p) - k : q[j] = p[k + j]
  <2>1. k + 1 \in Int /\ Len(p) \in Int /\ \A j \in k + 1 .. Len(p) : p[j] \in Sleepers
    BY <1>1
  <2>2. /\ q \in Seq(Sleepers) /\ Len(q) = IF k + 1 <= Len(p) THEN Len(p) - (k + 1) + 1 ELSE 0
        /\ \A j \in 1 .. Len(p) - (k + 1) + 1 : q[j] = p[k + 1 + j - 1]
    BY <2>1, SubSeqProperties
  <2> QED BY <1>1, <2>2
<1>3. ASSUME NEW j \in 1 .. Len(q) PROVE k + j \in 1 .. Len(p) /\ q[j] = p[k + j] /\ k + j > k
  BY <1>1, <1>2
<1>4. Sorted(q, at)
  <2> SUFFICES ASSUME NEW i \in 1 .. Len(q), NEW j \in 1 .. Len(q), i < j
               PROVE  at[q[i]] <= at[q[j]]
    BY DEF Sorted
  <2>1. k + i < k + j
    BY <1>1
  <2> QED BY <1>3, <2>1 DEF Sorted
<1>5. Once(q)
  <2> SUFFICES ASSUME NEW i \in 1 .. Len(q), NEW j \in 1 .. Len(q), q[i] = q[j]
               PROVE  i = j
    BY DEF Once
  <2>1. k + i = k + j
    BY <1>3 DEF Once
  <2> QED BY <1>1, <2>1
<1>6. q # <<>> => k < Len(p) /\ Head(q) = p[k + 1]
  <2> SUFFICES ASSUME q # <<>> PROVE k < Len(p) /\ Head(q) = p[k + 1]
    OBVIOUS
  <2>1. Len(q) # 0 /\ Len(q) \in Nat
    BY <1>2, EmptySeq
  <2>2. 1 \in 1 .. Len(q) /\ 1 \in 1 .. Len(p) - k
    BY <1>2, <2>1
  <2>3. Head(q) = q[1]
    BY <1>2, <2>1
  <2> QED BY <1>1, <1>2, <2>2, <2>3
<1>7. ASSUME NEW u PROVE Has(q, u) <=> Has(p, u) /\ ~\E i \in 1 .. k : p[i] = u
  <2>1. ASSUME NEW j \in 1 .. Len(q), q[j] = u
        PROVE  Has(p, u) /\ ~\E i \in 1 .. k : p[i] = u
    <3>1. ASSUME NEW i \in 1 .. k, p[i] = u PROVE FALSE
      <4>1. i \in 1 .. Len(p) /\ i # k + j
        BY <1>1
      <4> QED BY <1>3, <2>1, <3>1, <4>1 DEF Once
    <3> QED BY <1>3, <2>1, <3>1 DEF Has
  <2>2. ASSUME NEW i \in 1 .. Len(p), p[i] = u, i \notin 1 .. k PROVE Has(q, u)
    <3>1. i - k \in 1 .. Len(q) /\ k + (i - k) = i
      BY <1>1, <1>2, <2>2
    <3> QED BY <1>3, <2>2, <3>1 DEF Has
  <2> QED BY <2>1, <2>2 DEF Has
<1> QED BY <1>2, <1>4, <1>5, <1>6, <1>7 DEF IsLeft

\* The order does not depend on the timeout of a task that is not queued.
LEMMA SortedOther ==
  ASSUME NEW p \in Seq(Sleepers), NEW old \in [Sleepers -> Nat], NEW t \in Sleepers, NEW at,
         ~Has(p, t), Sorted(p, old)
  PROVE  Sorted(p, [old EXCEPT ![t] = at])
BY DEF Sorted, Has


\* The initial state.
LEMMA SleepInitInv == SleepInit => SleepInv
<1> SUFFICES ASSUME SleepInit PROVE SleepInv
  OBVIOUS
<1> USE TimesArePositive DEF SleepInit
<1>1. SleepTypes
  <2>1. timerq \in Seq(Sleepers)
    BY EmptySeq
  <2>2. /\ sleepPc \in [Sleepers -> Places] /\ timeNs \in [Sleepers -> Nat]
        /\ timeout \in [Sleepers -> Nat] /\ due \in [Sleepers -> Nat]
        /\ sleepEvent \in [Sleepers -> BOOLEAN]
    BY DEF Places
  <2> QED BY <2>1, <2>2 DEF SleepTypes, Off
<1>2. TicksAgree
  <2>1. 0 \div TickLength \in Nat /\ 0 % TickLength \in 0 .. TickLength - 1
        /\ 0 = TickLength * (0 \div TickLength) + (0 % TickLength)
    BY Divided
  <2>2. TickLength * 0 + 0 = TickLength * (0 \div TickLength) + (0 % TickLength)
    BY <2>1
  <2>3. 0 = 0 % TickLength
    BY <2>1, <2>2, OneRemainder
  <2> QED BY <2>3 DEF TicksAgree, SinceTick
<1>3. \A t \in Sleepers : Asked(t)
  BY DEF Asked
<1>4. QueueOK
  <2>1. Len(timerq) = 0
    OBVIOUS
  <2> QED BY <2>1 DEF QueueOK, Sorted, Once, Has
<1>5. Armed
  BY DEF Armed
<1> QED BY <1>1, <1>2, <1>3, <1>4, <1>5 DEF SleepInv

\* Time within the tick.
LEMMA TicksTypes ==
  ASSUME SleepTypes, TicksAgree
  PROVE  SinceTick \in Nat /\ SinceTick < TickLength /\ ticks + SinceTick \in Nat
         /\ ticks + SinceTick <= clock /\ (~tickPending => ticks + SinceTick = clock)
<1>1. SinceTick \in 0 .. TickLength - 1
  BY Divided, TimesArePositive DEF SinceTick, SleepTypes
<1> HIDE DEF SinceTick
<1> QED BY <1>1, TimesArePositive DEF SleepTypes, TicksAgree

\* The interrupts.
LEMMA TimePassesKeeps ==
  ASSUME SleepInv, TimePasses
  PROVE  SleepInv'
<1> USE DEF TimePasses, taskVars
<1>1. SleepTypes'
  <2>1. clock' \in Nat /\ oneShot' \in Nat
    BY DEF SleepInv, SleepTypes, Off
  <2> QED BY <2>1 DEF SleepInv, SleepTypes
<1>2. TicksAgree'
  <2>1. SinceTick' = IF SinceTick = TickLength - 1 THEN 0 ELSE SinceTick + 1
    <3>1. clock \in Nat /\ TickLength \in Nat /\ TickLength > 0 /\ clock' = clock + 1
      BY TimesArePositive DEF SleepInv, SleepTypes
    <3> HIDE DEF TimePasses
    <3>2. (clock + 1) % TickLength = IF clock % TickLength = TickLength - 1 THEN 0 ELSE (clock % TickLength) + 1
      BY <3>1, NextRemainder
    <3>3. SinceTick' = (clock + 1) % TickLength
      BY <3>1 DEF SinceTick
    <3> QED BY <3>2, <3>3 DEF SinceTick
  <2>2. (clock + 1) % TickLength = SinceTick' /\ clock' = clock + 1 /\ ticks' = ticks
    BY DEF SinceTick
  <2>3. /\ tickPending' = (tickPending \/ SinceTick' = 0)
        /\ ~(SinceTick' = 0 /\ tickPending)
    BY <2>2
  <2>4. SinceTick \in Nat /\ SinceTick < TickLength
    BY TicksTypes DEF SleepInv
  <2> HIDE DEF TimePasses
  <2>5. CASE SinceTick = TickLength - 1
    <3>1. SinceTick' = 0 /\ tickPending' /\ ~tickPending
      BY <2>1, <2>3, <2>5
    <3>2. ticks + SinceTick = clock
      BY <2>4, <3>1, TicksTypes DEF SleepInv
    <3>3. ticks' + TickLength + SinceTick' = clock'
      BY <2>2, <2>5, <3>1, <3>2, TimesArePositive DEF SleepInv, SleepTypes
    <3> QED BY <3>1, <3>3 DEF TicksAgree
  <2>6. CASE SinceTick # TickLength - 1
    <3>1. SinceTick' = SinceTick + 1 /\ SinceTick' # 0
      BY <2>1, <2>4, <2>6
    <3>2. tickPending' <=> tickPending
      BY <2>3, <3>1
    <3>3. (IF tickPending THEN TickLength ELSE 0) = (IF tickPending' THEN TickLength ELSE 0)
      BY <3>2
    <3>4. (IF tickPending THEN TickLength ELSE 0) \in Nat
      BY TimesArePositive
    <3> DEFINE a == IF tickPending THEN TickLength ELSE 0
               b == IF tickPending' THEN TickLength ELSE 0
    <3>5. ticks + a + SinceTick = clock /\ a = b /\ a \in Nat
      BY <3>3, <3>4 DEF SleepInv, TicksAgree
    <3> HIDE DEF a, b
    <3>6. ticks' + b + SinceTick' = clock'
      BY <2>2, <2>4, <3>1, <3>5 DEF SleepInv, SleepTypes
    <3> QED BY <3>6 DEF TicksAgree, b
  <2> QED BY <2>5, <2>6
<1>3. (\A t \in Sleepers : Asked(t))'
  <2> SUFFICES ASSUME NEW t \in Sleepers PROVE Asked(t)'
    OBVIOUS
  <2>1. clock \in Nat /\ timeout[t] \in Nat /\ due[t] \in Nat /\ clock' = clock + 1
    BY DEF SleepInv, SleepTypes
  <2>2. Asked(t) /\ UNCHANGED <<sleepPc, timeNs, timeout, due, sleepEvent>>
    BY DEF SleepInv
  <2> HIDE DEF TimePasses
  <2> QED BY <2>1, <2>2 DEF Asked
<1>4. QueueOK'
  BY DEF SleepInv, QueueOK
<1>5. Armed'
  <2>1. CASE oneShot = clock + 1
    BY <2>1 DEF Armed
  <2>2. CASE oneShot # clock + 1
    BY <2>2 DEF SleepInv, Armed
  <2> QED BY <2>1, <2>2
<1> QED BY <1>1, <1>2, <1>3, <1>4, <1>5 DEF SleepInv

\* The periodic timer's ISR counts the pending tick.
LEMMA TickIrqKeeps ==
  ASSUME SleepInv, TickIrq
  PROVE  SleepInv'
<1> USE DEF TickIrq, taskVars
<1>1. SleepTypes'
  BY TimesArePositive DEF SleepInv, SleepTypes
<1>2. TicksAgree'
  <2>1. SinceTick' = SinceTick
    BY DEF SinceTick
  <2>2. SinceTick \in Nat
    BY TicksTypes DEF SleepInv
  <2>3. ticks + TickLength + SinceTick = clock
    BY DEF SleepInv, TicksAgree
  <2>4. ticks' + 0 + SinceTick' = clock' /\ ~tickPending'
    BY <2>1, <2>2, <2>3, TimesArePositive DEF SleepInv, SleepTypes
  <2> QED BY <2>4 DEF TicksAgree
<1>3. (\A t \in Sleepers : Asked(t))'
  BY DEF SleepInv, Asked
<1>4. QueueOK'
  BY DEF SleepInv, QueueOK
<1>5. Armed'
  BY DEF SleepInv, Armed
<1> QED BY <1>1, <1>2, <1>3, <1>4, <1>5 DEF SleepInv

\* The one-shot timer's ISR wakes the first entries, those that are due.
LEMMA OneShotIrqKeeps ==
  ASSUME SleepInv, OneShotIrq
  PROVE  SleepInv'
<1> DEFINE now == ticks + SinceTick
<1>1. /\ timerq' = Left(now) /\ oneShot' = Rearm(Left(now), now)
      /\ sleepEvent' = [t \in Sleepers |-> sleepEvent[t] \/ \E i \in Due(now) : timerq[i] = t]
      /\ UNCHANGED <<clock, ticks, tickPending, sleepPc, timeNs, timeout, due, irqsOff>>
  BY DEF OneShotIrq, Left, Due, clockVars, taskVars
<1>2. now \in Nat /\ now <= clock /\ SleepTypes /\ QueueOK
  BY TicksTypes DEF SleepInv
<1> HIDE DEF now
<1>3. PICK k \in 0 .. Len(timerq) :
        /\ Due(now) = 1 .. k /\ Left(now) = SubSeq(timerq, k + 1, Len(timerq))
        /\ \A i \in 1 .. k : timeout[timerq[i]] <= now
        /\ k < Len(timerq) => timeout[timerq[k + 1]] > now
  BY <1>2, DueAreFirst DEF SleepTypes
<1>4. /\ timerq' \in Seq(Sleepers) /\ Sorted(timerq', timeout) /\ Once(timerq')
      /\ timerq' # <<>> => k < Len(timerq) /\ Head(timerq') = timerq[k + 1]
      /\ \A u : Has(timerq', u) <=> Has(timerq, u) /\ ~\E i \in 1 .. k : timerq[i] = u
  <2>1. timerq \in Seq(Sleepers) /\ Sorted(timerq, timeout) /\ Once(timerq)
    BY <1>2 DEF SleepTypes, QueueOK
  <2>2. timerq' = SubSeq(timerq, k + 1, Len(timerq))
    BY <1>1, <1>3
  <2>3. IsLeft(timerq', timerq, k, timeout)
    BY <2>1, <2>2, LeftKeeps
  <2> QED BY <2>3 DEF IsLeft
<1>5. timerq' # <<>> => oneShot' \in Nat /\ oneShot' > 0
  <2> SUFFICES ASSUME timerq' # <<>> PROVE oneShot' \in Nat /\ oneShot' > 0
    OBVIOUS
  <2>1. oneShot' = clock + (timeout[timerq[k + 1]] - now)
    BY <1>1, <1>4 DEF Rearm, ArmedFor
  <2>2. k + 1 \in 1 .. Len(timerq) /\ timeout[timerq[k + 1]] > now
    BY <1>3, <1>4, <1>2 DEF SleepTypes
  <2>3. timeout[timerq[k + 1]] \in Nat /\ clock \in Nat
    BY <1>2, <2>2 DEF SleepTypes
  <2> QED BY <1>2, <2>1, <2>2, <2>3
<1>6. timerq' = <<>> => oneShot' = oneShot
  BY <1>1 DEF Rearm
<1>7. ASSUME NEW t \in Sleepers
      PROVE  /\ sleepEvent'[t] <=> sleepEvent[t] \/ \E i \in 1 .. k : timerq[i] = t
             /\ sleepEvent'[t] \in BOOLEAN
  BY <1>1, <1>2, <1>3 DEF SleepTypes
<1>8. ASSUME NEW i \in 1 .. k
      PROVE  /\ timerq[i] \in Sleepers /\ timeout[timerq[i]] <= now
             /\ Has(timerq, timerq[i]) /\ sleepPc[timerq[i]] \in {"resume", "wait"}
  <2>1. i \in 1 .. Len(timerq)
    BY <1>2 DEF SleepTypes
  <2>2. timerq[i] \in Sleepers
    BY <1>2, <2>1 DEF SleepTypes
  <2>3. Has(timerq, timerq[i])
    BY <2>1 DEF Has
  <2> QED BY <1>2, <1>3, <2>2, <2>3 DEF QueueOK
<1>9. SleepTypes'
  <2>1. sleepEvent' \in [Sleepers -> BOOLEAN]
    BY <1>1, <1>7
  <2>2. oneShot' \in Nat
    BY <1>2, <1>5, <1>6 DEF SleepTypes
  <2> QED BY <1>1, <1>2, <1>4, <2>1, <2>2 DEF SleepTypes
<1>10. TicksAgree'
  BY <1>1 DEF SleepInv, TicksAgree, SinceTick
<1>11. (\A t \in Sleepers : Asked(t))'
  <2> SUFFICES ASSUME NEW t \in Sleepers PROVE Asked(t)'
    OBVIOUS
  <2>1. Asked(t)
    BY DEF SleepInv
  <2>2. ASSUME sleepEvent'[t] PROVE sleepPc[t] \in {"resume", "wait"} /\ due[t] <= clock
    <3>1. CASE sleepEvent[t]
      BY <2>1, <3>1 DEF Asked
    <3>2. CASE \E i \in 1 .. k : timerq[i] = t
      <4>1. sleepPc[t] \in {"resume", "wait"} /\ timeout[t] <= now
        BY <1>8, <3>2
      <4>2. due[t] <= timeout[t]
        BY <2>1, <4>1 DEF Asked
      <4>3. due[t] \in Nat /\ timeout[t] \in Nat /\ clock \in Nat
        BY <1>2 DEF SleepTypes
      <4> QED BY <1>2, <4>1, <4>2, <4>3
    <3> QED BY <1>7, <2>2, <3>1, <3>2
  <2> QED BY <1>1, <2>1, <2>2 DEF Asked
<1>12. QueueOK'
  <2>1. ASSUME NEW t \in Sleepers
        PROVE  Has(timerq', t) <=> sleepPc[t] \in {"resume", "wait"} /\ ~sleepEvent'[t]
    <3>1. Has(timerq, t) <=> sleepPc[t] \in {"resume", "wait"} /\ ~sleepEvent[t]
      BY <1>2 DEF QueueOK
    <3> QED BY <1>4, <1>7, <3>1
  <2> QED BY <1>1, <1>4, <2>1 DEF QueueOK
<1>13. Armed'
  BY <1>5 DEF Armed, Off
<1> QED BY <1>9, <1>10, <1>11, <1>12, <1>13 DEF SleepInv

\* A task takes the time: its timeout is in the queue of nobody.
LEMMA ReadTicksKeeps ==
  ASSUME SleepInv, NEW t \in Sleepers, ReadTicks(t)
  PROVE  SleepInv'
<1>1. PICK d \in Durations : due' = [due EXCEPT ![t] = clock + d] /\ timeout' = [timeout EXCEPT ![t] = d]
  BY DEF ReadTicks
<1>2. /\ sleepPc[t] = "idle" /\ sleepPc' = [sleepPc EXCEPT ![t] = "counter"]
      /\ timeNs' = [timeNs EXCEPT ![t] = ticks]
      /\ UNCHANGED <<clock, ticks, tickPending, oneShot, shotPending, timerq, sleepEvent, irqsOff>>
  BY DEF ReadTicks, TaskAt, To, clockVars
<1>3. d \in Nat /\ d > 0
  BY TimesArePositive
<1>4. SleepTypes /\ QueueOK /\ (\A u \in Sleepers : Asked(u))
  BY DEF SleepInv
<1>5. SleepTypes'
  BY <1>1, <1>2, <1>3, <1>4 DEF SleepTypes, Places
<1>6. TicksAgree'
  BY <1>2 DEF SleepInv, TicksAgree, SinceTick
<1>7. (\A u \in Sleepers : Asked(u))'
  <2> SUFFICES ASSUME NEW u \in Sleepers PROVE Asked(u)'
    OBVIOUS
  <2>1. CASE u = t
    <3>1. sleepPc'[t] = "counter" /\ due'[t] = clock + d /\ timeout'[t] = d /\ sleepEvent'[t] = sleepEvent[t]
      BY <1>1, <1>2, <1>4 DEF SleepTypes
    <3>2. ~sleepEvent[t]
      BY <1>2, <1>4 DEF Asked
    <3>3. clock' = clock /\ due'[t] <= clock + d
      BY <1>2, <1>3, <1>4, <3>1 DEF SleepTypes
    <3> QED BY <1>3, <2>1, <3>1, <3>2, <3>3 DEF Asked
  <2>2. CASE u # t
    <3>1. /\ sleepPc'[u] = sleepPc[u] /\ due'[u] = due[u] /\ timeout'[u] = timeout[u]
          /\ timeNs'[u] = timeNs[u] /\ sleepEvent'[u] = sleepEvent[u]
      BY <1>1, <1>2, <1>4, <2>2 DEF SleepTypes
    <3> QED BY <1>2, <1>4, <3>1 DEF Asked
  <2> QED BY <2>1, <2>2
<1>8. QueueOK'
  <2>1. ~Has(timerq, t)
    BY <1>2, <1>4 DEF QueueOK
  <2>2. Sorted(timerq, [timeout EXCEPT ![t] = d])
    BY <1>4, <2>1, SortedOther DEF SleepTypes, QueueOK
  <2>3. ASSUME NEW u \in Sleepers
        PROVE  Has(timerq, u) <=> sleepPc'[u] \in {"resume", "wait"} /\ ~sleepEvent[u]
    BY <1>2, <1>4 DEF QueueOK, SleepTypes
  <2> QED BY <1>1, <1>2, <1>4, <2>2, <2>3 DEF QueueOK
<1>9. Armed'
  BY <1>2 DEF SleepInv, Armed
<1> QED BY <1>5, <1>6, <1>7, <1>8, <1>9 DEF SleepInv

\* The counter is read while no interrupt is pending: the sum is the time.
LEMMA ReadCounterKeeps ==
  ASSUME SleepInv, NEW t \in Sleepers, ReadCounter(t)
  PROVE  SleepInv'
<1>1. /\ sleepPc[t] = "counter" /\ ~tickPending
      /\ UNCHANGED <<clock, ticks, tickPending, oneShot, shotPending, timerq, timeout, sleepEvent,
                     due, irqsOff>>
  BY DEF ReadCounter, TaskAt, clockVars
<1>2. \/ timeNs' = [timeNs EXCEPT ![t] = ticks] /\ sleepPc' = sleepPc
      \/ /\ timeNs' = [timeNs EXCEPT ![t] = ticks + SinceTick]
         /\ sleepPc' = [sleepPc EXCEPT ![t] = "queue"]
  BY DEF ReadCounter, TickFired, To
<1>3. SleepTypes /\ QueueOK /\ (\A u \in Sleepers : Asked(u))
  BY DEF SleepInv
<1>4. ticks + SinceTick \in Nat /\ ticks + SinceTick = clock
  BY <1>1, TicksTypes DEF SleepInv
<1>5. SleepTypes'
  BY <1>1, <1>2, <1>3, <1>4 DEF SleepTypes, Places
<1>6. TicksAgree'
  BY <1>1 DEF SleepInv, TicksAgree, SinceTick
<1>7. (\A u \in Sleepers : Asked(u))'
  <2> SUFFICES ASSUME NEW u \in Sleepers PROVE Asked(u)'
    OBVIOUS
  <2>1. CASE u = t /\ sleepPc' = sleepPc
    BY <1>1, <1>3, <2>1 DEF Asked
  <2>2. CASE u = t /\ timeNs' = [timeNs EXCEPT ![t] = ticks + SinceTick]
             /\ sleepPc' = [sleepPc EXCEPT ![t] = "queue"]
    <3>1. sleepPc'[t] = "queue" /\ timeNs'[t] = clock
      BY <1>3, <1>4, <2>2 DEF SleepTypes
    <3>2. ~sleepEvent[t] /\ due[t] <= clock + timeout[t] /\ timeout[t] > 0
      BY <1>1, <1>3 DEF Asked
    <3> QED BY <1>1, <2>2, <3>1, <3>2 DEF Asked
  <2>3. CASE u # t
    <3>1. sleepPc'[u] = sleepPc[u] /\ timeNs'[u] = timeNs[u]
      BY <1>2, <1>3, <2>3 DEF SleepTypes
    <3> QED BY <1>1, <1>3, <3>1 DEF Asked
  <2> QED BY <1>2, <2>1, <2>2, <2>3
<1>8. QueueOK'
  <2>1. ASSUME NEW u \in Sleepers
        PROVE  sleepPc'[u] \in {"resume", "wait"} <=> sleepPc[u] \in {"resume", "wait"}
    BY <1>1, <1>2, <1>3 DEF SleepTypes
  <2> QED BY <1>1, <1>3, <2>1 DEF QueueOK
<1>9. Armed'
  BY <1>1 DEF SleepInv, Armed
<1> QED BY <1>5, <1>6, <1>7, <1>8, <1>9 DEF SleepInv

\* A task at one place goes on to another with the same claims.
LEMMA MaskKeeps ==
  ASSUME SleepInv, NEW t \in Sleepers, SuspendIrq(t) \/ ResumeIrq(t)
  PROVE  SleepInv'
<1>1. /\ UNCHANGED <<clock, ticks, tickPending, oneShot, shotPending, timerq, timeNs, timeout,
                     sleepEvent, due>>
      /\ \/ sleepPc[t] = "queue" /\ sleepPc' = [sleepPc EXCEPT ![t] = "insert"]
         \/ sleepPc[t] = "resume" /\ sleepPc' = [sleepPc EXCEPT ![t] = "wait"]
  BY DEF SuspendIrq, ResumeIrq, TaskAt, To, clockVars
<1>2. SleepTypes /\ QueueOK /\ (\A u \in Sleepers : Asked(u))
  BY DEF SleepInv
<1>3. SleepTypes'
  BY <1>1, <1>2 DEF SleepTypes, Places
<1>4. TicksAgree'
  BY <1>1 DEF SleepInv, TicksAgree, SinceTick
<1>5. ASSUME NEW u \in Sleepers
      PROVE  /\ sleepPc'[u] \in {"resume", "wait"} <=> sleepPc[u] \in {"resume", "wait"}
             /\ sleepPc'[u] \in {"queue", "insert"} <=> sleepPc[u] \in {"queue", "insert"}
             /\ sleepPc'[u] = "counter" <=> sleepPc[u] = "counter"
  BY <1>1, <1>2 DEF SleepTypes
<1>6. (\A u \in Sleepers : Asked(u))'
  BY <1>1, <1>2, <1>5 DEF Asked
<1>7. QueueOK'
  BY <1>1, <1>2, <1>5 DEF QueueOK
<1>8. Armed'
  BY <1>1 DEF SleepInv, Armed
<1> QED BY <1>3, <1>4, <1>6, <1>7, <1>8 DEF SleepInv

\* A task queues itself, and arms the timer when it is the first.
LEMMA EnqueueKeeps ==
  ASSUME SleepInv, NEW t \in Sleepers, Enqueue(t)
  PROVE  SleepInv'
<1> DEFINE at == timeNs[t] + timeout[t]
<1>1. /\ sleepPc[t] = "insert" /\ sleepPc' = [sleepPc EXCEPT ![t] = "resume"]
      /\ timeout' = [timeout EXCEPT ![t] = at] /\ timerq' = TimerqAdd(t, at)
      /\ UNCHANGED <<clock, ticks, tickPending, timeNs, sleepEvent, due>>
      /\ IF Head(timerq') = t
         THEN oneShot' = clock + timeout[t] /\ shotPending' = FALSE
         ELSE UNCHANGED <<oneShot, shotPending>>
  BY DEF Enqueue, TaskAt, To, clockVars, ArmedFor
<1>2. SleepTypes /\ QueueOK /\ (\A u \in Sleepers : Asked(u))
  BY DEF SleepInv
<1>3. /\ at \in Nat /\ timeout[t] \in Nat /\ timeout[t] > 0 /\ due[t] <= at /\ ~sleepEvent[t]
      /\ ~Has(timerq, t)
  <2>1. timeNs[t] \in Nat /\ timeout[t] \in Nat
    BY <1>2 DEF SleepTypes
  <2>2. timeout[t] > 0 /\ due[t] <= at /\ ~sleepEvent[t]
    BY <1>1, <1>2 DEF Asked
  <2>3. ~Has(timerq, t)
    BY <1>1, <1>2 DEF QueueOK
  <2> QED BY <2>1, <2>2, <2>3
<1> HIDE DEF at
<1>4. PICK i \in 0 .. Len(timerq) :
        /\ IsAfter(timerq', timerq, i, t) /\ timerq' \in Seq(Sleepers)
        /\ \A j \in 1 .. Len(timerq) : timeout[timerq[j]] \in Nat
        /\ \A j \in 1 .. Len(timerq) : j <= i <=> timeout[timerq[j]] <= at
  BY <1>1, <1>2, <1>3, AddIs DEF SleepTypes, QueueOK
<1>5. /\ Sorted(timerq', timeout') /\ Once(timerq')
      /\ \A u \in Sleepers : Has(timerq', u) <=> Has(timerq, u) \/ u = t
  <2>1. timerq \in Seq(Sleepers) /\ timeout \in [Sleepers -> Nat] /\ Sorted(timerq, timeout) /\ Once(timerq)
    BY <1>2 DEF SleepTypes, QueueOK
  <2>2. timerq' \in Seq(Sleepers) /\ IsAfter(timerq', timerq, i, t)
        /\ \A j \in 1 .. Len(timerq) : j <= i <=> timeout[timerq[j]] <= at
    BY <1>4
  <2>3. IsJoined(timerq', timerq, t, [timeout EXCEPT ![t] = at])
    BY <1>3, <2>1, <2>2, AddKeeps
  <2> QED BY <1>1, <2>3 DEF IsJoined
<1>6. SleepTypes'
  <2>1. oneShot' \in Nat
    BY <1>1, <1>2, <1>3 DEF SleepTypes
  <2> QED BY <1>1, <1>2, <1>3, <1>4, <2>1 DEF SleepTypes, Places
<1>7. TicksAgree'
  BY <1>1 DEF SleepInv, TicksAgree, SinceTick
<1>8. (\A u \in Sleepers : Asked(u))'
  <2> SUFFICES ASSUME NEW u \in Sleepers PROVE Asked(u)'
    OBVIOUS
  <2>1. CASE u = t
    <3>1. sleepPc'[t] = "resume" /\ timeout'[t] = at
      BY <1>1, <1>2 DEF SleepTypes
    <3> QED BY <1>1, <1>3, <2>1, <3>1 DEF Asked
  <2>2. CASE u # t
    <3>1. sleepPc'[u] = sleepPc[u] /\ timeout'[u] = timeout[u]
      BY <1>1, <1>2, <2>2 DEF SleepTypes
    <3> QED BY <1>1, <1>2, <3>1 DEF Asked
  <2> QED BY <2>1, <2>2
<1>9. QueueOK'
  <2>1. ASSUME NEW u \in Sleepers
        PROVE  Has(timerq', u) <=> sleepPc'[u] \in {"resume", "wait"} /\ ~sleepEvent[u]
    <3>1. CASE u = t
      BY <1>1, <1>2, <1>3, <1>5, <3>1 DEF SleepTypes
    <3>2. CASE u # t
      <4>1. sleepPc'[u] = sleepPc[u]
        BY <1>1, <1>2, <3>2 DEF SleepTypes
      <4> QED BY <1>2, <1>5, <3>2, <4>1 DEF QueueOK
    <3> QED BY <3>1, <3>2
  <2> QED BY <1>1, <1>5, <2>1 DEF QueueOK
<1>10. Armed'
  <2>1. CASE Head(timerq') = t
    <3>1. oneShot' = clock + timeout[t] /\ clock \in Nat
      BY <1>1, <1>2, <2>1 DEF SleepTypes
    <3>2. oneShot' # 0
      BY <1>3, <3>1
    <3> QED BY <3>2 DEF Armed, Off
  <2>2. CASE Head(timerq') # t
    <3>1. timerq # <<>>
      <4> SUFFICES ASSUME timerq = <<>> PROVE FALSE
        OBVIOUS
      <4>1. Len(timerq) = 0 /\ i = 0 /\ Len(timerq') = 1 /\ timerq'[1] = t
        BY <1>4 DEF IsAfter
      <4>2. Head(timerq') = timerq'[1]
        BY <1>4, <4>1
      <4> QED BY <2>2, <4>1, <4>2
    <3>2. oneShot' = oneShot /\ shotPending' = shotPending
      BY <1>1, <2>2
    <3> QED BY <3>1, <3>2 DEF SleepInv, Armed
  <2> QED BY <2>1, <2>2
<1> QED BY <1>6, <1>7, <1>8, <1>9, <1>10 DEF SleepInv

\* A woken task starts afresh.
LEMMA WakesKeeps ==
  ASSUME SleepInv, NEW t \in Sleepers, Wakes(t)
  PROVE  SleepInv'
<1>1. /\ sleepPc[t] = "wait" /\ sleepEvent[t] /\ sleepPc' = [sleepPc EXCEPT ![t] = "idle"]
      /\ sleepEvent' = [sleepEvent EXCEPT ![t] = FALSE]
      /\ timeNs' = [timeNs EXCEPT ![t] = 0] /\ timeout' = [timeout EXCEPT ![t] = 0]
      /\ due' = [due EXCEPT ![t] = 0]
      /\ UNCHANGED <<clock, ticks, tickPending, oneShot, shotPending, timerq, irqsOff>>
  BY DEF Wakes, TaskAt, To, clockVars
<1>2. SleepTypes /\ QueueOK /\ (\A u \in Sleepers : Asked(u))
  BY DEF SleepInv
<1>3. SleepTypes'
  BY <1>1, <1>2 DEF SleepTypes, Places
<1>4. TicksAgree'
  BY <1>1 DEF SleepInv, TicksAgree, SinceTick
<1>5. (\A u \in Sleepers : Asked(u))'
  <2> SUFFICES ASSUME NEW u \in Sleepers PROVE Asked(u)'
    OBVIOUS
  <2>1. CASE u = t
    <3>1. sleepPc'[t] = "idle" /\ ~sleepEvent'[t]
      BY <1>1, <1>2 DEF SleepTypes
    <3> QED BY <2>1, <3>1 DEF Asked
  <2>2. CASE u # t
    <3>1. /\ sleepPc'[u] = sleepPc[u] /\ due'[u] = due[u] /\ timeout'[u] = timeout[u]
          /\ timeNs'[u] = timeNs[u] /\ sleepEvent'[u] = sleepEvent[u]
      BY <1>1, <1>2, <2>2 DEF SleepTypes
    <3> QED BY <1>1, <1>2, <3>1 DEF Asked
  <2> QED BY <2>1, <2>2
<1>6. QueueOK'
  <2>1. ~Has(timerq, t)
    BY <1>1, <1>2 DEF QueueOK
  <2>2. Sorted(timerq, [timeout EXCEPT ![t] = 0])
    BY <1>2, <2>1, SortedOther DEF SleepTypes, QueueOK
  <2>3. ASSUME NEW u \in Sleepers
        PROVE  Has(timerq, u) <=> sleepPc'[u] \in {"resume", "wait"} /\ ~sleepEvent'[u]
    <3>1. CASE u = t
      <4>1. sleepPc'[t] = "idle"
        BY <1>1, <1>2 DEF SleepTypes
      <4> QED BY <2>1, <3>1, <4>1
    <3>2. CASE u # t
      <4>1. sleepPc'[u] = sleepPc[u] /\ sleepEvent'[u] = sleepEvent[u]
        BY <1>1, <1>2, <3>2 DEF SleepTypes
      <4> QED BY <1>2, <4>1 DEF QueueOK
    <3> QED BY <3>1, <3>2
  <2> QED BY <1>1, <1>2, <2>2, <2>3 DEF QueueOK
<1>7. Armed'
  BY <1>1 DEF SleepInv, Armed
<1> QED BY <1>3, <1>4, <1>5, <1>6, <1>7 DEF SleepInv

\* SleepInv is an invariant.
LEMMA SleepInvHolds == SleepSpec => []SleepInv
<1>1. SleepInv /\ [SleepNext]_sleepVars => SleepInv'
  <2> SUFFICES ASSUME SleepInv, [SleepNext]_sleepVars PROVE SleepInv'
    OBVIOUS
  <2>1. CASE TimePasses \/ TickIrq \/ OneShotIrq
    BY <2>1, TimePassesKeeps, TickIrqKeeps, OneShotIrqKeeps
  <2>2. CASE \E t \in Sleepers : ReadTicks(t) \/ ReadCounter(t) \/ SuspendIrq(t) \/ Enqueue(t)
                                 \/ ResumeIrq(t) \/ Wakes(t)
    BY <2>2, ReadTicksKeeps, ReadCounterKeeps, MaskKeeps, EnqueueKeeps, WakesKeeps
  <2>3. CASE UNCHANGED sleepVars
    BY <2>3 DEF SleepInv, SleepTypes, TicksAgree, SinceTick, Asked, QueueOK, Armed, sleepVars
  <2> QED BY <2>1, <2>2, <2>3 DEF SleepNext
<1> QED BY <1>1, SleepInitInv, PTL DEF SleepSpec

\* No sleeper is woken before its time: the time a task reads is never ahead of the clock
\* when it computes its timeout, nor is the time the ISR compares it with.
THEOREM WokenInTime == SleepSpec => []NeverEarly
<1>1. SleepInv => NeverEarly
  <2> SUFFICES ASSUME SleepInv, NEW t \in Sleepers, sleepEvent[t] PROVE clock >= due[t]
    BY DEF NeverEarly
  <2>1. clock \in Nat /\ due[t] \in Nat /\ due[t] <= clock
    BY DEF SleepInv, SleepTypes, Asked
  <2> QED BY <2>1
<1> QED BY <1>1, SleepInvHolds, PTL

\* Every sleeper that was not woken is in the ordered queue, and while there is one the
\* timer is armed or its interrupt pending.
THEOREM NobodyForgotten == SleepSpec => []SleepersCovered
<1>1. SleepInv => SleepersCovered
  <2> SUFFICES ASSUME SleepInv PROVE SleepersCovered
    OBVIOUS
  <2>1. DOMAIN timerq = 1 .. Len(timerq)
    BY DEF SleepInv, SleepTypes
  <2> QED BY <2>1 DEF SleepInv, QueueOK, Sorted, Has, Armed, SleepersCovered
<1> QED BY <1>1, SleepInvHolds, PTL

-----------------------------------------------------------------------------
(* The updater.                                                            *)

Marks == {"blank", "torn", "skew"}

\* The first copy of a type.
LEMMA FirstIs ==
  ASSUME NEW t \in Types
  PROVE  FirstOf(t) \in Entries(t) /\ \A f \in Entries(t) : FirstOf(t) <= f
<1>1. Entries(t) \subseteq Nat /\ Entries(t) # {}
  BY FlashAssumption DEF Entries, Types
<1> QED BY <1>1, SomeLeast DEF FirstOf

\* Copies do not overlap, and lie in the flash.
LEMMA CopiesApart ==
  ASSUME NEW e \in DOMAIN Table, NEW f \in DOMAIN Table, e < f,
         NEW a \in 0 .. CopyUnits - 1, NEW b \in 0 .. CopyUnits - 1
  PROVE  Base(e) + a < Base(f) + b
<1> DEFINE C == CopyUnits
<1>1. C \in Nat /\ e \in Nat /\ f \in Nat /\ f - 1 - e \in Nat
  BY FlashAssumption
<1>2. C * (f - 1) = C * (e - 1) + C + C * (f - 1 - e)
  BY <1>1
<1>3. C * (f - 1 - e) >= 0 /\ C * (f - 1 - e) \in Int /\ C * (e - 1) \in Int
  BY <1>1
<1> QED BY <1>1, <1>2, <1>3 DEF Base

\* Every unit of a copy is a unit of the flash.
LEMMA CopyInFlash ==
  ASSUME NEW e \in DOMAIN Table, NEW a \in 0 .. CopyUnits - 1
  PROVE  Base(e) + a \in Units /\ Base(e) \in Nat
<1> DEFINE C == CopyUnits
           L == Len(Table)
<1>1. C \in Nat /\ e \in Nat /\ L \in Nat /\ L - e \in Nat /\ e - 1 \in Nat
  BY FlashAssumption
<1>2. C * L = C * (e - 1) + C + C * (L - e)
  BY <1>1
<1>3. C * (L - e) \in Nat /\ C * (e - 1) \in Nat
  BY <1>1
<1>4. Base(e) = C * (e - 1)
  BY DEF Base
<1>5. Base(e) + a \in 0 .. C * L - 1
  <2> HIDE DEF L
  <2>1. a \in Int /\ 0 <= a /\ a <= C - 1
    BY <1>1
  <2> QED BY <1>1, <1>2, <1>3, <1>4, <2>1
<1> QED BY <1>3, <1>4, <1>5 DEF Units

\* Every unit of the flash belongs to an entry of the table.
LEMMA EntryOfUnit ==
  ASSUME NEW u \in Units
  PROVE  u \div CopyUnits + 1 \in DOMAIN Table
<1> DEFINE C == CopyUnits
           L == Len(Table)
           q == u \div C
<1>1. C \in Nat \ {0} /\ L \in Nat /\ u \in Nat /\ u < C * L /\ C * L \in Nat
  BY FlashAssumption DEF Units
<1>2. q \in Int /\ C * q <= u /\ u < C * q + C
  BY <1>1
<1>3. q >= 0
  <2>1. CASE q < 0
    <3>1. C * q + C <= 0
      BY <1>1, <1>2, <2>1
    <3> QED BY <3>1, <1>1, <1>2
  <2> QED BY <1>2, <2>1
<1>4. q < L
  <2>1. CASE q >= L
    <3>1. C * q >= C * L
      BY <1>1, <1>2, <2>1
    <3> QED BY <3>1, <1>1, <1>2
  <2> QED BY <1>1, <1>2, <2>1
<1> QED BY <1>2, <1>3, <1>4, FlashAssumption
-----------------------------------------------------------------------------
\* What fup_get_prt_data finds: the first valid copy, or nothing.
LEMMA ImageOfIs ==
  ASSUME NEW fl, NEW es \in SUBSET DOMAIN Table
  PROVE  \/ ImageOf(fl, es) = NoImage /\ \A e \in es : ~CopyValid(fl, e)
         \/ \E e \in es : /\ CopyValid(fl, e) /\ ImageOf(fl, es) = fl[Base(e)]
                         /\ \A f \in es : CopyValid(fl, f) => e <= f
<1> DEFINE good == {e \in es : CopyValid(fl, e)}
<1>1. CASE good = {}
  BY <1>1 DEF ImageOf
<1>2. CASE good # {}
  <2>1. good \subseteq Nat
    BY FlashAssumption
  <2>2. \E e \in good : \A f \in good : e <= f
    <3> HIDE DEF good
    <3> QED BY <1>2, <2>1, SomeLeast
  <2> DEFINE e0 == CHOOSE e \in good : \A f \in good : e <= f
  <2>3. e0 \in good /\ \A f \in good : e0 <= f
    BY <2>2
  <2>4. ImageOf(fl, es) = fl[Base(e0)]
    BY <1>2 DEF ImageOf
  <2> HIDE DEF e0
  <2> QED BY <2>3, <2>4
<1> QED BY <1>1, <1>2

\* It depends on which copies are valid and on their headers.
LEMMA ImageOfSame ==
  ASSUME NEW fl, NEW g, NEW es \in SUBSET DOMAIN Table,
         \A e \in es : CopyValid(fl, e) <=> CopyValid(g, e),
         \A e \in es : fl[Base(e)] = g[Base(e)]
  PROVE  ImageOf(fl, es) = ImageOf(g, es)
<1> es \subseteq Nat
  BY FlashAssumption
<1> QED BY ImageOfIs

Rest(t) == Entries(t) \ {FirstOf(t)}

\* The first copy, or the backup.
LEMMA ReadingIs ==
  ASSUME NEW fl, NEW t \in Types
  PROVE  ImageOf(fl, Entries(t)) = IF CopyValid(fl, FirstOf(t)) THEN fl[Base(FirstOf(t))]
                                   ELSE ImageOf(fl, Rest(t))
<1> DEFINE a == FirstOf(t)
<1>1. a \in Entries(t) /\ (\A f \in Entries(t) : a <= f) /\ Entries(t) \subseteq Nat
      /\ Entries(t) \in SUBSET DOMAIN Table /\ Rest(t) \in SUBSET DOMAIN Table
      /\ Rest(t) = Entries(t) \ {a}
  BY FirstIs, FlashAssumption DEF Entries, Rest
<1> HIDE DEF a
<1>2. CASE CopyValid(fl, a)
  BY <1>1, <1>2, ImageOfIs DEF a
<1>3. CASE ~CopyValid(fl, a)
  <2>1. \A e \in Entries(t) : CopyValid(fl, e) => e \in Rest(t)
    BY <1>1, <1>3
  <2>2. \/ ImageOf(fl, Entries(t)) = NoImage /\ \A e \in Entries(t) : ~CopyValid(fl, e)
        \/ \E e \in Entries(t) :
             /\ CopyValid(fl, e) /\ ImageOf(fl, Entries(t)) = fl[Base(e)]
             /\ \A f \in Entries(t) : CopyValid(fl, f) => e <= f
    BY <1>1, ImageOfIs
  <2>3. \/ ImageOf(fl, Rest(t)) = NoImage /\ \A e \in Rest(t) : ~CopyValid(fl, e)
        \/ \E e \in Rest(t) :
             /\ CopyValid(fl, e) /\ ImageOf(fl, Rest(t)) = fl[Base(e)]
             /\ \A f \in Rest(t) : CopyValid(fl, f) => e <= f
    BY <1>1, ImageOfIs
  <2>4. ImageOf(fl, Entries(t)) = ImageOf(fl, Rest(t))
    BY <1>1, <2>1, <2>2, <2>3
  <2> QED BY <1>3, <2>4 DEF a
<1> QED BY <1>2, <1>3

\* What an update may touch: the first copy of its type.
Content == [Units -> Images \cup Marks]
Fits(fl) == \A u \in Units : fl[u] \in Images => ImageUnits[fl[u]] < CopyUnits
Confined(fl, g, d) ==
  \A u \in Units : u \notin Base(FirstOf(d)) .. Base(FirstOf(d)) + CopyUnits - 1 => g[u] = fl[u]

\* A step confined to the first copy of d changes no unit of another copy, ...
LEMMA OthersUntouched ==
  ASSUME NEW fl, NEW g, NEW d \in Types, Confined(fl, g, d),
         NEW e \in DOMAIN Table, e # FirstOf(d), NEW a \in 0 .. CopyUnits - 1
  PROVE  g[Base(e) + a] = fl[Base(e) + a]
<1> DEFINE c == FirstOf(d)
<1>1. c \in DOMAIN Table /\ c \in Nat /\ e \in Nat /\ CopyUnits \in Nat \ {0} /\ e # c
  BY FirstIs, FlashAssumption DEF Entries
<1>2. Base(e) + a \in Units /\ Base(e) \in Nat /\ Base(c) \in Nat
  <2>1. 0 \in 0 .. CopyUnits - 1
    BY <1>1
  <2> HIDE DEF c
  <2> QED BY <1>1, <2>1, CopyInFlash
<1>3. Base(e) + a \notin Base(c) .. Base(c) + CopyUnits - 1
  <2> HIDE DEF c
  <2>1. 0 \in 0 .. CopyUnits - 1 /\ CopyUnits - 1 \in 0 .. CopyUnits - 1
    BY <1>1
  <2>2. CASE e < c
    <3>1. Base(e) + a < Base(c) + 0
      BY <1>1, <2>1, <2>2, CopiesApart
    <3> QED BY <3>1, <1>1, <1>2
  <2>3. CASE c < e
    <3>1. Base(c) + (CopyUnits - 1) < Base(e) + a
      <4>1. Base(c) + (CopyUnits - 1) < Base(e) + 0
        BY <1>1, <2>1, <2>3, CopiesApart
      <4> QED BY <4>1, <1>1, <1>2, <2>1, CopyInFlash
    <3> QED BY <3>1, <1>1, <1>2
  <2> QED BY <1>1, <2>2, <2>3
<1> QED BY <1>2, <1>3 DEF Confined

\* ... so every other copy is as valid as before, with the same header.
LEMMA OthersKept ==
  ASSUME NEW fl \in Content, NEW g, Fits(fl), NEW d \in Types, Confined(fl, g, d),
         NEW e \in DOMAIN Table, e # FirstOf(d)
  PROVE  (CopyValid(fl, e) <=> CopyValid(g, e)) /\ fl[Base(e)] = g[Base(e)]
<1>1. \A a \in 0 .. CopyUnits - 1 : g[Base(e) + a] = fl[Base(e) + a]
  BY OthersUntouched
<1>2. CopyUnits \in Nat \ {0} /\ Base(e) \in Nat /\ Base(e) \in Units
  <2>1. 0 \in 0 .. CopyUnits - 1 /\ CopyUnits \in Nat \ {0}
    BY FlashAssumption
  <2>2. Base(e) + 0 \in Units /\ Base(e) \in Nat
    BY <2>1, CopyInFlash
  <2> QED BY <2>1, <2>2
<1>3. fl[Base(e)] = g[Base(e)]
  <2>1. g[Base(e) + 0] = fl[Base(e) + 0]
    BY <1>1, <1>2
  <2> QED BY <1>2, <2>1
<1>4. ASSUME fl[Base(e)] \in Images
      PROVE  1 .. ImageUnits[fl[Base(e)]] \subseteq 0 .. CopyUnits - 1
  BY <1>2, <1>4, FlashAssumption DEF Fits
<1> QED BY <1>1, <1>3, <1>4 DEF CopyValid

\* A step that touches only the first copy of d keeps the backup of d, ...
LEMMA BackupKept ==
  ASSUME NEW fl \in Content, NEW g, Fits(fl), NEW d \in Types, Confined(fl, g, d)
  PROVE  ImageOf(fl, Rest(d)) = ImageOf(g, Rest(d))
<1>1. Rest(d) \in SUBSET DOMAIN Table /\ FirstOf(d) \notin Rest(d)
  BY DEF Rest, Entries
<1>2. \A e \in Rest(d) : (CopyValid(fl, e) <=> CopyValid(g, e)) /\ fl[Base(e)] = g[Base(e)]
  BY <1>1, OthersKept
<1> QED BY <1>1, <1>2, ImageOfSame

\* ... what is read of another type, ...
LEMMA OtherTypesKept ==
  ASSUME NEW fl \in Content, NEW g, Fits(fl), NEW d \in Types, Confined(fl, g, d),
         NEW t \in Types, t # d
  PROVE  ImageOf(fl, Entries(t)) = ImageOf(g, Entries(t))
<1>1. Entries(t) \in SUBSET DOMAIN Table /\ FirstOf(d) \notin Entries(t)
  BY FirstIs DEF Entries
<1>2. \A e \in Entries(t) : (CopyValid(fl, e) <=> CopyValid(g, e)) /\ fl[Base(e)] = g[Base(e)]
  BY <1>1, OthersKept
<1> QED BY <1>1, <1>2, ImageOfSame

\* ... and so everything that is owed, if the first copy, when it is valid after the
\* step, holds the new image, or was valid before with the same one.
FirstMay(fl, g, d, img) ==
  CopyValid(g, FirstOf(d)) =>
    \/ g[Base(FirstOf(d))] = img
    \/ CopyValid(fl, FirstOf(d)) /\ g[Base(FirstOf(d))] = fl[Base(FirstOf(d))]

\* The step keeps every reader with an image it may expect, then.
LEMMA OwedKept ==
  ASSUME NEW fl \in Content, NEW g, Fits(fl), NEW d \in Types, Confined(fl, g, d),
         NEW img, FirstMay(fl, g, d, img), NEW ow,
         \A t \in Types : ImageOf(fl, Entries(t)) \in ow[t],
         img \in ow[d], ImageOf(fl, Rest(d)) \in ow[d]
  PROVE  \A t \in Types : ImageOf(g, Entries(t)) \in ow[t]
<1> TAKE t \in Types
<1>1. CASE t # d
  BY <1>1, OtherTypesKept
<1>2. CASE t = d
  <2>1. ImageOf(g, Entries(d)) = IF CopyValid(g, FirstOf(d)) THEN g[Base(FirstOf(d))]
                                 ELSE ImageOf(g, Rest(d))
    BY ReadingIs
  <2>2. ImageOf(fl, Entries(d)) = IF CopyValid(fl, FirstOf(d)) THEN fl[Base(FirstOf(d))]
                                  ELSE ImageOf(fl, Rest(d))
    BY ReadingIs
  <2>3. ImageOf(fl, Rest(d)) = ImageOf(g, Rest(d))
    BY BackupKept
  <2> QED BY <1>2, <2>1, <2>2, <2>3 DEF FirstMay
<1> QED BY <1>1, <1>2
-----------------------------------------------------------------------------
Stages == {"erase", "header", "checkHeader", "data", "checkData"}

FupTypeOK ==
  /\ flash \in Content
  /\ fupPc \in Stages \cup {"idle"}
  /\ updType \in Types /\ updAt \in Nat
  /\ validBits \in [Types -> SUBSET Nat]
  /\ DOMAIN owed = Types

\* A valid bit of a copy that is never written tells the truth; that of the first
\* copy may be out of date.
BitHolds(fl, t, i) ==
  \E e \in Entries(t) : PassReads(t, i, e) /\ (e # FirstOf(t) => CopyValid(fl, e))
BitsHold == \A t \in Types : \A i \in validBits[t] : i \in Nat /\ BitHolds(flash, t, i)

\* During an update the new image and the one of the backup are owed.
Updating ==
  fupPc # "idle" =>
    /\ updImage \in Images /\ ImageUnits[updImage] < CopyUnits
    /\ updImage \in owed[updType] /\ ImageOf(flash, Rest(updType)) \in owed[updType]

\* How far the update is: what was erased, and what was read back.
ChunkStart(n) == IF Even(n) THEN n - 1 ELSE n
ErasedTo == fupPc = "erase" => updAt < CopyUnits /\ \E k \in Nat : updAt = k * SectorUnits
WrittenTo ==
  fupPc \in {"data", "checkData"} =>
    /\ updAt \in 1 .. LastUnit /\ flash[Dest] = updImage
    /\ \A u \in 1 .. ChunkStart(updAt) - 1 : flash[Dest + u] = updImage
    /\ fupPc = "checkData" => Even(updAt) \/ updAt = LastUnit

\* ImageKept, before a short read has passed for a whole one.
ReadingOwed == \A t \in Types : Reading(t) \in owed[t]

FupInv ==
  /\ FupTypeOK /\ Fits(flash) /\ BitsHold /\ Updating /\ ErasedTo /\ WrittenTo /\ ReadingOwed

\* A bit of the first copy tells whether it was valid; a step confined to it keeps the
\* truth of the others.
LEMMA BitsKept ==
  ASSUME NEW fl \in Content, NEW g, Fits(fl), NEW d \in Types, Confined(fl, g, d),
         NEW t \in Types, NEW i, BitHolds(fl, t, i)
  PROVE  BitHolds(g, t, i)
<1>1. PICK e \in Entries(t) : PassReads(t, i, e) /\ (e # FirstOf(t) => CopyValid(fl, e))
  BY DEF BitHolds
<1>2. CASE e = FirstOf(t)
  BY <1>1, <1>2 DEF BitHolds
<1>3. CASE e # FirstOf(t)
  <2>1. e \in DOMAIN Table /\ e # FirstOf(d)
    BY <1>3, FirstIs DEF Entries
  <2>2. CopyValid(g, e)
    BY <1>1, <1>3, <2>1, OthersKept
  <2> QED BY <1>1, <2>2 DEF BitHolds
<1> QED BY <1>2, <1>3

\* What every step of an update keeps.
LEMMA UpdateStep ==
  ASSUME FupInv, fupPc # "idle", flash' \in Content, Fits(flash'),
         Confined(flash, flash', updType), FirstMay(flash, flash', updType, updImage),
         UNCHANGED <<validBits, updType, updImage, owed>>
  PROVE  /\ ReadingOwed' /\ BitsHold'
         /\ updImage' \in owed'[updType'] /\ ImageOf(flash, Rest(updType))' \in owed'[updType']
<1> USE DEF FupInv
<1>1. flash \in Content /\ Fits(flash) /\ updType \in Types
  BY DEF FupTypeOK
<1>2. updImage \in owed[updType] /\ ImageOf(flash, Rest(updType)) \in owed[updType]
  BY DEF Updating
<1>3. \A t \in Types : ImageOf(flash, Entries(t)) \in owed[t]
  BY DEF ReadingOwed, Reading
<1>4. \A t \in Types : ImageOf(flash', Entries(t)) \in owed[t]
  BY <1>1, <1>2, <1>3, OwedKept
<1>5. ReadingOwed'
  BY <1>4 DEF ReadingOwed, Reading
<1>6. ImageOf(flash', Rest(updType)) = ImageOf(flash, Rest(updType))
  BY <1>1, BackupKept
<1>7. BitsHold'
  <2>1. \A t \in Types : \A i \in validBits[t] : i \in Nat /\ BitHolds(flash', t, i)
    BY <1>1, BitsKept DEF BitsHold
  <2> QED BY <2>1 DEF BitsHold
<1> QED BY <1>2, <1>5, <1>6, <1>7

\* Cells that are kept or damaged make no image.
LEMMA DamageMakesNothing ==
  ASSUME NEW fl \in Content, Fits(fl), NEW g \in Content,
         \A u \in Units : g[u] = fl[u] \/ g[u] \in Marks,
         NEW d \in Types, NEW img
  PROVE  Fits(g) /\ FirstMay(fl, g, d, img)
<1>1. Images \cap Marks = {}
  BY FlashAssumption DEF Marks
<1>2. Fits(g)
  BY <1>1 DEF Fits
<1>3. ASSUME CopyValid(g, FirstOf(d))
      PROVE  CopyValid(fl, FirstOf(d)) /\ g[Base(FirstOf(d))] = fl[Base(FirstOf(d))]
  <2> DEFINE c == FirstOf(d)
             i == g[Base(c)]
  <2>1. c \in DOMAIN Table /\ CopyUnits \in Nat \ {0}
    BY FirstIs, FlashAssumption DEF Entries
  <2>2. i \in Images /\ \A u \in 1 .. ImageUnits[i] : g[Base(c) + u] = i
    BY <1>3 DEF CopyValid
  <2>3. \A a \in 0 .. CopyUnits - 1 : Base(c) + a \in Units /\ Base(c) \in Nat
    <3> HIDE DEF c
    <3> QED BY <2>1, CopyInFlash
  <2>4. Base(c) \in Units
    <3>1. 0 \in 0 .. CopyUnits - 1
      BY <2>1
    <3>2. Base(c) + 0 \in Units /\ Base(c) \in Nat
      BY <2>3, <3>1
    <3> QED BY <3>2
  <2>5. ImageUnits[i] \in Nat \ {0} /\ ImageUnits[i] < CopyUnits
    BY <1>2, <2>2, <2>4, FlashAssumption DEF Fits
  <2>6. \A u \in 1 .. ImageUnits[i] : fl[Base(c) + u] = i
    <3> SUFFICES ASSUME NEW u \in 1 .. ImageUnits[i] PROVE fl[Base(c) + u] = i
      OBVIOUS
    <3>1. u \in 0 .. CopyUnits - 1
      BY <2>1, <2>5
    <3>2. Base(c) + u \in Units
      BY <2>3, <3>1
    <3>3. g[Base(c) + u] = i
      BY <2>2
    <3> QED BY <1>1, <2>2, <3>2, <3>3
  <2>7. fl[Base(c)] = i
    BY <1>1, <2>2, <2>4
  <2> QED BY <2>2, <2>6, <2>7 DEF CopyValid
<1> QED BY <1>2, <1>3 DEF FirstMay

\* An erase, whole or not.
LEMMA ErasedIs ==
  ASSUME flash \in Content, NEW from,
         NEW hdr \in {"old"} \cup Marks, NEW rest \in {"old"} \cup Marks
  PROVE  /\ Erased(from, hdr, rest) \in Content
         /\ \A u \in Units : \/ Erased(from, hdr, rest)[u] = flash[u]
                            \/ Erased(from, hdr, rest)[u] \in Marks
         /\ \A u \in Units : u \notin from .. from + SectorUnits - 1 =>
                               Erased(from, hdr, rest)[u] = flash[u]
<1>1. "old" \notin Marks
  BY DEF Marks
<1>2. \A u \in Units : \/ Erased(from, hdr, rest)[u] = flash[u]
                      \/ Erased(from, hdr, rest)[u] \in Marks
  BY <1>1 DEF Erased
<1>3. \A u \in Units : u \notin from .. from + SectorUnits - 1 =>
                               Erased(from, hdr, rest)[u] = flash[u]
  BY DEF Erased
<1>4. Erased(from, hdr, rest) = [u \in Units |-> Erased(from, hdr, rest)[u]]
  BY DEF Erased
<1>5. \A u \in Units : Erased(from, hdr, rest)[u] \in Images \cup Marks
  BY <1>2 DEF Content
<1> QED BY <1>2, <1>3, <1>4, <1>5 DEF Content

\* An update writes at a unit of the flash.
LEMMA DestIs == FupTypeOK => Dest \in Nat /\ Dest \in Units
<1> SUFFICES ASSUME FupTypeOK PROVE Dest \in Nat /\ Dest \in Units
  OBVIOUS
<1>1. FirstOf(updType) \in DOMAIN Table /\ 0 \in 0 .. CopyUnits - 1
  BY FirstIs, FlashAssumption DEF Entries, FupTypeOK
<1>2. Base(FirstOf(updType)) + 0 \in Units /\ Base(FirstOf(updType)) \in Nat
  BY <1>1, CopyInFlash
<1> QED BY <1>2 DEF Dest

\* Erasing a sector, whole or not, damages the first copy only and ends at its end.
LEMMA ErasePrtInv == FupInv /\ ErasePrt => FupInv'
<1> SUFFICES ASSUME FupInv, ErasePrt PROVE FupInv'
  OBVIOUS
<1> USE DEF FupInv
<1>1. PICK hdr \in {"old"} \cup Marks, rest \in {"old"} \cup Marks :
        flash' = Erased(Dest + updAt, hdr, rest)
  BY DEF ErasePrt, Marks
<1>2. /\ UNCHANGED <<fupUp, tableLoaded, validBits, updType, updImage, owed>> /\ fupPc = "erase"
      /\ \/ fupPc' = "idle" /\ updAt' = 0
         \/ fupPc' = "header" /\ updAt' = 0
         \/ fupPc' = "erase" /\ updAt' = updAt + SectorUnits /\ updAt + SectorUnits # CopyUnits
  BY DEF ErasePrt, Fail, Goto, bootVars, updVars
<1>3. SectorUnits \in Nat \ {0} /\ CopyUnits \in Nat /\ updAt \in Nat /\ Dest \in Nat
  BY FlashAssumption, DestIs DEF FupTypeOK
<1>4. PICK k \in Nat : updAt = k * SectorUnits
  BY <1>2 DEF ErasedTo
<1>5. PICK n \in Nat : CopyUnits = n * SectorUnits
  BY FlashAssumption
<1>6. k < n
  <2>1. updAt < CopyUnits
    BY <1>2 DEF ErasedTo
  <2>2. CASE n <= k
    <3>1. n * SectorUnits <= k * SectorUnits
      BY <1>3, <2>2
    <3> QED BY <1>3, <1>4, <1>5, <2>1, <3>1
  <2> QED BY <2>2
<1>7. (k + 1) * SectorUnits <= n * SectorUnits /\ (k + 1) * SectorUnits = k * SectorUnits + SectorUnits
  BY <1>3, <1>6
<1>8. updAt + SectorUnits <= CopyUnits /\ updAt + SectorUnits = (k + 1) * SectorUnits
  BY <1>3, <1>4, <1>5, <1>7
<1>9. /\ flash' \in Content
      /\ \A u \in Units : flash'[u] = flash[u] \/ flash'[u] \in Marks
      /\ \A u \in Units : u \notin Dest + updAt .. Dest + updAt + SectorUnits - 1 => flash'[u] = flash[u]
  BY <1>1, ErasedIs DEF FupTypeOK
<1>10. Confined(flash, flash', updType)
  <2> SUFFICES ASSUME NEW u \in Units, u \notin Dest .. Dest + CopyUnits - 1
               PROVE  flash'[u] = flash[u]
    BY DEF Confined, Dest
  <2>1. u \in Int
    BY DEF Units
  <2>2. u \notin Dest + updAt .. Dest + updAt + SectorUnits - 1
    BY <1>3, <1>8, <2>1
  <2> QED BY <1>9, <2>2
<1>11. Fits(flash') /\ FirstMay(flash, flash', updType, updImage)
  BY <1>9, DamageMakesNothing DEF FupTypeOK
<1>12. /\ ReadingOwed' /\ BitsHold'
       /\ updImage' \in owed'[updType'] /\ ImageOf(flash, Rest(updType))' \in owed'[updType']
  BY <1>2, <1>9, <1>10, <1>11, UpdateStep
<1>13. FupTypeOK'
  BY <1>2, <1>3, <1>9 DEF FupTypeOK, Stages
<1>14. Updating'
  BY <1>2, <1>12 DEF Updating
<1>15. ErasedTo'
  <2> SUFFICES ASSUME fupPc' = "erase"
               PROVE  updAt' < CopyUnits /\ \E j \in Nat : updAt' = j * SectorUnits
    BY DEF ErasedTo
  <2>1. updAt' = updAt + SectorUnits /\ updAt + SectorUnits # CopyUnits
    BY <1>2
  <2>2. k + 1 \in Nat /\ updAt' = (k + 1) * SectorUnits
    BY <1>8, <2>1
  <2>3. updAt' < CopyUnits
    BY <1>3, <1>8, <2>1
  <2>4. \E j \in Nat : updAt' = j * SectorUnits
    BY <2>2
  <2> QED BY <2>3, <2>4
<1>16. WrittenTo'
  BY <1>2 DEF WrittenTo
<1> QED BY <1>11, <1>12, <1>13, <1>14, <1>15, <1>16

\* Programming one unit of the first copy.
LEMMA PageWriteIs ==
  ASSUME FupInv, fupPc # "idle", NEW a \in 0 .. CopyUnits - 1,
         PageWrite(Dest + a, IF a = 0 THEN {"torn", "skew"} ELSE {"torn"}),
         a # 0 => flash[Dest] = updImage,
         UNCHANGED <<validBits, updType, updImage, owed>>
  PROVE  /\ flash' \in Content /\ Fits(flash')
         /\ \A u \in Units : u # Dest + a => flash'[u] = flash[u]
         /\ ReadingOwed' /\ BitsHold'
         /\ updImage' \in owed'[updType'] /\ ImageOf(flash, Rest(updType))' \in owed'[updType']
<1> USE DEF FupInv
<1> DEFINE f == FirstOf(updType)
<1>1. /\ flash \in Content /\ updType \in Types
      /\ f \in DOMAIN Table /\ Dest = Base(f) /\ Dest \in Nat /\ Dest \in Units
      /\ CopyUnits \in Nat \ {0}
  BY FirstIs, FlashAssumption, DestIs DEF FupTypeOK, Entries, Dest
<1>2. Dest + a \in Units
  BY <1>1, CopyInFlash
<1>3. PICK c \in {flash[Dest + a], updImage} \cup {"torn", "skew"} :
        flash' = [flash EXCEPT ![Dest + a] = c]
  BY DEF PageWrite
<1>4. updImage \in Images /\ ImageUnits[updImage] < CopyUnits /\ Images \cap Marks = {}
  BY FlashAssumption DEF Updating, Marks
<1>5. flash' \in Content
  BY <1>1, <1>2, <1>3, <1>4 DEF Content, Marks
<1>6. \A u \in Units : flash'[u] = IF u = Dest + a THEN c ELSE flash[u]
  BY <1>1, <1>3 DEF Content
<1>7. Fits(flash')
  <2> SUFFICES ASSUME NEW u \in Units, flash'[u] \in Images
               PROVE  ImageUnits[flash'[u]] < CopyUnits
    BY DEF Fits
  <2>1. flash'[u] = flash[u] \/ flash'[u] = updImage \/ flash'[u] \in Marks
    BY <1>2, <1>6 DEF Marks
  <2> QED BY <1>4, <2>1 DEF Fits
<1>8. Confined(flash, flash', updType)
  <2> SUFFICES ASSUME NEW u \in Units, u \notin Dest .. Dest + CopyUnits - 1
               PROVE  flash'[u] = flash[u]
    BY <1>1 DEF Confined
  <2>1. u # Dest + a
    BY <1>1
  <2> QED BY <1>6, <2>1
<1>9. FirstMay(flash, flash', updType, updImage)
  <2> SUFFICES ASSUME CopyValid(flash', f)
               PROVE  \/ flash'[Dest] = updImage
                      \/ CopyValid(flash, f) /\ flash'[Dest] = flash[Dest]
    BY <1>1 DEF FirstMay
  <2>1. flash'[Dest] \in Images
    BY <1>1 DEF CopyValid
  <2>2. CASE a # 0
    <3>1. Dest + a # Dest
      BY <1>1, <2>2
    <3> QED BY <1>1, <1>6, <2>2, <3>1
  <2>3. CASE a = 0
    <3>1. Dest + a = Dest
      BY <1>1, <2>3
    <3>2. flash'[Dest] = c
      BY <1>1, <1>6, <3>1
    <3>3. c = flash[Dest] \/ c = updImage
      BY <1>4, <2>1, <3>1, <3>2 DEF Marks
    <3>4. CASE c = flash[Dest]
      <4>1. flash' = flash
        BY <1>1, <1>3, <3>1, <3>4 DEF Content
      <4> QED BY <4>1
    <3> QED BY <3>2, <3>3, <3>4
  <2> QED BY <2>2, <2>3
<1>10. /\ ReadingOwed' /\ BitsHold'
       /\ updImage' \in owed'[updType'] /\ ImageOf(flash, Rest(updType))' \in owed'[updType']
  BY <1>5, <1>7, <1>8, <1>9, UpdateStep
<1>11. \A u \in Units : u # Dest + a => flash'[u] = flash[u]
  BY <1>6
<1> QED BY <1>5, <1>7, <1>10, <1>11

\* A header without its data makes no valid copy of what is not owed.
LEMMA WriteHeaderInv == FupInv /\ WriteHeader => FupInv'
<1> SUFFICES ASSUME FupInv, WriteHeader PROVE FupInv'
  OBVIOUS
<1> USE DEF FupInv
<1>1. /\ UNCHANGED <<validBits, updType, updImage, owed>> /\ fupPc = "header"
      /\ fupPc' \in {"idle", "checkHeader"} /\ updAt' = 0
  BY DEF WriteHeader, Goto, Fail, bootVars, updVars
<1>2. 0 \in 0 .. CopyUnits - 1 /\ Dest + 0 = Dest
  BY FlashAssumption, DestIs
<1>3. PageWrite(Dest + 0, {"torn", "skew"})
  BY <1>2 DEF WriteHeader
<1>4. /\ flash' \in Content /\ Fits(flash')
      /\ ReadingOwed' /\ BitsHold'
      /\ updImage' \in owed'[updType'] /\ ImageOf(flash, Rest(updType))' \in owed'[updType']
  BY <1>1, <1>2, <1>3, PageWriteIs
<1>5. FupTypeOK' /\ Updating' /\ ErasedTo' /\ WrittenTo'
  BY <1>1, <1>4 DEF FupTypeOK, Updating, ErasedTo, WrittenTo, Stages
<1> QED BY <1>4, <1>5

\* The update goes on only with the new header in the flash.
LEMMA CheckHeaderInv == FupInv /\ CheckHeader /\ ~misread' => FupInv'
<1> SUFFICES ASSUME FupInv, CheckHeader, ~misread' PROVE FupInv'
  OBVIOUS
<1> USE DEF FupInv
<1>1. /\ UNCHANGED <<flash, validBits, updType, updImage, owed>> /\ fupPc = "checkHeader"
      /\ \/ fupPc' = "idle" /\ updAt' = 0
         \/ fupPc' = "data" /\ updAt' = 1 /\ flash[Dest] = updImage
  BY DEF CheckHeader, Confirmed, Goto, Fail, bootVars, updVars
<1>2. Dest' = Dest /\ LastUnit' = LastUnit
  BY <1>1 DEF Dest, LastUnit
<1>3. ReadingOwed' /\ BitsHold' /\ Fits(flash)' /\ FupTypeOK' /\ Updating' /\ ErasedTo'
  BY <1>1 DEF ReadingOwed, Reading, BitsHold, Fits, FupTypeOK, Updating, ErasedTo, Stages
<1>4. WrittenTo'
  <2>1. LastUnit \in Nat \ {0}
    BY <1>1, FlashAssumption DEF Updating, LastUnit
  <2>2. ~Even(1) /\ ChunkStart(1) = 1
    BY DEF Even, ChunkStart
  <2> QED BY <1>1, <1>2, <2>1, <2>2 DEF WrittenTo
<1> QED BY <1>3, <1>4

\* Programming a unit of data keeps what was read back of the units before it.
LEMMA WriteDataInv == FupInv /\ WriteData => FupInv'
<1> SUFFICES ASSUME FupInv, WriteData PROVE FupInv'
  OBVIOUS
<1> USE DEF FupInv
<1>1. /\ UNCHANGED <<validBits, updType, updImage, owed>> /\ fupPc = "data"
      /\ \/ fupPc' = "checkData" /\ updAt' = updAt /\ (Even(updAt) \/ updAt = LastUnit)
         \/ fupPc' = "idle" /\ updAt' = 0
         \/ fupPc' = "data" /\ updAt' = updAt + 1 /\ ~Even(updAt) /\ updAt # LastUnit
  BY DEF WriteData, Goto, Fail, bootVars, updVars
<1>2. Dest' = Dest /\ LastUnit' = LastUnit /\ Dest \in Nat /\ Dest \in Units
  BY <1>1, DestIs DEF Dest, LastUnit
<1>3. /\ updAt \in 1 .. LastUnit /\ flash[Dest] = updImage
      /\ \A u \in 1 .. ChunkStart(updAt) - 1 : flash[Dest + u] = updImage
  BY <1>1 DEF WrittenTo
<1>4. LastUnit \in Nat /\ LastUnit < CopyUnits /\ CopyUnits \in Nat \ {0}
  BY <1>1, FlashAssumption DEF Updating, LastUnit
<1>5. updAt \in 0 .. CopyUnits - 1 /\ updAt # 0 /\ updAt \in Nat
  BY <1>3, <1>4
<1>6. PageWrite(Dest + updAt, {"torn"})
  BY DEF WriteData
<1>7. /\ flash' \in Content /\ Fits(flash')
      /\ \A u \in Units : u # Dest + updAt => flash'[u] = flash[u]
      /\ ReadingOwed' /\ BitsHold'
      /\ updImage' \in owed'[updType'] /\ ImageOf(flash, Rest(updType))' \in owed'[updType']
  <2>1. PageWrite(Dest + updAt, IF updAt = 0 THEN {"torn", "skew"} ELSE {"torn"})
    BY <1>5, <1>6
  <2>2. \A a \in 0 .. CopyUnits - 1 :
           a = updAt => PageWrite(Dest + a, IF a = 0 THEN {"torn", "skew"} ELSE {"torn"})
    BY <2>1
  <2> QED BY <1>1, <1>3, <1>5, <2>2, PageWriteIs
<1>8. ChunkStart(updAt) <= updAt /\ ChunkStart(updAt) \in Int
  BY <1>5 DEF ChunkStart
<1>9. flash'[Dest] = updImage
  <2>1. Dest # Dest + updAt
    BY <1>2, <1>5
  <2> QED BY <1>2, <1>3, <1>7, <2>1
<1>10. \A u \in 1 .. ChunkStart(updAt) - 1 : flash'[Dest + u] = updImage
  <2> SUFFICES ASSUME NEW u \in 1 .. ChunkStart(updAt) - 1 PROVE flash'[Dest + u] = updImage
    OBVIOUS
  <2>1. u < updAt /\ u \in 0 .. CopyUnits - 1 /\ Dest + u # Dest + updAt
    <3>1. u \in Nat /\ u <= ChunkStart(updAt) - 1
      BY <1>8
    <3>2. u < updAt
      BY <1>5, <1>8, <3>1
    <3> QED BY <1>2, <1>4, <1>5, <3>1, <3>2
  <2>2. FirstOf(updType) \in DOMAIN Table
    BY FirstIs DEF FupTypeOK, Entries
  <2>3. Dest + u \in Units
    BY <2>1, <2>2, CopyInFlash DEF Dest
  <2> QED BY <1>3, <1>7, <2>1, <2>3
<1>11. WrittenTo'
  <2>1. CASE fupPc' = "checkData"
    BY <1>1, <1>2, <1>3, <1>9, <1>10, <2>1 DEF WrittenTo
  <2>2. CASE fupPc' = "data"
    <3>1. updAt' = updAt + 1 /\ ~Even(updAt) /\ updAt # LastUnit
      BY <1>1, <2>2
    <3>2. Even(updAt + 1)
      BY <1>5, <3>1 DEF Even
    <3>3. ChunkStart(updAt + 1) = ChunkStart(updAt)
      BY <1>5, <3>1, <3>2 DEF ChunkStart
    <3>4. updAt + 1 \in 1 .. LastUnit
      BY <1>3, <1>4, <3>1
    <3> QED BY <1>1, <1>2, <1>9, <1>10, <2>2, <3>1, <3>3, <3>4 DEF WrittenTo
  <2> QED BY <2>1, <2>2 DEF WrittenTo
<1>12. FupTypeOK' /\ Updating' /\ ErasedTo'
  BY <1>1, <1>5, <1>7 DEF FupTypeOK, Updating, ErasedTo, Stages
<1> QED BY <1>7, <1>11, <1>12

\* When the last chunk is read back the first copy is the new image, whole.
LEMMA CheckDataInv == FupInv /\ CheckData /\ ~misread' => FupInv'
<1> SUFFICES ASSUME FupInv, CheckData, ~misread' PROVE FupInv'
  OBVIOUS
<1> USE DEF FupInv
<1>1. UNCHANGED <<flash, validBits, updType, updImage>> /\ fupPc = "checkData"
  BY DEF CheckData, bootVars, updVars
<1>2. /\ Dest' = Dest /\ LastUnit' = LastUnit /\ Dest \in Nat
      /\ LastUnit \in Nat /\ LastUnit < CopyUnits /\ updImage \in Images
  BY <1>1, DestIs, FlashAssumption DEF Dest, LastUnit, Updating
<1>3. /\ updAt \in 1 .. LastUnit /\ flash[Dest] = updImage
      /\ \A u \in 1 .. ChunkStart(updAt) - 1 : flash[Dest + u] = updImage
      /\ Even(updAt) \/ updAt = LastUnit
  BY <1>1 DEF WrittenTo
<1>4. updAt \in Nat \ {0}
  BY <1>2, <1>3
<1>5. Fits(flash)' /\ BitsHold'
  BY <1>1 DEF Fits, BitsHold
<1>6. CASE Fail
  <2>1. fupPc' = "idle" /\ updAt' = 0 /\ owed' = owed
    BY <1>6 DEF Fail
  <2> QED BY <1>1, <1>5, <2>1
       DEF ReadingOwed, Reading, FupTypeOK, Updating, ErasedTo, WrittenTo, Stages
<1>7. CASE ChunkStored(updAt)
  <2>1. \A u \in 1 .. updAt : flash[Dest + u] = updImage
    <3> SUFFICES ASSUME NEW u \in 1 .. updAt PROVE flash[Dest + u] = updImage
      OBVIOUS
    <3>1. CASE u < ChunkStart(updAt)
      <4>1. u \in 1 .. ChunkStart(updAt) - 1
        BY <1>4, <3>1 DEF ChunkStart
      <4> QED BY <1>3, <4>1
    <3>2. CASE ~(u < ChunkStart(updAt))
      BY <1>4, <1>7, <3>2 DEF ChunkStored, ChunkStart
    <3> QED BY <3>1, <3>2
  <2>2. CASE updAt = LastUnit /\ Stored
    <3>1. fupPc' = "idle" /\ updAt' = 0 /\ owed' = [owed EXCEPT ![updType] = {updImage}]
      BY <2>2 DEF Stored
    <3>2. FupTypeOK' /\ Updating' /\ ErasedTo' /\ WrittenTo'
      BY <1>1, <3>1 DEF FupTypeOK, Updating, ErasedTo, WrittenTo, Stages
    <3>3. CopyValid(flash, FirstOf(updType))
      BY <1>2, <1>3, <2>1, <2>2 DEF CopyValid, Dest, LastUnit
    <3>4. Reading(updType) = updImage
      <4>1. updType \in Types
        BY DEF FupTypeOK
      <4> QED BY <1>3, <3>3, <4>1, ReadingIs DEF Reading, Dest
    <3>5. ReadingOwed'
      <4> SUFFICES ASSUME NEW t \in Types PROVE Reading(t)' \in owed'[t]
        BY DEF ReadingOwed
      <4>1. Reading(t)' = Reading(t)
        BY <1>1 DEF Reading
      <4>2. owed'[t] = IF t = updType THEN {updImage} ELSE owed[t]
        BY <3>1 DEF FupTypeOK
      <4> QED BY <3>4, <4>1, <4>2 DEF ReadingOwed
    <3> QED BY <1>5, <3>2, <3>5
  <2>3. CASE updAt # LastUnit /\ Goto("data", updAt + 1)
    <3>1. fupPc' = "data" /\ updAt' = updAt + 1 /\ owed' = owed /\ Even(updAt)
      BY <1>3, <2>3 DEF Goto
    <3>2. ~Even(updAt + 1)
      BY <1>4, <3>1 DEF Even
    <3>3. ChunkStart(updAt + 1) = updAt + 1 /\ updAt + 1 \in 1 .. LastUnit
      BY <1>2, <1>3, <2>3, <3>2 DEF ChunkStart
    <3>4. WrittenTo'
      <4>1. \A u \in 1 .. ChunkStart(updAt + 1) - 1 : flash[Dest + u] = updImage
        BY <1>4, <2>1, <3>3
      <4> QED BY <1>1, <1>2, <1>3, <3>1, <3>3, <4>1 DEF WrittenTo
    <3>5. ReadingOwed' /\ FupTypeOK' /\ Updating' /\ ErasedTo'
      BY <1>1, <1>4, <3>1 DEF ReadingOwed, Reading, FupTypeOK, Updating, ErasedTo, Stages
    <3> QED BY <1>5, <3>4, <3>5
  <2> QED BY <1>6, <2>2, <2>3 DEF CheckData
<1> QED BY <1>6, <1>7 DEF CheckData, Confirmed

\* An update that is allowed has a valid backup.
LEMMA BackupThere ==
  ASSUME FupInv, NEW t \in Types, Allowed(t)
  PROVE  \E e \in Rest(t) : CopyValid(flash, e)
<1> DEFINE c == FirstOf(t)
<1>1. PICK i \in validBits[t] \ {1} : i \in Nat /\ BitHolds(flash, t, i)
  BY DEF Allowed, FupInv, BitsHold
<1>2. PICK e \in Entries(t) : PassReads(t, i, e) /\ (e # c => CopyValid(flash, e))
  BY <1>1 DEF BitHolds
<1>3. c \in Entries(t) /\ (\A f \in Entries(t) : c <= f) /\ Entries(t) \subseteq Nat
  BY FirstIs, FlashAssumption DEF Entries
<1>4. {f \in Entries(t) : f <= c} = {c}
  <2> HIDE DEF c
  <2> QED BY <1>3
<1>5. Cardinality({f \in Entries(t) : f <= c}) = 1
  BY <1>4, FS_Singleton
<1>6. 1 # Cardinality(Entries(t))
  BY DEF Allowed, IsLast
<1>7. e # c
  BY <1>1, <1>2, <1>5, <1>6 DEF PassReads
<1> QED BY <1>2, <1>7 DEF Rest

\* An update that is allowed owes the image it replaces, the backup and the new one.
LEMMA UpdatePrtDataInv ==
  ASSUME FupInv, NEW t \in Types, NEW img \in Images, UpdatePrtData(t, img)
  PROVE  FupInv'
<1> USE DEF FupInv
<1>1. /\ UNCHANGED <<flash, validBits>> /\ Allowed(t)
      /\ fupPc' = "erase" /\ updAt' = 0 /\ updType' = t /\ updImage' = img
      /\ ImageUnits[img] <= CopyUnits - 1
      /\ owed' = [owed EXCEPT ![t] = {Reading(t), Backup(t), img} \ {NoImage}]
  BY DEF UpdatePrtData, bootVars
<1>2. PICK e \in Rest(t) : CopyValid(flash, e)
  BY <1>1, BackupThere
<1>3. NoImage \notin Images /\ CopyUnits \in Nat \ {0} /\ SectorUnits \in Nat \ {0}
      /\ ImageUnits[img] \in Nat
  BY FlashAssumption
<1>4. \A es \in SUBSET DOMAIN Table : e \in es => ImageOf(flash, es) # NoImage
  <2> SUFFICES ASSUME NEW es \in SUBSET DOMAIN Table, e \in es
               PROVE  ImageOf(flash, es) # NoImage
    OBVIOUS
  <2>1. \E f \in es : CopyValid(flash, f) /\ ImageOf(flash, es) = flash[Base(f)]
    BY <1>2, ImageOfIs
  <2> QED BY <1>3, <2>1 DEF CopyValid
<1>5. Reading(t) # NoImage /\ Backup(t) # NoImage /\ Backup(t) = ImageOf(flash, Rest(t))
  <2>1. e \in Entries(t) /\ Entries(t) \in SUBSET DOMAIN Table /\ Rest(t) \in SUBSET DOMAIN Table
    BY DEF Rest, Entries
  <2> QED BY <1>2, <1>4, <2>1 DEF Reading, Backup, Rest
<1>6. owed'[t] = {Reading(t), Backup(t), img} /\ \A d \in Types : d # t => owed'[d] = owed[d]
  BY <1>1, <1>3, <1>5 DEF FupTypeOK
<1>7. ReadingOwed'
  <2> SUFFICES ASSUME NEW d \in Types PROVE Reading(d)' \in owed'[d]
    BY DEF ReadingOwed
  <2>1. Reading(d)' = Reading(d)
    BY <1>1 DEF Reading
  <2> QED BY <1>6, <2>1 DEF ReadingOwed
<1>8. Updating'
  <2>1. ImageOf(flash, Rest(updType))' = ImageOf(flash, Rest(t))
    BY <1>1
  <2>2. ImageUnits[img] < CopyUnits
    BY <1>1, <1>3
  <2>3. img \in owed'[t] /\ ImageOf(flash, Rest(t)) \in owed'[t]
    BY <1>5, <1>6
  <2> QED BY <1>1, <2>1, <2>2, <2>3 DEF Updating
<1>9. FupTypeOK' /\ Fits(flash)' /\ BitsHold'
  BY <1>1 DEF FupTypeOK, Fits, BitsHold, Stages
<1>10. ErasedTo' /\ WrittenTo'
  <2>1. 0 = 0 * SectorUnits /\ 0 < CopyUnits /\ 0 \in Nat
    BY <1>3
  <2>2. ErasedTo'
    BY <1>1, <2>1 DEF ErasedTo
  <2> QED BY <1>1, <2>2 DEF WrittenTo
<1> QED BY <1>7, <1>8, <1>9, <1>10

\* The valid bits that boot finds are true.
LEMMA BootInv == FupInv /\ Boot /\ ~misread' => FupInv'
<1> SUFFICES ASSUME FupInv, Boot, ~misread' PROVE FupInv'
  OBVIOUS
<1> USE DEF FupInv
<1>1. /\ UNCHANGED <<flash, fupPc, updType, updImage, updAt, owed>>
      /\ \/ UNCHANGED validBits
         \/ /\ validBits' \in [Types -> SUBSET DOMAIN Table]
            /\ \A t \in Types : validBits'[t] \subseteq SoundBits(t)
  BY DEF Boot, updVars
<1>2. DOMAIN Table \subseteq Nat
  BY FlashAssumption
<1>3. BitsHold'
  <2>1. CASE UNCHANGED validBits
    BY <1>1, <2>1 DEF BitsHold
  <2>2. CASE \A t \in Types : validBits'[t] \subseteq SoundBits(t)
    <3>1. \A t \in Types : \A i \in validBits'[t] : i \in Nat /\ BitHolds(flash, t, i)
      BY <1>2, <2>2 DEF SoundBits, BitHolds
    <3> QED BY <1>1, <3>1 DEF BitsHold
  <2> QED BY <1>1, <2>1, <2>2
<1>4. FupTypeOK'
  BY <1>1, <1>2 DEF FupTypeOK
<1>5. Dest' = Dest /\ LastUnit' = LastUnit
  BY <1>1 DEF Dest, LastUnit
<1> QED BY <1>1, <1>3, <1>4, <1>5 DEF Fits, Updating, ErasedTo, WrittenTo, ReadingOwed, Reading

\* A power failure forgets the updater's state and leaves the flash as it is.
LEMMA PowerFailsInv == FupInv /\ (PowerFails \/ UNCHANGED fupVars) => FupInv'
<1> SUFFICES ASSUME FupInv, PowerFails \/ UNCHANGED fupVars PROVE FupInv'
  OBVIOUS
<1> USE DEF FupInv
<1>1. CASE PowerFails
  <2>1. /\ UNCHANGED <<flash, updType, updImage, owed>> /\ fupPc' = "idle" /\ updAt' = 0
        /\ validBits' = [t \in Types |-> {}]
    BY <1>1 DEF PowerFails, updVars
  <2> QED BY <2>1 DEF FupTypeOK, Fits, BitsHold, Updating, ErasedTo, WrittenTo, ReadingOwed, Reading
<1>2. CASE UNCHANGED fupVars
  <2>1. UNCHANGED <<flash, validBits, fupPc, updType, updImage, updAt, owed>>
    BY <1>2 DEF fupVars
  <2>2. Dest' = Dest /\ LastUnit' = LastUnit
    BY <2>1 DEF Dest, LastUnit
  <2> QED BY <2>1, <2>2
       DEF FupTypeOK, Fits, BitsHold, Updating, ErasedTo, WrittenTo, ReadingOwed, Reading
<1> QED BY <1>1, <1>2

\* Flash as it is delivered holds whole images and blank copies.
LEMMA FupInitInv == FupInit => FupInv
<1> SUFFICES ASSUME FupInit PROVE FupInv
  OBVIOUS
<1> DEFINE Fitting == {i \in Images : ImageUnits[i] < CopyUnits}
<1>1. PICK content \in [DOMAIN Table -> Fitting \cup {NoImage}] : flash = FlashWith(content)
  BY DEF FupInit
<1>2. \A u \in Units : flash[u] = "blank" \/ flash[u] \in Fitting
  <2> SUFFICES ASSUME NEW u \in Units PROVE flash[u] = "blank" \/ flash[u] \in Fitting
    OBVIOUS
  <2>1. content[u \div CopyUnits + 1] \in Fitting \cup {NoImage}
    BY <1>1, EntryOfUnit
  <2> HIDE DEF Fitting
  <2> QED BY <1>1, <2>1 DEF FlashWith
<1>3. flash = [u \in Units |-> flash[u]]
  BY <1>1 DEF FlashWith
<1>4. flash \in Content /\ Fits(flash)
  BY <1>2, <1>3, FlashAssumption DEF Content, Fits, Marks
<1>5. updType \in Types
  <2>1. 1 \in DOMAIN Table
    BY FlashAssumption
  <2> QED BY <2>1 DEF FupInit, Types
<1> QED BY <1>4, <1>5
     DEF FupInit, FupInv, FupTypeOK, BitsHold, Updating, ErasedTo, WrittenTo, ReadingOwed

\* A short read that has passed for a whole one is not forgotten.
LEMMA MisreadStays == misread /\ [FupNext]_fupVars => misread'
BY DEF FupNext, fupVars, Boot, PowerFails, UpdatePrtData, ErasePrt, WriteHeader, CheckHeader,
       WriteData, CheckData, Confirmed

\* ImageKept is an invariant: whatever operation of the device fails or power is lost in,
\* a reader is given a whole image it may expect, until a short read that returned ERR_OK
\* has set the valid bit of a bad copy or confirmed a write that was not made.
THEOREM ImageIsKept == FupSpec => []ImageKept
<1> DEFINE Inv == misread \/ FupInv
<1>1. Inv /\ [FupNext]_fupVars => Inv'
  <2> SUFFICES ASSUME FupInv, [FupNext]_fupVars, ~misread' PROVE FupInv'
    BY MisreadStays
  <2>1. CASE \E t \in Types, img \in Images : UpdatePrtData(t, img)
    BY <2>1, UpdatePrtDataInv
  <2> QED BY <2>1, BootInv, PowerFailsInv, ErasePrtInv, WriteHeaderInv, CheckHeaderInv,
             WriteDataInv, CheckDataInv DEF FupNext
<1>2. Inv => ImageKept
  BY DEF FupInv, ReadingOwed, ImageKept
<1>3. FupInit => Inv
  BY FupInitInv
<1> QED BY <1>1, <1>2, <1>3, PTL DEF FupSpec

-----------------------------------------------------------------------------
(* The partition table manager.                                            *)

EntFromCopy == ptTbl.ent # Bad => \E c \in DOMAIN ptCopies : ptCopies[c].ent = ptTbl.ent
TableHeld == ptmState = "idle" => ptTbl.hdr = ptTbl.ent /\ ptTbl.ent # Bad
Before == ptmPc \in {"start", "search"} =>
            ptmState = "uninit" /\ loadResult = "none" /\ loaded = Bad
Loading == ptmPc \in {"walk", "image"} => ptmState = "idle" /\ loadResult = "none"
Listed(v) == \E i \in DOMAIN Lists[ptTbl.ent] :
               Eligible(Lists[ptTbl.ent][i]) /\ parts[Lists[ptTbl.ent][i]].img = v
BufferFromPart == loaded # Bad => Listed(loaded)
AtImage == ptmPc = "image" =>
             /\ imgTbl.hdr = imgTbl.ent /\ imgTbl.ent \in Listing
             /\ entryAt \in DOMAIN Lists[ptTbl.ent] /\ Eligible(Entry)
PtmShape ==
  /\ ptTbl \in [hdr : DOMAIN Lists \cup {Bad}, ent : DOMAIN Lists \cup {Bad}]
  /\ ptCopies \in [1 .. NumPtCopies -> PtContents]
  /\ imgTbl \in [hdr : DOMAIN ImgSize \cup {Bad}, ent : DOMAIN ImgSize \cup {Bad}]
  /\ parts \in [AppParts \ SkippedParts -> PartContents]
  /\ entryAt \in Nat \ {0}
  /\ lookupAt \in 1 .. NumPtCopies

PtmInv ==
  /\ PtmShape /\ EntFromCopy /\ TableHeld /\ Before /\ Loading
  /\ BufferFromPart /\ AtImage /\ LoadedWhole

\* What reading a table can leave: parts of the old or the new one, or Bad; a valid
\* result is one whole version.
LEMMA TableReadsParts ==
  ASSUME NEW V, NEW old \in [hdr : V \cup {Bad}, ent : V \cup {Bad}],
         NEW new \in [hdr : V \cup {Bad}, ent : V \cup {Bad}],
         NEW r \in TableReads(old, new)
  PROVE  /\ r.tbl \in [hdr : V \cup {Bad}, ent : V \cup {Bad}]
         /\ r.tbl.ent \in {old.ent, Bad, new.ent}
         /\ r.valid => r.tbl.hdr = r.tbl.ent /\ r.tbl.ent # Bad
<1> DEFINE reads(a, b) == [ok : BOOLEAN, got : {a, Bad, b}]
<1>1. \A a, b : \A q \in FlashRead(a, b) : q \in reads(a, b)
  <2> SUFFICES ASSUME NEW a, NEW b, NEW q \in FlashRead(a, b) PROVE q \in reads(a, b)
    OBVIOUS
  <2>1. CASE q \in RafRead(a, b)
    BY <2>1 DEF RafRead
  <2>2. CASE q = [ok |-> FALSE, got |-> a]
    BY <2>2
  <2> QED BY <2>1, <2>2 DEF FlashRead
<1>2. CASE \E h \in reads(old.hdr, new.hdr) :
             r = [tbl |-> [hdr |-> h.got, ent |-> old.ent], valid |-> FALSE,
                  clean |-> Clean(h, new.hdr)]
  BY <1>2
<1>3. CASE \E h \in reads(old.hdr, new.hdr), e \in reads(old.ent, new.ent) :
             /\ h.got # Bad
             /\ r = [tbl |-> [hdr |-> h.got, ent |-> e.got], valid |-> e.ok /\ e.got = h.got,
                     clean |-> Clean(h, new.hdr) /\ Clean(e, new.ent)]
  <2>1. PICK h \in reads(old.hdr, new.hdr), e \in reads(old.ent, new.ent) :
             /\ h.got # Bad
             /\ r = [tbl |-> [hdr |-> h.got, ent |-> e.got], valid |-> e.ok /\ e.got = h.got,
                     clean |-> Clean(h, new.hdr) /\ Clean(e, new.ent)]
    BY <1>3
  <2>2. r.tbl = [hdr |-> h.got, ent |-> e.got]
    BY <2>1
  <2>3. r.valid => e.got = h.got
    BY <2>1
  <2>4. h.got \in {old.hdr, Bad, new.hdr} /\ e.got \in {old.ent, Bad, new.ent}
    OBVIOUS
  <2> QED BY <2>1, <2>2, <2>3, <2>4
<1>4. \/ \E h \in reads(old.hdr, new.hdr) :
           r = [tbl |-> [hdr |-> h.got, ent |-> old.ent], valid |-> FALSE,
                clean |-> Clean(h, new.hdr)]
      \/ \E h \in reads(old.hdr, new.hdr), e \in reads(old.ent, new.ent) :
           /\ h.got # Bad
           /\ r = [tbl |-> [hdr |-> h.got, ent |-> e.got], valid |-> e.ok /\ e.got = h.got,
                   clean |-> Clean(h, new.hdr) /\ Clean(e, new.ent)]
  <2>1. CASE r \in {[tbl |-> [hdr |-> h.got, ent |-> old.ent], valid |-> FALSE,
                     clean |-> Clean(h, new.hdr)] :
                      h \in {q \in FlashRead(old.hdr, new.hdr) : ~q.ok \/ q.got = Bad}}
    <3> HIDE DEF reads
    <3> QED BY <1>1, <2>1
  <2>2. CASE r \in {[tbl |-> [hdr |-> h.got, ent |-> e.got], valid |-> e.ok /\ e.got = h.got,
                     clean |-> Clean(h, new.hdr) /\ Clean(e, new.ent)] :
                      h \in {q \in FlashRead(old.hdr, new.hdr) : q.ok /\ q.got # Bad},
                      e \in FlashRead(old.ent, new.ent)}
    <3> HIDE DEF reads
    <3> QED BY <1>1, <2>2
  <2> QED BY <2>1, <2>2 DEF TableReads
<1> QED BY <1>2, <1>3, <1>4

\* Initially.
LEMMA PtmInitInv == PtmInitState => PtmInv
BY PtmAssumption DEF PtmInitState, PtmInv, PtmShape, EntFromCopy, TableHeld, Before, Loading,
   BufferFromPart, AtImage, LoadedWhole

\* A step of the search for a copy.
LEMMA TryCopyInv == PtmInv /\ TryCopy => PtmInv'
<1> SUFFICES ASSUME PtmInv, TryCopy PROVE PtmInv'
  OBVIOUS
<1> USE DEF PtmInv
<1>1. PICK r \in TableReads(ptTbl, ptCopies[lookupAt]) :
        /\ ptTbl' = r.tbl
        /\ IF r.valid THEN ptmPc' = "ready" /\ ptmState' = "idle" /\ UNCHANGED lookupAt
                      ELSE NextCopy
  BY DEF TryCopy
<1>2. /\ ptCopies' = ptCopies /\ parts' = parts /\ imgTbl' = imgTbl /\ entryAt' = entryAt
      /\ loaded' = loaded /\ loadResult' = loadResult
      /\ ptmPc = "search" /\ ptmState = "uninit" /\ loadResult = "none" /\ loaded = Bad
  BY DEF TryCopy, ptmStore, loadVars, Before
<1>3. ptCopies[lookupAt] \in [hdr : DOMAIN Lists \cup {Bad}, ent : DOMAIN Lists \cup {Bad}]
      /\ lookupAt \in DOMAIN ptCopies
  BY PtmAssumption DEF PtmShape
<1>4. /\ ptTbl' \in [hdr : DOMAIN Lists \cup {Bad}, ent : DOMAIN Lists \cup {Bad}]
      /\ ptTbl'.ent \in {ptTbl.ent, Bad, ptCopies[lookupAt].ent}
      /\ r.valid => ptTbl'.hdr = ptTbl'.ent /\ ptTbl'.ent # Bad
  <2>1. ptTbl \in [hdr : DOMAIN Lists \cup {Bad}, ent : DOMAIN Lists \cup {Bad}]
    BY DEF PtmShape
  <2> QED BY <1>1, <1>3, <2>1, TableReadsParts
<1>5. /\ lookupAt' \in 1 .. NumPtCopies
      /\ \/ r.valid /\ ptmPc' = "ready" /\ ptmState' = "idle"
         \/ ptmPc' = "ready" /\ ptmState' = "error"
         \/ ptmPc' = "search" /\ ptmState' = "uninit"
  BY <1>1, <1>2, PtmAssumption DEF NextCopy, PtmShape
<1>6. PtmShape'
  BY <1>2, <1>4, <1>5 DEF PtmShape
<1>7. EntFromCopy'
  BY <1>2, <1>3, <1>4 DEF EntFromCopy
<1>8. TableHeld' /\ Before' /\ Loading' /\ AtImage'
  BY <1>2, <1>4, <1>5 DEF TableHeld, Before, Loading, AtImage
<1>9. BufferFromPart' /\ LoadedWhole'
  BY <1>2 DEF BufferFromPart, LoadedWhole
<1> QED BY <1>6, <1>7, <1>8, <1>9

\* A step of the walk over the entries.
LEMMA TryEntryInv == PtmInv /\ TryEntry => PtmInv'
<1> SUFFICES ASSUME PtmInv, TryEntry PROVE PtmInv'
  OBVIOUS
<1> USE DEF PtmInv
<1> DEFINE new == [hdr |-> parts[Entry].hdr, ent |-> parts[Entry].ent]
           T == [hdr : DOMAIN ImgSize \cup {Bad}, ent : DOMAIN ImgSize \cup {Bad}]
<1>1. PICK r \in TableReads(imgTbl, new) :
        /\ imgTbl' = r.tbl
        /\ IF r.valid /\ r.tbl.ent \in Listing
           THEN ptmPc' = "image" /\ UNCHANGED entryAt
           ELSE entryAt' = entryAt + 1 /\ UNCHANGED ptmPc
  BY DEF TryEntry
<1>2. /\ ptCopies' = ptCopies /\ parts' = parts /\ ptTbl' = ptTbl /\ lookupAt' = lookupAt
      /\ ptmState' = ptmState /\ loaded' = loaded /\ loadResult' = loadResult
      /\ AtEntry /\ Eligible(Entry)
      /\ ptmPc = "walk" /\ ptmState = "idle" /\ loadResult = "none"
  BY DEF TryEntry, ptmStore, searchVars, Loading, AtEntry
<1>3. new \in T
  BY <1>2, PtmAssumption DEF PtmShape, Eligible
<1>4. imgTbl' \in T /\ (r.valid => imgTbl'.hdr = imgTbl'.ent)
  <2>1. imgTbl \in T
    BY DEF PtmShape
  <2> HIDE DEF new
  <2> QED BY <1>1, <1>3, <2>1, TableReadsParts
<1>5. entryAt \in DOMAIN Lists[ptTbl.ent]
  BY <1>2, PtmAssumption DEF AtEntry, PtmShape, TableHeld
<1>6. PtmShape'
  BY <1>1, <1>2, <1>4 DEF PtmShape
<1>7. EntFromCopy' /\ TableHeld' /\ Before' /\ Loading'
  BY <1>1, <1>2 DEF EntFromCopy, TableHeld, Before, Loading
<1>8. BufferFromPart' /\ LoadedWhole'
  BY <1>2 DEF BufferFromPart, LoadedWhole, Listed, Eligible
<1>9. AtImage'
  BY <1>1, <1>2, <1>4, <1>5 DEF AtImage, Entry, Eligible
<1> QED BY <1>6, <1>7, <1>8, <1>9

\* The image itself.
LEMMA ReadImgInv == PtmInv /\ ReadImg => PtmInv'
<1> SUFFICES ASSUME PtmInv, ReadImg PROVE PtmInv'
  OBVIOUS
<1> USE DEF PtmInv
<1> DEFINE v == imgTbl.ent
           new == IF parts[Entry].img = v THEN v ELSE Bad
<1>1. /\ ptCopies' = ptCopies /\ parts' = parts /\ ptTbl' = ptTbl /\ lookupAt' = lookupAt
      /\ ptmState' = ptmState /\ imgTbl' = imgTbl /\ entryAt' = entryAt
      /\ ptmPc = "image" /\ ptmPc' = "ready" /\ ptmState = "idle"
  BY DEF ReadImg, ptmStore, searchVars, Loading
<1>2. /\ imgTbl.hdr = v /\ v \in Listing /\ v # Bad
      /\ entryAt \in DOMAIN Lists[ptTbl.ent] /\ Eligible(Entry)
  BY <1>1, PtmAssumption DEF AtImage
<1>3. new # Bad => Listed(new)
  BY <1>2 DEF Listed, Entry
<1>4. /\ loaded' \in {loaded, Bad, new}
      /\ loadResult' = "ok" => CodeHolds(v, loaded')
  BY DEF ReadImg, FlashRead, RafRead
<1>5. BufferFromPart'
  <2>1. loaded' # Bad => Listed(loaded')
    BY <1>3, <1>4 DEF BufferFromPart
  <2> QED BY <1>1, <2>1 DEF BufferFromPart, Listed, Eligible
<1>6. LoadedWhole'
  <2> SUFFICES ASSUME loadResult' = "ok", v \in Coded
               PROVE  /\ loaded' = v /\ v \in Listing /\ imgTbl.hdr = v
                      /\ ptTbl.hdr = ptTbl.ent
                      /\ \E c \in DOMAIN ptCopies : ptCopies[c].ent = ptTbl.ent
                      /\ Listed(loaded')
    BY <1>1 DEF LoadedWhole, Listed, Eligible
  <2>1. loaded' = v /\ loaded' # Bad
    BY <1>2, <1>4 DEF CodeHolds
  <2>2. Listed(loaded')
    BY <1>3, <1>4, <2>1 DEF BufferFromPart
  <2> QED BY <1>1, <1>2, <2>1, <2>2 DEF TableHeld, EntFromCopy
<1>7. PtmShape'
  BY <1>1 DEF PtmShape
<1>8. EntFromCopy' /\ TableHeld' /\ Before' /\ Loading' /\ AtImage'
  BY <1>1 DEF EntFromCopy, TableHeld, Before, Loading, AtImage
<1> QED BY <1>5, <1>6, <1>7, <1>8

\* The steps that read nothing.
LEMMA OtherInv ==
  PtmInv /\ (FlashPresent \/ LoadImg \/ PassEntry \/ WalkEnds \/ UNCHANGED ptmVars) => PtmInv'
<1> SUFFICES ASSUME PtmInv,
                    FlashPresent \/ LoadImg \/ PassEntry \/ WalkEnds \/ UNCHANGED ptmVars
             PROVE  PtmInv'
  OBVIOUS
<1> USE DEF PtmInv
<1>1. /\ ptCopies' = ptCopies /\ parts' = parts /\ ptTbl' = ptTbl /\ lookupAt' = lookupAt
      /\ imgTbl' = imgTbl /\ loaded' = loaded /\ entryAt' \in Nat \ {0}
      /\ loadResult' \in {loadResult, "none", "error"}
  BY DEF FlashPresent, LoadImg, PassEntry, WalkEnds, ptmVars, ptmStore, searchVars, loadVars, PtmShape
<1>2. PtmShape'
  BY <1>1 DEF PtmShape
<1>3. EntFromCopy' /\ BufferFromPart' /\ LoadedWhole'
  BY <1>1 DEF EntFromCopy, BufferFromPart, LoadedWhole, Listed, Eligible
<1>4. TableHeld' /\ Before' /\ Loading' /\ AtImage'
  BY <1>1 DEF FlashPresent, LoadImg, PassEntry, WalkEnds, ptmVars, ptmStore, searchVars, loadVars,
     TableHeld, Before, Loading, AtImage, Entry, Eligible
<1> QED BY <1>2, <1>3, <1>4

\* LoadedWhole is an invariant: a load that returns ERR_OK of an image with a code has
\* delivered a whole image some listed partition holds, whatever reads did before.
THEOREM LoadsAreWhole == PtmSpec => []LoadedWhole
<1>1. PtmInv /\ [PtmNext]_ptmVars => PtmInv'
  BY TryCopyInv, TryEntryInv, ReadImgInv, OtherInv DEF PtmNext
<1>2. PtmInv => LoadedWhole
  BY DEF PtmInv
<1> QED BY PtmInitInv, <1>1, <1>2, PTL DEF PtmSpec

\* What a search for the first of something has behind it and before it.
SearchedSoFar == \A c \in 1 .. lookupAt - 1 : c \notin WholeCopies
CopyFound == lookupAt \in WholeCopies /\ ptTbl.ent = ptCopies[lookupAt].ent /\ SearchedSoFar
Listers == Candidates(Lists[ptTbl.ent])
PassedSoFar == \A i \in 1 .. entryAt - 1 : i \notin Listers
EntryFound == entryAt \in Listers /\ PassedSoFar /\ imgTbl.ent = parts[Entry].ent

\* What is true while no read was short or failed.
CleanSoFar ==
  ~readTrouble =>
    /\ ptmPc \in {"start", "search"} => SearchedSoFar
    /\ ptmPc = "ready" => ptmState \in {"idle", "error"}
    /\ ptmState = "idle" => CopyFound
    /\ ptmState = "error" => ~Loadable
    /\ ptmPc = "walk" => PassedSoFar
    /\ ptmPc = "image" => EntryFound
    /\ loadResult # "none" => (loadResult = "ok") = Loadable

\* The first of a set of numbers is the one that has none before it.
LEMMA LeastIs ==
  ASSUME NEW S, NEW n \in Nat, S \subseteq Nat \ {0}, n \in S, \A i \in 1 .. n - 1 : i \notin S
  PROVE  First(S) = n
<1>1. ASSUME NEW j \in S PROVE n <= j
  OBVIOUS
<1>2. ASSUME NEW i \in S, \A j \in S : i <= j PROVE i = n
  <2>1. n <= i /\ i <= n /\ i \in Nat /\ n \in Nat
    BY <1>1, <1>2
  <2> QED BY <2>1
<1>3. n \in S /\ \A j \in S : n <= j
  BY <1>1
<1>4. First(S) \in S /\ \A j \in S : First(S) <= j
  BY <1>3, Zenon DEF First
<1> QED BY <1>2, <1>4

\* A table that was read cleanly is valid if it is of one piece, and is what was there.
LEMMA CleanTable ==
  ASSUME NEW old, NEW new, NEW r \in TableReads(old, new), r.clean
  PROVE  /\ r.valid <=> new.hdr = new.ent /\ new.ent # Bad
         /\ r.valid => r.tbl.ent = new.ent
<1>1. CASE \E h : /\ ~h.ok \/ h.got = Bad
                  /\ r = [tbl |-> [hdr |-> h.got, ent |-> old.ent], valid |-> FALSE,
                          clean |-> Clean(h, new.hdr)]
  <2>1. PICK h : /\ ~h.ok \/ h.got = Bad
                 /\ r = [tbl |-> [hdr |-> h.got, ent |-> old.ent], valid |-> FALSE,
                         clean |-> Clean(h, new.hdr)]
    BY <1>1
  <2>2. ~r.valid /\ Clean(h, new.hdr)
    BY <2>1
  <2>3. new.hdr = Bad
    BY <2>1, <2>2 DEF Clean
  <2> QED BY <2>2, <2>3
<1>2. CASE \E h, e : /\ h.ok /\ h.got # Bad
                     /\ r = [tbl |-> [hdr |-> h.got, ent |-> e.got], valid |-> e.ok /\ e.got = h.got,
                             clean |-> Clean(h, new.hdr) /\ Clean(e, new.ent)]
  <2>1. PICK h, e : /\ h.ok /\ h.got # Bad
                    /\ r = [tbl |-> [hdr |-> h.got, ent |-> e.got], valid |-> e.ok /\ e.got = h.got,
                            clean |-> Clean(h, new.hdr) /\ Clean(e, new.ent)]
    BY <1>2
  <2>2. /\ r.valid <=> e.ok /\ e.got = h.got
        /\ r.tbl.ent = e.got /\ Clean(h, new.hdr) /\ Clean(e, new.ent)
    BY <2>1
  <2>3. h.got = new.hdr /\ e.ok /\ e.got = new.ent
    BY <2>2 DEF Clean
  <2> QED BY <2>1, <2>2, <2>3
<1>3. CASE r \in {[tbl |-> [hdr |-> h.got, ent |-> old.ent], valid |-> FALSE,
                   clean |-> Clean(h, new.hdr)] :
                    h \in {q \in FlashRead(old.hdr, new.hdr) : ~q.ok \/ q.got = Bad}}
  BY <1>1, <1>3
<1>4. CASE r \in {[tbl |-> [hdr |-> h.got, ent |-> e.got], valid |-> e.ok /\ e.got = h.got,
                   clean |-> Clean(h, new.hdr) /\ Clean(e, new.ent)] :
                    h \in {q \in FlashRead(old.hdr, new.hdr) : q.ok /\ q.got # Bad},
                    e \in FlashRead(old.ent, new.ent)}
  BY <1>2, <1>4
<1> QED BY <1>3, <1>4 DEF TableReads

\* With the first whole copy in memory, a load depends on the partitions it lists.
LEMMA LoadableInTable ==
  ASSUME PtmShape, CopyFound
  PROVE  Loadable = LET list == Lists[ptTbl.ent] IN
           /\ Candidates(list) # {}
           /\ LET p == parts[list[First(Candidates(list))]]
              IN SizeFits(p.ent) /\ CodeHolds(p.ent, p.img)
<1>1. WholeCopies \subseteq Nat \ {0} /\ lookupAt \in Nat
  BY PtmAssumption DEF WholeCopies, PtmShape
<1>2. First(WholeCopies) = lookupAt /\ WholeCopies # {}
  BY <1>1, LeastIs DEF CopyFound, SearchedSoFar
<1> QED BY <1>2 DEF Loadable, CopyFound

\* With the first partition that can be loaded found, on its image.
LEMMA LoadableInPart ==
  ASSUME PtmShape, CopyFound, EntryFound, ptTbl.ent # Bad
  PROVE  Loadable = (SizeFits(imgTbl.ent) /\ CodeHolds(imgTbl.ent, parts[Entry].img))
<1>1. Listers \subseteq Nat \ {0} /\ entryAt \in Nat
  <2>1. ptTbl.ent \in DOMAIN Lists /\ entryAt \in Nat
    BY DEF PtmShape
  <2>2. DOMAIN Lists[ptTbl.ent] \subseteq Nat \ {0}
    BY <2>1, PtmAssumption
  <2> QED BY <2>1, <2>2 DEF Listers, Candidates
<1>2. First(Listers) = entryAt /\ Listers # {}
  BY <1>1, LeastIs DEF EntryFound, PassedSoFar
<1> QED BY <1>2, LoadableInTable DEF EntryFound, Entry, Listers

\* The facts a step that does not touch the flash leaves alone.
LEMMA SameFlash ==
  ASSUME ptCopies' = ptCopies, parts' = parts
  PROVE  /\ Loadable' = Loadable /\ WholeCopies' = WholeCopies
         /\ ptTbl' = ptTbl => Listers' = Listers
<1>1. WholeCopies' = WholeCopies
  BY DEF WholeCopies
<1>2. Loadable' = Loadable
  BY <1>1 DEF Loadable, Candidates, Eligible, SizeFits, CodeHolds
<1>3. ptTbl' = ptTbl => Listers' = Listers
  BY DEF Listers, Candidates, Eligible
<1> QED BY <1>1, <1>2, <1>3

\* Initially.
LEMMA InitClean == PtmInitState => CleanSoFar
<1> SUFFICES ASSUME PtmInitState PROVE CleanSoFar
  OBVIOUS
<1>1. lookupAt = 1 /\ ptmPc = "start" /\ ptmState = "uninit" /\ loadResult = "none"
  BY DEF PtmInitState
<1>2. SearchedSoFar
  BY <1>1 DEF SearchedSoFar
<1> QED BY <1>1, <1>2 DEF CleanSoFar

\* A copy that is passed is not whole, and the first whole one is taken.
LEMMA TryCopyClean == PtmInv /\ CleanSoFar /\ TryCopy => CleanSoFar'
<1> SUFFICES ASSUME PtmInv, CleanSoFar, TryCopy, ~readTrouble' PROVE CleanSoFar'
  BY DEF CleanSoFar
<1>1. PICK r \in TableReads(ptTbl, ptCopies[lookupAt]) :
        /\ ptTbl' = r.tbl
        /\ readTrouble' = (readTrouble \/ ~r.clean)
        /\ IF r.valid THEN ptmPc' = "ready" /\ ptmState' = "idle" /\ UNCHANGED lookupAt
                      ELSE NextCopy
  BY DEF TryCopy
<1>2. /\ ptCopies' = ptCopies /\ parts' = parts /\ loadResult' = loadResult
      /\ ptmPc = "search" /\ ptmState = "uninit" /\ loadResult = "none"
  BY DEF TryCopy, ptmStore, loadVars, PtmInv, Before
<1>3. ~readTrouble /\ r.clean /\ SearchedSoFar
  BY <1>1, <1>2 DEF CleanSoFar
<1>4. /\ r.valid <=> lookupAt \in WholeCopies
      /\ r.valid => ptTbl'.ent = ptCopies[lookupAt].ent
  <2>1. lookupAt \in DOMAIN ptCopies
    BY PtmAssumption DEF PtmInv, PtmShape
  <2> QED BY <1>1, <1>3, <2>1, CleanTable DEF WholeCopies
<1>5. WholeCopies' = WholeCopies /\ Loadable' = Loadable
  BY <1>2, SameFlash
<1>6. CASE r.valid
  <2>1. CopyFound'
    BY <1>1, <1>2, <1>3, <1>4, <1>5, <1>6 DEF CopyFound, SearchedSoFar
  <2> QED BY <1>1, <1>2, <1>6, <2>1 DEF CleanSoFar
<1>7. CASE ~r.valid
  <2>1. lookupAt \in 1 .. NumPtCopies /\ NumPtCopies \in Nat /\ DOMAIN ptCopies = 1 .. NumPtCopies
    BY PtmAssumption DEF PtmInv, PtmShape
  <2>2. \A c \in 1 .. lookupAt : c \notin WholeCopies
    BY <1>3, <1>4, <1>7, <2>1 DEF SearchedSoFar
  <2>3. CASE lookupAt < NumPtCopies
    <3>1. lookupAt' = lookupAt + 1 /\ ptmPc' = ptmPc /\ ptmState' = ptmState
      BY <1>1, <1>7, <2>3 DEF NextCopy
    <3>2. SearchedSoFar'
      BY <1>5, <2>1, <2>2, <3>1 DEF SearchedSoFar
    <3> QED BY <1>2, <3>1, <3>2 DEF CleanSoFar
  <2>4. CASE ~(lookupAt < NumPtCopies)
    <3>1. ptmPc' = "ready" /\ ptmState' = "error"
      BY <1>1, <1>7, <2>4 DEF NextCopy
    <3>2. WholeCopies = {}
      BY <2>1, <2>2, <2>4 DEF WholeCopies
    <3>3. ~Loadable
      BY <3>2 DEF Loadable
    <3> QED BY <1>2, <1>5, <3>1, <3>3 DEF CleanSoFar
  <2> QED BY <2>3, <2>4
<1> QED BY <1>6, <1>7

\* A partition that is passed over has no table that lists the image.
LEMMA TryEntryClean == PtmInv /\ CleanSoFar /\ TryEntry => CleanSoFar'
<1> SUFFICES ASSUME PtmInv, CleanSoFar, TryEntry, ~readTrouble' PROVE CleanSoFar'
  BY DEF CleanSoFar
<1> DEFINE new == [hdr |-> parts[Entry].hdr, ent |-> parts[Entry].ent]
           list == Lists[ptTbl.ent]
<1>1. PICK r \in TableReads(imgTbl, new) :
        /\ imgTbl' = r.tbl
        /\ readTrouble' = (readTrouble \/ ~r.clean)
        /\ IF r.valid /\ r.tbl.ent \in Listing
           THEN ptmPc' = "image" /\ UNCHANGED entryAt
           ELSE entryAt' = entryAt + 1 /\ UNCHANGED ptmPc
  BY DEF TryEntry
<1>2. /\ ptCopies' = ptCopies /\ parts' = parts /\ ptTbl' = ptTbl /\ lookupAt' = lookupAt
      /\ ptmState' = ptmState /\ loadResult' = loadResult
      /\ AtEntry /\ Eligible(Entry)
      /\ ptmPc = "walk" /\ ptmState = "idle" /\ loadResult = "none"
  BY DEF TryEntry, ptmStore, searchVars, PtmInv, Loading, AtEntry
<1>3. ~readTrouble /\ r.clean /\ CopyFound /\ PassedSoFar
  BY <1>1, <1>2 DEF CleanSoFar
<1>4. /\ r.valid <=> new.hdr = new.ent /\ new.ent # Bad
      /\ r.valid => r.tbl.ent = new.ent
  <2> HIDE DEF new
  <2> QED BY <1>1, <1>3, CleanTable
<1>5. entryAt \in DOMAIN list /\ entryAt \in Nat \ {0}
  BY <1>2, PtmAssumption DEF PtmInv, AtEntry, PtmShape, TableHeld
<1>6. /\ r.valid /\ r.tbl.ent \in Listing <=> entryAt \in Listers
      /\ r.valid => r.tbl.ent = parts[Entry].ent
  BY <1>2, <1>4, <1>5, PtmAssumption DEF Listers, Candidates, Entry
<1>7. /\ Loadable' = Loadable /\ WholeCopies' = WholeCopies
      /\ Listers' = Listers
  BY <1>2, SameFlash
<1>8. CopyFound'
  BY <1>2, <1>3, <1>7 DEF CopyFound, SearchedSoFar
<1>9. CASE entryAt \in Listers
  <2>1. ptmPc' = "image" /\ entryAt' = entryAt /\ imgTbl'.ent = parts[Entry].ent
    BY <1>1, <1>6, <1>9
  <2>2. EntryFound'
    BY <1>2, <1>3, <1>7, <1>9, <2>1 DEF EntryFound, PassedSoFar, Entry
  <2> QED BY <1>2, <1>8, <2>1, <2>2 DEF CleanSoFar
<1>10. CASE entryAt \notin Listers
  <2>1. ptmPc' = "walk" /\ entryAt' = entryAt + 1
    BY <1>1, <1>2, <1>6, <1>10
  <2>2. \A i \in 1 .. entryAt : i \notin Listers
    BY <1>3, <1>5, <1>10 DEF PassedSoFar
  <2>3. PassedSoFar'
    BY <1>2, <1>5, <1>7, <2>1, <2>2 DEF PassedSoFar
  <2> QED BY <1>2, <1>8, <2>1, <2>3 DEF CleanSoFar
<1> QED BY <1>9, <1>10

\* The result of a load that has found its partition.
LEMMA ReadImgClean == PtmInv /\ CleanSoFar /\ ReadImg => CleanSoFar'
<1> SUFFICES ASSUME PtmInv, CleanSoFar, ReadImg, ~readTrouble' PROVE CleanSoFar'
  BY DEF CleanSoFar
<1> DEFINE v == imgTbl.ent
           new == IF parts[Entry].img = v THEN v ELSE Bad
<1>1. /\ ptCopies' = ptCopies /\ parts' = parts /\ ptTbl' = ptTbl /\ lookupAt' = lookupAt
      /\ ptmState' = ptmState /\ ptmPc = "image" /\ ptmPc' = "ready" /\ ptmState = "idle"
  BY DEF ReadImg, ptmStore, searchVars, PtmInv, Loading
<1>2. v # Bad /\ ptTbl.ent # Bad
  BY <1>1, PtmAssumption DEF PtmInv, AtImage, TableHeld
<1>3. \/ ~SizeFits(v) /\ loadResult' = "error" /\ readTrouble' = readTrouble
      \/ /\ SizeFits(v)
         /\ \E r \in FlashRead(loaded, new) :
              /\ loadResult' = IF r.ok /\ CodeHolds(v, r.got) THEN "ok" ELSE "error"
              /\ readTrouble' = (readTrouble \/ ~Clean(r, new))
  BY DEF ReadImg
<1>4. /\ ~readTrouble /\ loadResult' # "none"
      /\ loadResult' = "ok" <=> SizeFits(v) /\ CodeHolds(v, new)
  <2>1. CASE SizeFits(v)
    <3>1. PICK r \in FlashRead(loaded, new) :
            /\ loadResult' = IF r.ok /\ CodeHolds(v, r.got) THEN "ok" ELSE "error"
            /\ readTrouble' = (readTrouble \/ ~Clean(r, new))
      BY <1>3, <2>1
    <3>2. ~readTrouble /\ r.ok /\ r.got = new
      BY <3>1 DEF Clean
    <3> QED BY <2>1, <3>1, <3>2
  <2>2. CASE ~SizeFits(v)
    BY <1>3, <2>2
  <2> QED BY <2>1, <2>2
<1>5. CodeHolds(v, new) <=> CodeHolds(v, parts[Entry].img)
  BY <1>2 DEF CodeHolds
<1>6. CopyFound /\ EntryFound
  BY <1>1, <1>4 DEF CleanSoFar
<1>7. Loadable = (SizeFits(v) /\ CodeHolds(v, parts[Entry].img))
  BY <1>2, <1>6, LoadableInPart DEF PtmInv
<1>8. Loadable' = Loadable /\ WholeCopies' = WholeCopies
  BY <1>1, SameFlash
<1>9. CopyFound'
  BY <1>1, <1>6, <1>8 DEF CopyFound, SearchedSoFar
<1>10. (loadResult' = "ok") = Loadable'
  <2>1. Loadable \in BOOLEAN
    BY DEF Loadable
  <2> QED BY <1>4, <1>5, <1>7, <1>8, <2>1
<1> QED BY <1>1, <1>4, <1>9, <1>10 DEF CleanSoFar

\* The steps that read nothing: a walk that ends has passed every candidate.
LEMMA OtherClean ==
  PtmInv /\ CleanSoFar /\ (FlashPresent \/ LoadImg \/ PassEntry \/ WalkEnds \/ UNCHANGED ptmVars)
  => CleanSoFar'
<1> SUFFICES ASSUME PtmInv, CleanSoFar, ~readTrouble',
                    FlashPresent \/ LoadImg \/ PassEntry \/ WalkEnds \/ UNCHANGED ptmVars
             PROVE  CleanSoFar'
  BY DEF CleanSoFar
<1>1. /\ ptCopies' = ptCopies /\ parts' = parts /\ ptTbl' = ptTbl /\ lookupAt' = lookupAt
      /\ imgTbl' = imgTbl /\ ~readTrouble
  BY DEF FlashPresent, LoadImg, PassEntry, WalkEnds, ptmVars, ptmStore, searchVars, loadVars
<1>2. /\ Loadable' = Loadable /\ WholeCopies' = WholeCopies
      /\ Listers' = Listers
  BY <1>1, SameFlash
<1>3. /\ SearchedSoFar' <=> SearchedSoFar
      /\ CopyFound' <=> CopyFound
  BY <1>1, <1>2 DEF SearchedSoFar, CopyFound
<1>4. /\ ptmPc \in {"start", "search"} => SearchedSoFar
      /\ ptmPc = "ready" => ptmState \in {"idle", "error"}
      /\ ptmState = "idle" => CopyFound
      /\ ptmState = "error" => ~Loadable
      /\ ptmPc = "walk" => PassedSoFar
      /\ ptmPc = "image" => EntryFound
      /\ loadResult # "none" => (loadResult = "ok") = Loadable
  BY <1>1 DEF CleanSoFar
<1>5. CASE FlashPresent
  <2>1. /\ ptmPc = "start" /\ ptmPc' = "search" /\ ptmState' = ptmState
        /\ loadResult' = loadResult /\ ptmState = "uninit"
    BY <1>5 DEF FlashPresent, searchVars, loadVars, PtmInv, Before
  <2> QED BY <1>2, <1>3, <1>4, <2>1 DEF CleanSoFar
<1>6. CASE LoadImg
  <2>1. entryAt' = 1 /\ ptmPc = "ready" /\ ptmState' = ptmState
    BY <1>6 DEF LoadImg, searchVars
  <2>2. PassedSoFar'
    BY <2>1 DEF PassedSoFar
  <2>3. \/ ptmState = "idle" /\ ptmPc' = "walk" /\ loadResult' = "none"
        \/ ptmState = "error" /\ ptmPc' = "ready" /\ loadResult' = "error"
    BY <1>4, <1>6, <2>1 DEF LoadImg
  <2>4. Loadable \in BOOLEAN
    BY DEF Loadable
  <2> QED BY <1>2, <1>3, <1>4, <2>1, <2>2, <2>3, <2>4 DEF CleanSoFar
<1>7. CASE PassEntry
  <2>1. /\ ptmPc = "walk" /\ ptmPc' = "walk" /\ ptmState' = ptmState /\ loadResult' = loadResult
        /\ entryAt' = entryAt + 1 /\ ~Eligible(Entry) /\ entryAt \in Nat \ {0}
    BY <1>7 DEF PassEntry, AtEntry, searchVars, PtmInv, PtmShape
  <2>2. entryAt \notin Listers
    BY <2>1 DEF Listers, Candidates, Entry
  <2>3. PassedSoFar'
    BY <1>2, <1>4, <2>1, <2>2 DEF PassedSoFar
  <2>4. ptmState = "idle"
    BY <2>1 DEF PtmInv, Loading
  <2> QED BY <1>2, <1>3, <1>4, <2>1, <2>3, <2>4 DEF CleanSoFar
<1>8. CASE WalkEnds
  <2> DEFINE list == Lists[ptTbl.ent]
  <2>1. /\ ptmPc = "walk" /\ ptmPc' = "ready" /\ ptmState' = "error" /\ loadResult' = "error"
        /\ entryAt > Len(list)
    BY <1>8 DEF WalkEnds
  <2>2. ptmState = "idle" /\ ptTbl.ent # Bad
    BY <2>1 DEF PtmInv, Loading, TableHeld
  <2>3. DOMAIN list = 1 .. Len(list) /\ Len(list) \in Nat /\ entryAt \in Nat \ {0}
    BY <2>2, PtmAssumption DEF PtmInv, PtmShape
  <2>4. Listers = {}
    BY <1>4, <2>1, <2>3 DEF Listers, Candidates, PassedSoFar
  <2>5. ~Loadable
    BY <1>4, <2>2, <2>4, LoadableInTable DEF PtmInv, Listers
  <2>6. Loadable' = FALSE
    BY <1>2, <2>5
  <2> QED BY <2>1, <2>6 DEF CleanSoFar
<1>9. CASE UNCHANGED ptmVars
  <2>1. /\ ptmPc' = ptmPc /\ ptmState' = ptmState /\ loadResult' = loadResult
        /\ entryAt' = entryAt
    BY <1>9 DEF ptmVars
  <2>2. (PassedSoFar' <=> PassedSoFar) /\ (EntryFound' <=> EntryFound)
    BY <1>1, <1>2, <2>1 DEF PassedSoFar, EntryFound, Entry
  <2> QED BY <1>2, <1>3, <1>4, <2>1, <2>2 DEF CleanSoFar
<1> QED BY <1>5, <1>6, <1>7, <1>8, <1>9

\* FoundIfIntact is an invariant: while reads are clean, a load succeeds exactly when the
\* first whole copy lists a partition whose first intact table has an image that holds.
THEOREM LoadsWhatIsIntact == PtmSpec => []FoundIfIntact
<1>1. PtmInv /\ CleanSoFar /\ [PtmNext]_ptmVars => PtmInv' /\ CleanSoFar'
  BY TryCopyInv, TryEntryInv, ReadImgInv, OtherInv,
     TryCopyClean, TryEntryClean, ReadImgClean, OtherClean DEF PtmNext
<1>2. CleanSoFar => FoundIfIntact
  BY DEF CleanSoFar, FoundIfIntact
<1> QED BY PtmInitInv, InitClean, <1>1, <1>2, PTL DEF PtmSpec
=============================================================================
