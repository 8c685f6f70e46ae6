------------------------------ MODULE EthernetTx ------------------------------
(***************************************************************************)
(* The transmit side of the Ethernet driver (contrib/bcm/drivers/eth.c):   *)
(* tasks allocate fragments, guarded by a counting semaphore, chain them   *)
(* and send them; a send puts the chain on the ring and restarts the DMA   *)
(* when it had stopped; transmitted fragments come back only when an       *)
(* allocation that found the semaphore empty cleans the ring.              *)
(*                                                                         *)
(* eth_hardware_init leaves the TXF interrupt masked and nothing enables   *)
(* it, so the TXF branch of eth_isr never runs and is not here. A task that*)
(* has interrupts suspended runs alone; so does, among the tasks that use  *)
(* the driver, the holder of EthTxRingBufRes. The DMA runs at any moment.  *)
(*                                                                         *)
(* GTS shares the register ETH_ETH_CTRL with GRS of the receive side, which*)
(* reads the register and writes it back, with the GTS it read. The receive*)
(* side is an environment here, of these two steps; module Ethernet has    *)
(* both sides.                                                             *)
(***************************************************************************)
EXTENDS Naturals, Sequences, FiniteSets

CONSTANTS
  Clients,      \* the tasks that send
  TxFrags,      \* ETH_TX_FRAGS fragments
  TxDescriptors, \* ETH_TXDMA_DESCRIPTORS
  MaxChain,     \* bound: fragments a client chains into one frame
  EthernetPhy,  \* ETHERNET_PHY: the link monitor is compiled in
  NoTask, NoFrag

\* The driver is written for more descriptors than fragments ("Can't happen
\* if we have more descriptors than frag_ptrs"); the other case is another
\* #if branch.
ASSUME MoreDescriptors == TxDescriptors \in Nat /\ TxDescriptors > Cardinality(TxFrags)

ASSUME TxAssumption ==
  /\ IsFiniteSet(Clients) /\ NoTask \notin Clients
  /\ "receive" \notin Clients \cup {NoTask}
  /\ IsFiniteSet(TxFrags) /\ NoFrag \notin TxFrags

VARIABLES
  txPc,        \* where each client is in eth_tx_frag_alloc or eth_send
  txChain,     \* the fragments a client holds, in chain order
  firstBd,     \* last_tswptr of a send: the first descriptor it released
  freeFrags,   \* tx_free_frags
  semCount, semQueue, \* tx_frag_sem: what FifoSemaphore says of it
  txFrag,      \* tx_frag[]: the fragment last put on each descriptor
  txClean,     \* tx_clean: the last cleaned descriptor
  tbdptr, tswptr, gts, \* the DMA: next descriptor, last released one, stopped
  linkUp, ringRes,
  irqOff,      \* who lets no other task in: a client with interrupts suspended, or
               \* the receive side between its read and its write of ETH_ETH_CTRL
  gtsRead,     \* the GTS it has read
  gtsLost      \* history: it has cleared a GTS that the DMA set in between

txVars == <<txPc, txChain, firstBd, freeFrags, semCount, semQueue, txFrag,
            txClean, tbdptr, tswptr, gts, linkUp, irqOff, ringRes, gtsRead, gtsLost>>
ctrlVars == <<gtsRead, gtsLost>>

Descs == 0 .. TxDescriptors - 1
Succ(d) == (d + 1) % TxDescriptors
Dist(a, b) == (b + TxDescriptors - a) % TxDescriptors
\* Descriptors the cleaner has not passed, and those the DMA has not.
InFlight == {d \in Descs : Dist(txClean, d) \in 1 .. Dist(txClean, tswptr)}
Unsent == IF tbdptr = Succ(tswptr) THEN {}
          ELSE {d \in Descs : Dist(tbdptr, d) <= Dist(tbdptr, tswptr)}
Elems(s) == {s[i] : i \in DOMAIN s}

\* eth_frag_init: everything on the free list, and a unit for each fragment.
TxFragInit == freeFrags = TxFrags /\ semCount = Cardinality(TxFrags) /\ semQueue = <<>>

\* eth_tx_ring_init clears tx_frag[]; it is the last time.
TxRingInit == txFrag = [d \in Descs |-> NoFrag]

\* eth_hardware_init: the ring is empty, and GTS set as nothing is ready to send.
TxHardwareInit ==
  /\ txClean = TxDescriptors - 1 /\ tswptr = TxDescriptors - 1 /\ tbdptr = 0
  /\ gts = TRUE

\* After eth_init; the clients have not used the driver yet.
TxInit ==
  /\ TxFragInit /\ TxRingInit /\ TxHardwareInit
  /\ linkUp = TRUE /\ irqOff = NoTask /\ ringRes = NoTask
  /\ txPc = [t \in Clients |-> "idle"] /\ txChain = [t \in Clients |-> <<>>]
  /\ firstBd = [t \in Clients |-> 0] /\ gtsRead = FALSE /\ gtsLost = FALSE

Runs(t) == irqOff \in {NoTask, t} /\ ringRes \in {NoTask, t}

At(t, place) == Runs(t) /\ txPc[t] = place
GoTo(t, place) == txPc' = [txPc EXCEPT ![t] = place]

\* Mutant of PostBy.
PostByCounts(t, next) ==   \* hands over and counts
  /\ txPc' = [u \in Clients |-> IF u = t THEN next
                ELSE IF semQueue # <<>> /\ u = Head(semQueue) THEN "take" ELSE txPc[u]]
  /\ semQueue' = IF semQueue = <<>> THEN <<>> ELSE Tail(semQueue)
  /\ semCount' = semCount + 1

\* PostSem by t, which goes on at `next': the first waiter takes over, or the
\* count goes up.
PostBy(t, next) ==
  IF semQueue # <<>>
  THEN /\ txPc' = [txPc EXCEPT ![t] = next, ![Head(semQueue)] = "take"]
       /\ semQueue' = Tail(semQueue)
       /\ UNCHANGED semCount
  ELSE GoTo(t, next) /\ semCount' = semCount + 1 /\ UNCHANGED semQueue

\* eth_tx_frag_alloc: TryWaitSem ...
FragAlloc(t) ==
  /\ At(t, "idle") /\ Len(txChain[t]) < MaxChain
  /\ IF semCount > 0
     THEN semCount' = semCount - 1 /\ GoTo(t, "take")
     ELSE GoTo(t, "getres") /\ UNCHANGED semCount
  /\ UNCHANGED <<txChain, firstBd, freeFrags, semQueue, txFrag, txClean,
                 tbdptr, tswptr, gts, linkUp, irqOff, ringRes, ctrlVars>>

\* ... and, without a unit, GetResource of eth_tx_ringclean.
GetRingRes(t) ==
  /\ At(t, "getres")
  /\ ringRes' = t /\ GoTo(t, "clean")
  /\ UNCHANGED <<txChain, firstBd, freeFrags, semCount, semQueue, txFrag, txClean,
                 tbdptr, tswptr, gts, linkUp, irqOff, ctrlVars>>

\* Mutant of CaughtUp.
CaughtUpLate == tbdptr = txClean

\* "we caught up with the transmitter, done"
CaughtUp == tbdptr = Succ(txClean)

\* One turn of the loop of eth_tx_ringclean: caught up with the transmitter, or
\* clean the next descriptor with eth_tx_descclean and eth_tx_frag_free.
RingClean(t) ==
  LET next == Succ(txClean) IN
  /\ At(t, "clean")
  /\ IF CaughtUp
     THEN /\ ringRes' = NoTask /\ GoTo(t, "waitsem")
          /\ UNCHANGED <<txClean, freeFrags, semCount, semQueue>>
     ELSE /\ txClean' = next
          /\ IF txFrag[next] # NoFrag
             THEN freeFrags' = freeFrags \cup {txFrag[next]} /\ PostBy(t, "clean")
             ELSE UNCHANGED <<freeFrags, semCount, semQueue, txPc>>
          /\ UNCHANGED ringRes
  /\ UNCHANGED <<txChain, firstBd, txFrag, tbdptr, tswptr, gts, linkUp, irqOff, ctrlVars>>

\* WaitSem of eth_tx_frag_alloc.
FragWait(t) ==
  /\ At(t, "waitsem")
  /\ IF semCount > 0
     THEN semCount' = semCount - 1 /\ GoTo(t, "take") /\ UNCHANGED semQueue
     ELSE semQueue' = Append(semQueue, t) /\ GoTo(t, "blocked") /\ UNCHANGED semCount
  /\ UNCHANGED <<txChain, firstBd, freeFrags, txFrag, txClean, tbdptr, tswptr, gts,
                 linkUp, irqOff, ringRes, ctrlVars>>

\* The end of eth_tx_frag_alloc: list_shift, NULL from an empty list, and the
\* caller's eth_chain_frag.
FragTake(t) ==
  /\ At(t, "take")
  /\ \E f \in IF freeFrags = {} THEN {NoFrag} ELSE freeFrags :
       /\ freeFrags' = freeFrags \ {f}
       /\ txChain' = [txChain EXCEPT ![t] = IF f = NoFrag THEN @ ELSE Append(@, f)]
  /\ GoTo(t, "idle")
  /\ UNCHANGED <<firstBd, semCount, semQueue, txFrag, txClean, tbdptr, tswptr, gts,
                 linkUp, irqOff, ringRes, ctrlVars>>

\* eth_send with the link down: eth_tx_frag_free of the chain up to its PostSem.
SendDrop(t) ==
  /\ At(t, "idle") /\ txChain[t] # <<>> /\ ~linkUp
  /\ freeFrags' = freeFrags \cup Elems(txChain[t])
  /\ txChain' = [txChain EXCEPT ![t] = <<>>]
  /\ GoTo(t, "post")
  /\ UNCHANGED <<firstBd, semCount, semQueue, txFrag, txClean, tbdptr, tswptr, gts,
                 linkUp, irqOff, ringRes, ctrlVars>>

\* ... and the PostSem, one for the whole chain.
FragPost(t) ==
  /\ At(t, "post")
  /\ PostBy(t, "idle")
  /\ UNCHANGED <<txChain, firstBd, freeFrags, txFrag, txClean, tbdptr, tswptr, gts,
                 linkUp, irqOff, ringRes, ctrlVars>>

\* eth_send with the link up, up to the write of ETH_TSWPTR.
SendInstall(t) ==
  LET n == Len(txChain[t])
      slot(d) == Dist(tswptr, d)      \* which fragment d gets
  IN
  /\ At(t, "idle") /\ n > 0 /\ linkUp
  /\ txFrag' = [d \in Descs |-> IF slot(d) \in 1 .. n THEN txChain[t][slot(d)] ELSE txFrag[d]]
  /\ tswptr' = (tswptr + n) % TxDescriptors
  /\ firstBd' = [firstBd EXCEPT ![t] = Succ(tswptr)]
  /\ txChain' = [txChain EXCEPT ![t] = <<>>]
  /\ irqOff' = t /\ GoTo(t, "kick")
  /\ UNCHANGED <<freeFrags, semCount, semQueue, txClean, tbdptr, gts, linkUp, ringRes,
                 ctrlVars>>

\* Mutant of StoppedBefore.
StoppedBeforeIgnoresTbd(t) == gts

\* The transmitter stopped before the new descriptors were released.
StoppedBefore(t) == gts /\ firstBd[t] = tbdptr

\* The end of eth_send: look whether to restart the transmitter, up to the second
\* read of ETH_ETH_CTRL, ...
SendKick(t) ==
  /\ At(t, "kick")
  /\ IF StoppedBefore(t) THEN GoTo(t, "restart") /\ UNCHANGED irqOff
                         ELSE GoTo(t, "idle") /\ irqOff' = NoTask
  /\ UNCHANGED <<txChain, firstBd, freeFrags, semCount, semQueue, txFrag, txClean,
                 tbdptr, tswptr, gts, linkUp, ringRes, ctrlVars>>

\* ... and the write; resume interrupts.
SendRestart(t) ==
  /\ At(t, "restart")
  /\ gts' = FALSE
  /\ irqOff' = NoTask /\ GoTo(t, "idle")
  /\ UNCHANGED <<txChain, firstBd, freeFrags, semCount, semQueue, txFrag, txClean,
                 tbdptr, tswptr, linkUp, ringRes, ctrlVars>>

\* The DMA sends a descriptor and stops after the last released one; started
\* with none it sends stale ones all around the ring, which is why eth_send checks.
Transmit ==
  /\ ~gts
  /\ tbdptr' = Succ(tbdptr) /\ gts' = (tbdptr = tswptr)
  /\ UNCHANGED <<txPc, txChain, firstBd, freeFrags, semCount, semQueue, txFrag, txClean,
                 tswptr, linkUp, irqOff, ringRes, ctrlVars>>

\* The receive side reads ETH_ETH_CTRL (eth_rx_frag_queue, eth_receive_overflow) ...
ReadGts ==
  /\ irqOff' = "receive" /\ gtsRead' = gts
  /\ UNCHANGED <<txPc, txChain, firstBd, freeFrags, semCount, semQueue, txFrag, txClean,
                 tbdptr, tswptr, gts, linkUp, ringRes, gtsLost>>

\* ... and writes it back, changed in GRS only. A GTS set in between is lost;
\* the cleaner may then free fragments twice, of which freeFrags keeps one.
WriteBackGts ==
  /\ irqOff' = NoTask /\ gtsRead' = FALSE
  /\ gts' = gtsRead /\ gtsLost' = (gtsLost \/ (gts /\ ~gtsRead))
  /\ UNCHANGED <<txPc, txChain, firstBd, freeFrags, semCount, semQueue, txFrag, txClean,
                 tbdptr, tswptr, linkUp, ringRes>>

\* It does so at the highest priority or with interrupts suspended. Bound: no further
\* loss is followed after the first.
RxReadsCtrl == irqOff = NoTask /\ ~gtsLost /\ ReadGts
RxWritesCtrl == irqOff = "receive" /\ WriteBackGts

\* eth_link_thread finds the link down, ...
LinkTo(up) ==
  /\ EthernetPhy /\ irqOff = NoTask
  /\ linkUp # up /\ linkUp' = up
  /\ UNCHANGED <<txPc, txChain, firstBd, freeFrags, semCount, semQueue, txFrag, txClean,
                 tbdptr, tswptr, gts, irqOff, ringRes, ctrlVars>>
LinkLost == LinkTo(FALSE)

\* ... or up again: ephy_autonegotiate, which sets link_up when it has finished.
LinkNegotiated == LinkTo(TRUE)

ClientStep(t) ==
  \/ FragAlloc(t) \/ GetRingRes(t) \/ RingClean(t) \/ FragWait(t) \/ FragTake(t)
  \/ SendDrop(t) \/ FragPost(t) \/ SendInstall(t) \/ SendKick(t) \/ SendRestart(t)

TxNext ==
  \/ Transmit \/ RxReadsCtrl \/ RxWritesCtrl \/ LinkLost \/ LinkNegotiated
  \/ \E t \in Clients : ClientStep(t)

\* A task that can run goes on, and so does the DMA; no client has to allocate
\* or to send, and the link need not change.
GoesOn(t) ==
  \/ GetRingRes(t) \/ RingClean(t) \/ FragWait(t) \/ FragTake(t)
  \/ FragPost(t) \/ SendKick(t) \/ SendRestart(t)
TxFairness ==
  WF_txVars(Transmit) /\ WF_txVars(RxWritesCtrl) /\ \A t \in Clients : WF_txVars(GoesOn(t))
TxSpec == TxInit /\ [][TxNext]_txVars /\ TxFairness

-----------------------------------------------------------------------------
\* What the comment in eth_send asks for, against sending the DMA off on invalid
\* descriptors: a running transmitter has a released one ahead. The receive side
\* does not keep to it.
RunsReleased == ~gts => tbdptr # Succ(tswptr)

\* As long as the receive side has not lost a GTS: every fragment is in exactly one
\* place: the free list, one client's chain, or one descriptor between tx_clean
\* and TSWPTR. A fragment in two places is sent while somebody writes it
\* (eth_tx_descclean never clears tx_frag[]). And the cleaner never passes the DMA.
FragsInOnePlace ==
  ~gtsLost =>
    /\ Unsent \subseteq InFlight
    /\ \A f \in TxFrags :
         Cardinality({t \in Clients : f \in Elems(txChain[t])})
           + Cardinality({d \in InFlight : txFrag[d] = f})
           + (IF f \in freeFrags THEN 1 ELSE 0) = 1

\* The semaphore never promises more than the free list holds, again until a GTS is
\* lost: counted units, tasks about to take and posts still to come are covered, so
\* that eth_tx_frag_alloc never finds the list empty. (They may promise less: a
\* chain dropped with the link down is posted once, however long it is.)
SemNeverAhead ==
  ~gtsLost =>
    semCount + Cardinality({t \in Clients : txPc[t] \in {"take", "post"}})
      <= Cardinality(freeFrags)

\* Outside eth_send a stopped transmitter has nothing left to send, and a running
\* one is within the released descriptors: the restart is neither missed nor made
\* when the DMA had already caught up, and what the receive side writes back of
\* GTS is harmless unless the DMA set it in between.
TransmitterRuns ==
  ~gtsLost /\ irqOff \notin Clients => (gts <=> tbdptr = Succ(tswptr))

\* What the comment of eth_tx_frag_alloc promises its caller (a pointer or
\* NULL): an allocation returns. A caller that finds every fragment in flight
\* waits for a post which nobody makes when the transmission completes.
AllocReturns == \A t \in Clients : txPc[t] = "blocked" ~> txPc[t] # "blocked"

=============================================================================
