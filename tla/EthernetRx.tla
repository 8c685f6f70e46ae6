------------------------------ MODULE EthernetRx ------------------------------
(***************************************************************************)
(* The receive side of the Ethernet driver (contrib/bcm/drivers/eth.c) and *)
(* the hand-over of its interrupt: the ISR masks the line in the VIC and   *)
(* sets an event, the task EthIsrHandler clears the cause, processes the   *)
(* ring and enables the line again. Frames go to a queue, a receiver task  *)
(* takes them and gives their fragments back to the ring, restarting the   *)
(* DMA when it had run out.                                                *)
(*                                                                         *)
(* EthIsrHandler has the highest priority of the generated configuration:  *)
(* the receiver runs only while it waits. Interrupts and DMA come at any   *)
(* moment, interrupts not while they are suspended.                        *)
(*                                                                         *)
(* GRS shares the register ETH_ETH_CTRL with GTS of the transmit side. Who *)
(* changes one of them reads the register and writes it back, with the     *)
(* other as it was read, which the DMA may have set in between. The        *)
(* transmit side is an environment here, of these two steps; module        *)
(* Ethernet has both sides.                                                *)
(***************************************************************************)
EXTENDS Naturals, Sequences, FiniteSets

CONSTANTS
  RxFrags,       \* ETH_RX_FRAGS fragments
  RxDescriptors, \* ETH_RXDMA_DESCRIPTORS, also the budget of one eth_rx_process
  NoActor, NoRxFrag

\* With as many fragments as descriptors a full ring would read as an empty one.
ASSUME RingNeverFull == RxDescriptors \in Nat /\ RxDescriptors > Cardinality(RxFrags)

ASSUME RxAssumption ==
  /\ IsFiniteSet(RxFrags) /\ RxFrags # {} /\ NoRxFrag \notin RxFrags
  /\ NoActor \notin {"handler", "receiver", "client"}

VARIABLES
  rxPc,        \* where the handler and the receiver are
  isrEvent,    \* EthIsrEvent of EthIsrHandler
  vicOn,       \* the line is enabled in the VIC
  rawIntr,     \* ETH_INTR_RAW, of the enabled causes RXF and ROV
  intrs, again, processed, \* locals of eth_isr and eth_rx_process
  rxIdx,       \* rx_idx: next descriptor to process
  rxFrag,      \* rx_frags[]
  rxKind,      \* rx_dma[].flags: what the DMA left of a frame there
  rbdptr, rswptr, grs, \* the DMA: next descriptor, last released one, stopped
  frameOpen,   \* the DMA is in the middle of a frame
  rxQueue,     \* rx_queue
  held,        \* the fragments the receiver has taken
  rxIrqOff,    \* who has suspended interrupts: "client", a client of the transmit
               \* side between its read and its write of ETH_ETH_CTRL
  grsRead      \* the GRS the client has read

rxVars == <<rxPc, isrEvent, vicOn, rawIntr, intrs, again, processed, rxIdx, rxFrag,
            rxKind, rbdptr, rswptr, grs, frameOpen, rxQueue, held, rxIrqOff, grsRead>>
isrVars == <<isrEvent, vicOn, rawIntr, intrs, again>>
dmaVars == <<rxFrag, rxKind, rbdptr, rswptr, grs, frameOpen>>

RDescs == 0 .. RxDescriptors - 1
RSucc(d) == (d + 1) % RxDescriptors
Between(d, a, b) ==  \* d is one of the descriptors from a up to before b
  (d + RxDescriptors - a) % RxDescriptors < (b + RxDescriptors - a) % RxDescriptors

\* eth_rx_ring_init
RxRingInit == rxKind = [d \in RDescs |-> "none"] /\ rxQueue = <<>>

\* eth_hardware_init: all fragments on the ring, in some order; the receiver runs.
RxHardwareInit ==
  LET loaded == 0 .. Cardinality(RxFrags) - 1 IN
  /\ rxFrag \in [RDescs -> RxFrags \cup {NoRxFrag}]
  /\ \A f \in RxFrags : \E d \in loaded : rxFrag[d] = f
  /\ \A d \in RDescs \ loaded : rxFrag[d] = NoRxFrag
  /\ rbdptr = 0 /\ rswptr = Cardinality(RxFrags) - 1 /\ rxIdx = 0
  /\ grs = FALSE /\ rawIntr = {}

\* vic_config enables the line of every interrupt that has a handler.
LineEnabled == vicOn = TRUE

\* After eth_init, once the handler it activates waits.
RxInit ==
  /\ RxRingInit /\ RxHardwareInit /\ LineEnabled
  /\ rxPc = [handler |-> "wait", receiver |-> "idle"]
  /\ isrEvent = FALSE /\ intrs = {} /\ again = FALSE /\ processed = 0
  /\ frameOpen = FALSE /\ held = {} /\ rxIrqOff = NoActor /\ grsRead = FALSE

Handler(place) == rxPc.handler = place /\ rxIrqOff \in {NoActor, "handler"}
HandlerTo(place) == rxPc' = [rxPc EXCEPT !.handler = place]
Receiver(place) ==
  rxPc.receiver = place /\ rxPc.handler = "wait" /\ ~isrEvent
  /\ rxIrqOff \in {NoActor, "receiver"}

-----------------------------------------------------------------------------
\* The DMA: a fragment of a frame into the next released descriptor.
Receive ==
  /\ ~grs /\ rbdptr # RSucc(rswptr)
  /\ \E kind \in IF frameOpen THEN {"middle", "last"} ELSE {"whole", "first"} :
       /\ rxKind' = [rxKind EXCEPT ![rbdptr] = kind]
       /\ frameOpen' = (kind \in {"first", "middle"})
       /\ rawIntr' = IF frameOpen' THEN rawIntr ELSE rawIntr \cup {"RXF"}
  /\ rbdptr' = RSucc(rbdptr) /\ grs' = (rbdptr = rswptr)
  /\ UNCHANGED <<rxPc, isrEvent, vicOn, intrs, again, processed, rxIdx, rxFrag, rswptr,
                 rxQueue, held, rxIrqOff, grsRead>>

\* Started on an empty ring it stops again; stopped, it loses what arrives.
HaltEmpty ==
  /\ ~grs /\ rbdptr = RSucc(rswptr)
  /\ grs' = TRUE
  /\ UNCHANGED <<rxPc, isrVars, processed, rxIdx, rxFrag, rxKind, rbdptr, rswptr,
                 frameOpen, rxQueue, held, rxIrqOff, grsRead>>

Overflow ==
  /\ grs
  /\ rawIntr' = rawIntr \cup {"ROV"} /\ frameOpen' = FALSE
  /\ UNCHANGED <<rxPc, isrEvent, vicOn, intrs, again, processed, rxIdx, rxFrag, rxKind,
                 rbdptr, rswptr, grs, rxQueue, held, rxIrqOff, grsRead>>

\* eth_irq_handler, called by irq_generic_handler.
EthIrq ==
  /\ vicOn /\ rawIntr # {} /\ rxIrqOff = NoActor
  /\ vicOn' = FALSE /\ isrEvent' = TRUE
  /\ UNCHANGED <<rxPc, rawIntr, intrs, again, processed, rxIdx, dmaVars, rxQueue, held,
                 rxIrqOff, grsRead>>

-----------------------------------------------------------------------------
\* TASK(EthIsrHandler): WaitEvent, GetEvent, ClearEvent.
HandlerWakes ==
  /\ Handler("wait") /\ isrEvent /\ rxIrqOff = NoActor
  /\ isrEvent' = FALSE /\ again' = FALSE /\ HandlerTo("read")
  /\ UNCHANGED <<vicOn, rawIntr, intrs, processed, rxIdx, dmaVars, rxQueue, held, rxIrqOff, grsRead>>

\* eth_isr: intrs = ETH_INTR, and the return when there is none.
IsrRead ==
  /\ Handler("read")
  /\ intrs' = rawIntr
  /\ HandlerTo(IF rawIntr = {} THEN "enable" ELSE "clear")
  /\ UNCHANGED <<isrEvent, vicOn, rawIntr, again, processed, rxIdx, dmaVars, rxQueue,
                 held, rxIrqOff, grsRead>>

\* Where eth_isr goes once an overflow has been handled.
AfterOverflow == IF again \/ "RXF" \in intrs THEN "process" ELSE "enable"

\* Clear the interrupts that were read.
IsrClear ==
  /\ Handler("clear")
  /\ rawIntr' = rawIntr \ intrs
  /\ processed' = 0
  /\ HandlerTo(IF "ROV" \in intrs THEN "overflow" ELSE AfterOverflow)
  /\ UNCHANGED <<isrEvent, vicOn, intrs, again, rxIdx, dmaVars, rxQueue, held, rxIrqOff, grsRead>>

\* eth_receive_overflow reads ETH_ETH_CTRL: stopped already, or ...
OverflowRead ==
  /\ Handler("overflow")
  /\ HandlerTo(IF grs THEN "reset" ELSE "stop")
  /\ UNCHANGED <<isrVars, processed, rxIdx, dmaVars, rxQueue, held, rxIrqOff, grsRead>>

\* ... stop the receiver. What it waits for after that, or does not because of a
\* time-out, is only that no frame is cut off when the MAC is reset.
OverflowStop ==
  /\ Handler("stop")
  /\ grs' = TRUE /\ HandlerTo("reset")
  /\ UNCHANGED <<isrVars, processed, rxIdx, rxFrag, rxKind, rbdptr, rswptr, frameOpen,
                 rxQueue, held, rxIrqOff, grsRead>>

\* The MAC is in reset; it reads ETH_ETH_CTRL again, ...
OverflowReset ==
  /\ Handler("reset")
  /\ HandlerTo("resume")
  /\ UNCHANGED <<isrVars, processed, rxIdx, dmaVars, rxQueue, held, rxIrqOff, grsRead>>

\* ... and starts the receiver, whatever stopped it.
OverflowResume ==
  /\ Handler("resume")
  /\ grs' = FALSE /\ HandlerTo(AfterOverflow)
  /\ UNCHANGED <<isrVars, processed, rxIdx, rxFrag, rxKind, rbdptr, rswptr, frameOpen,
                 rxQueue, held, rxIrqOff, grsRead>>

\* Mutant of FragQueue.
FragQueueInPlace(who, f) ==  \* puts the fragment where it came from
  /\ rxFrag' = rxFrag
  /\ rxKind' = [rxKind EXCEPT ![RSucc(rswptr)] = "none"]
  /\ rswptr' = RSucc(rswptr)
  /\ rxIrqOff' = who
  /\ rxPc' = [rxPc EXCEPT ![who] = "restart"]
  /\ UNCHANGED <<rbdptr, grs, frameOpen>>

\* eth_rx_frag_queue of f up to the write of ETH_RSWPTR, by `who', in eth_rx_frag_free.
FragQueue(who, f) ==
  LET fill == RSucc(rswptr) IN
  /\ rxFrag' = [rxFrag EXCEPT ![fill] = f]
  /\ rxKind' = [rxKind EXCEPT ![fill] = "none"]
  /\ rswptr' = fill
  /\ rxIrqOff' = who
  /\ rxPc' = [rxPc EXCEPT ![who] = "restart"]
  /\ UNCHANGED <<rbdptr, grs, frameOpen>>

\* Mutant of StoppedShort.
StoppedShortRov == grs /\ RSucc(rswptr) # rbdptr /\ "ROV" \notin rawIntr

\* The receiver stopped before it could use the descriptor just released.
StoppedShort == grs /\ RSucc(rswptr) # rbdptr

\* ... the check: nothing to restart, or restart, with ROV raised by way of
\* eth_receive_overflow, ...
FragRestart(who, next) ==
  /\ rxPc[who] = "restart"
  /\ rxPc' = [rxPc EXCEPT ![who] = IF ~StoppedShort THEN next
                                   ELSE IF "ROV" \in rawIntr THEN "rov" ELSE "rewrite"]
  /\ rxIrqOff' = IF StoppedShort THEN rxIrqOff ELSE NoActor
  /\ UNCHANGED <<isrVars, processed, rxIdx, dmaVars, rxQueue, held, grsRead>>

\* ... which finds the receiver stopped and goes as far as reading ETH_ETH_CTRL again, ...
FragOverflow(who) ==
  /\ rxPc[who] = "rov"
  /\ rxPc' = [rxPc EXCEPT ![who] = "rewrite"]
  /\ UNCHANGED <<isrVars, processed, rxIdx, dmaVars, rxQueue, held, rxIrqOff, grsRead>>

\* ... and the write of either; resume interrupts.
FragRewrite(who, next) ==
  /\ rxPc[who] = "rewrite"
  /\ grs' = FALSE
  /\ rxIrqOff' = NoActor
  /\ rxPc' = [rxPc EXCEPT ![who] = next]
  /\ UNCHANGED <<isrVars, processed, rxIdx, rxFrag, rxKind, rbdptr, rswptr, frameOpen,
                 rxQueue, held, grsRead>>

\* One turn of eth_rx_process: the ring is empty, ...
ProcessEmpty ==
  /\ Handler("process") /\ rxIdx = rbdptr
  /\ again' = FALSE /\ HandlerTo("enable")
  /\ UNCHANGED <<isrEvent, vicOn, rawIntr, intrs, processed, rxIdx, dmaVars, rxQueue,
                 held, rxIrqOff, grsRead>>

\* ... a whole frame, which the callback queues with eth_add_frag or frees ...
ProcessWhole ==
  /\ Handler("process") /\ rxIdx # rbdptr /\ rxKind[rxIdx] = "whole"
  /\ \/ /\ rxQueue' = Append(rxQueue, rxFrag[rxIdx])
        /\ HandlerTo("advance")
        /\ UNCHANGED <<dmaVars, rxIrqOff>>
     \/ FragQueue("handler", rxFrag[rxIdx]) /\ UNCHANGED rxQueue
  /\ UNCHANGED <<isrVars, processed, rxIdx, held, grsRead>>

\* ... or a part of one. The test of rx_frag before the chaining is the wrong way
\* round: rx_frag has just been set, or was by the first part, and every part
\* is dropped.
ProcessPart ==
  /\ Handler("process") /\ rxIdx # rbdptr /\ rxKind[rxIdx] # "whole"
  /\ FragQueue("handler", rxFrag[rxIdx])
  /\ UNCHANGED <<isrVars, processed, rxIdx, rxQueue, held, grsRead>>

\* Advance the read pointer; the budget of a call, and the loop of eth_isr.
ProcessAdvance ==
  /\ Handler("advance")
  /\ rxIdx' = RSucc(rxIdx) /\ processed' = processed + 1
  /\ again' = (processed' >= RxDescriptors)
  /\ HandlerTo(IF again' THEN "read" ELSE "process")
  /\ UNCHANGED <<isrEvent, vicOn, rawIntr, intrs, dmaVars, rxQueue, held, rxIrqOff, grsRead>>

\* Mutant of HandlerEnables.
HandlerEnablesClears ==   \* clears the cause when the processing is over
  /\ Handler("enable")
  /\ vicOn' = TRUE /\ HandlerTo("wait") /\ rawIntr' = rawIntr \ {"RXF"}
  /\ UNCHANGED <<isrEvent, intrs, again, processed, rxIdx, dmaVars, rxQueue, held, rxIrqOff, grsRead>>

\* VIC_INT_ENABLE, and back to WaitEvent.
HandlerEnables ==
  /\ Handler("enable")
  /\ vicOn' = TRUE /\ HandlerTo("wait")
  /\ UNCHANGED <<isrEvent, rawIntr, intrs, again, processed, rxIdx, dmaVars, rxQueue,
                 held, rxIrqOff, grsRead>>

-----------------------------------------------------------------------------
\* eth_get_rxfrag by the receiver task.
GetRxFrag ==
  /\ Receiver("idle") /\ rxQueue # <<>>
  /\ held' = held \cup {Head(rxQueue)} /\ rxQueue' = Tail(rxQueue)
  /\ UNCHANGED <<rxPc, isrVars, processed, rxIdx, dmaVars, rxIrqOff, grsRead>>

\* eth_rx_frag_free of a fragment it has done with.
FreeRxFrag ==
  /\ Receiver("idle")
  /\ \E f \in held : FragQueue("receiver", f) /\ held' = held \ {f}
  /\ UNCHANGED <<isrVars, processed, rxIdx, rxQueue, grsRead>>

-----------------------------------------------------------------------------
\* A client reads ETH_ETH_CTRL in eth_send, with interrupts suspended, ...
ReadGrs ==
  /\ rxIrqOff' = "client" /\ grsRead' = grs
  /\ UNCHANGED <<rxPc, isrVars, processed, rxIdx, dmaVars, rxQueue, held>>

\* ... and writes it back, changed in GTS only.
WriteBackGrs ==
  /\ rxIrqOff' = NoActor /\ grs' = grsRead /\ grsRead' = FALSE
  /\ UNCHANGED <<rxPc, isrVars, processed, rxIdx, rxFrag, rxKind, rbdptr, rswptr,
                 frameOpen, rxQueue, held>>

\* A client runs while the handler waits and the receiver has not suspended interrupts.
TxReadsCtrl == rxPc.handler = "wait" /\ ~isrEvent /\ rxIrqOff = NoActor /\ ReadGrs
TxWritesCtrl == rxIrqOff = "client" /\ WriteBackGrs

DmaStep == Receive \/ HaltEmpty \/ Overflow
HandlerStep ==
  \/ HandlerWakes \/ IsrRead \/ IsrClear
  \/ OverflowRead \/ OverflowStop \/ OverflowReset \/ OverflowResume
  \/ ProcessEmpty \/ ProcessWhole \/ ProcessPart \/ FragRestart("handler", "advance")
  \/ FragOverflow("handler") \/ FragRewrite("handler", "advance")
  \/ ProcessAdvance \/ HandlerEnables
ReceiverStep ==
  \/ GetRxFrag \/ FreeRxFrag \/ FragRestart("receiver", "idle")
  \/ FragOverflow("receiver") \/ FragRewrite("receiver", "idle")

RxNext == DmaStep \/ EthIrq \/ HandlerStep \/ ReceiverStep \/ TxReadsCtrl \/ TxWritesCtrl
RxSpec == RxInit /\ [][RxNext]_rxVars

-----------------------------------------------------------------------------
\* The descriptors whose fragment is the ring's: from rx_idx, or after it once its
\* fragment has been handed on, to RSWPTR.
InRing ==
  LET handedOn == rxPc.handler \in {"restart", "rov", "rewrite", "advance"}
      from == IF handedOn THEN RSucc(rxIdx) ELSE rxIdx
  IN {d \in RDescs : Between(d, from, RSucc(rswptr))}

\* Every fragment is in exactly one place: the ring, the queue, or the receiver's
\* hands; a fragment in two is overwritten by the DMA while it is read. The
\* DMA writes only descriptors of the ring.
RxFragsInOnePlace ==
  /\ ~grs /\ rbdptr # RSucc(rswptr) => rbdptr \in InRing
  /\ \A f \in RxFrags :
       Cardinality({d \in InRing : rxFrag[d] = f})
         + Cardinality({i \in DOMAIN rxQueue : rxQueue[i] = f})
         + (IF f \in held THEN 1 ELSE 0) = 1

\* No frame is forgotten at the hand-over: while the handler waits, its event is
\* set or the line is enabled, and with a complete frame in the ring the cause
\* is still raised.
RxWorkNoticed ==
  rxPc.handler = "wait" =>
    /\ isrEvent \/ vicOn
    /\ (\E d \in RDescs : Between(d, rxIdx, rbdptr) /\ rxKind[d] \in {"whole", "last"})
         => isrEvent \/ "RXF" \in rawIntr

\* Outside eth_rx_frag_queue and the reset in eth_receive_overflow a stopped receiver
\* has no released descriptor left: no restart is missed, also when the transmit
\* side writes back a GRS that the DMA has set in between.
ReceiverRuns ==
  rxIrqOff \notin {"handler", "receiver"} /\ rxPc.handler \notin {"reset", "resume"}
    => (grs => rbdptr = RSucc(rswptr))

=============================================================================
