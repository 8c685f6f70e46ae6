------------------------------ MODULE Ethernet ------------------------------
(***************************************************************************)
(* The two sides of the Ethernet driver (contrib/bcm/drivers/eth.c) on one *)
(* controller and one processor. What they share is the register           *)
(* ETH_ETH_CTRL, with GTS and GRS, and the processor: EthIsrHandler has the*)
(* highest priority, and the clients and the receiver suspend interrupts   *)
(* while they change the register, so that of the tasks only one is ever   *)
(* between its read and its write. The two DMAs go on meanwhile, and set   *)
(* their bits.                                                             *)
(***************************************************************************)
EXTENDS EthernetTx, EthernetRx

ethVars == <<txVars, rxVars>>

EthInit == TxInit /\ RxInit

\* Between a read of ETH_ETH_CTRL and the write: in eth_receive_overflow twice and
\* in eth_rx_frag_queue, and in eth_send.
RxWindow == rxPc.handler \in {"stop", "resume", "rewrite"} \/ rxPc.receiver = "rewrite"
TxWindow == \E t \in Clients : txPc[t] = "restart"

\* No client has interrupts suspended.
InterruptsOn == irqOff \notin Clients

\* A client runs: the handler waits, and the receiver has not suspended interrupts.
ClientMay == rxPc.handler = "wait" /\ ~isrEvent /\ rxIrqOff \in {NoActor, "client"}

\* A step of the receive side's software, and what it does to GTS.
RxTurn ==
  /\ InterruptsOn
  /\ EthIrq \/ HandlerStep \/ ReceiverStep
  /\ CASE ~RxWindow /\ RxWindow' -> ~gtsLost /\ ReadGts    \* bound, as in RxReadsCtrl
       [] RxWindow /\ ~RxWindow' -> WriteBackGts
       [] OTHER -> UNCHANGED txVars

\* A step of a client, and what it does to GRS.
TxTurn ==
  /\ ClientMay
  /\ \E t \in Clients : ClientStep(t)
  /\ CASE ~TxWindow /\ TxWindow' -> ReadGrs
       [] TxWindow /\ ~TxWindow' -> WriteBackGrs
       [] OTHER -> UNCHANGED rxVars

\* The link monitor is a task as well.
LinkTurn == ClientMay /\ (LinkLost \/ LinkNegotiated) /\ UNCHANGED rxVars

EthNext ==
  \/ Transmit /\ UNCHANGED rxVars
  \/ DmaStep /\ UNCHANGED txVars
  \/ RxTurn \/ TxTurn \/ LinkTurn

EthSpec == EthInit /\ [][EthNext]_ethVars

-----------------------------------------------------------------------------
\* Each side sees of the other no more than the steps of its environment: what is
\* shown of a side alone, in any interleaving with those, holds of the driver.
TxSide == TxInit /\ [][TxNext]_txVars
RxSide == RxInit /\ [][RxNext]_rxVars
=============================================================================
