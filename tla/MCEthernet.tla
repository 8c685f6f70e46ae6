------------------------------ MODULE MCEthernet ------------------------------
(***************************************************************************)
(* The two sides of the Ethernet driver, each with the other as its        *)
(* environment. A behaviour moves one of them: side says which. That both  *)
(* together are no more than this is proved of module Ethernet, in         *)
(* EthernetProofs (TxSideOfTheDriver, RxSideOfTheDriver).                  *)
(***************************************************************************)
EXTENDS EthernetTx, EthernetRx, TLC

CONSTANT Sides
VARIABLE side

SideInit == side \in Sides /\ TxInit /\ RxInit
SideNext ==
  /\ UNCHANGED side
  /\ \/ side = "tx" /\ TxNext /\ UNCHANGED rxVars
     \/ side = "rx" /\ RxNext /\ UNCHANGED txVars

vars == <<txVars, rxVars, side>>
SideSpec == SideInit /\ [][SideNext]_vars

\* The properties of the transmit side say nothing once a GTS is lost.
UntilLost == ~gtsLost

\* Clients and fragments are only compared and stored.
EthSymmetry ==
  Permutations(Clients) \cup Permutations(TxFrags) \cup Permutations(RxFrags)
=============================================================================
