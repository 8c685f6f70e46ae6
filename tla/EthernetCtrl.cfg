SPECIFICATION EthSpec
CONSTANTS
  Clients = {c1}
  TxFrags = {f1, f2}
  TxDescriptors = 3
  MaxChain = 1
  EthernetPhy = FALSE
  NoTask = NoTask
  NoFrag = NoFrag
  RxFrags = {g1}
  RxDescriptors = 2
  NoActor = NoActor
  NoRxFrag = NoRxFrag
INVARIANT RunsReleased
