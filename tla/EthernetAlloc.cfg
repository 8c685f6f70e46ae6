SPECIFICATION TxSpec
CONSTANTS
  Clients = {c1}
  TxFrags = {f1, f2}
  TxDescriptors = 3
  MaxChain = 1
  EthernetPhy = FALSE
  NoTask = NoTask
  NoFrag = NoFrag
PROPERTY AllocReturns
CHECK_DEADLOCK FALSE
