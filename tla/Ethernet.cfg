SPECIFICATION SideSpec
CONSTANTS
  Clients = {c1, c2}
  TxFrags = {f1, f2, f3}
  TxDescriptors = 4
  MaxChain = 2
  EthernetPhy = TRUE
  NoTask = NoTask
  NoFrag = NoFrag
  RxFrags = {g1, g2}
  RxDescriptors = 3
  NoActor = NoActor
  NoRxFrag = NoRxFrag
  Sides = {"tx", "rx"}
SYMMETRY EthSymmetry
CONSTRAINT UntilLost
INVARIANTS
  FragsInOnePlace
  SemNeverAhead
  TransmitterRuns
  RxFragsInOnePlace
  RxWorkNoticed
  ReceiverRuns
