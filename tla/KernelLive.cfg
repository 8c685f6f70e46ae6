SPECIFICATION FairSpec
CONSTANTS
  Tasks <- T3
  Resources <- Res1
  Events = {}
  NIL = NIL
  Levels <- Level2
  ReadyPrio <- Ready2
  DispatchPrio <- Ready2
  RnactMax <- Rnact1
  Extended = {}
  ResCeiling <- Ceil1
  AutostartQueue <- Auto2
  ChainTargets <- ChainHiLo
  MissingEnd = {}
PROPERTIES
  TopPriorityRuns
