SPECIFICATION Spec
CONSTANTS
  Tasks <- T3
  Resources = {}
  Events = {}
  NIL = NIL
  Levels <- Level2
  ReadyPrio <- Ready2
  DispatchPrio <- Ready2
  RnactMax <- Rnact1
  Extended <- T3
  ResCeiling <- NoRes
  AutostartQueue <- Auto2
  ChainTargets <- ChainHiLo
  MissingEnd = {}
PROPERTIES
  ForceScheduleChecksLevel
