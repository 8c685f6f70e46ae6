SPECIFICATION Spec
CONSTANTS
  Tasks <- T3
  Resources = {}
  Events = {e1, e2}
  NIL = NIL
  Levels <- Level3
  ReadyPrio <- Ready3
  DispatchPrio <- Dispatch3
  RnactMax <- Rnact3
  Extended <- Ext3
  ResCeiling <- NoRes
  AutostartQueue <- Auto3
  ChainTargets <- Chain3
  MissingEnd = {"hi"}
INVARIANTS
  TypeOK StackOrdered StatusAgrees NoMissedPreemption
  ActivationAccounting NoLostWakeup
