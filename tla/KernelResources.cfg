SPECIFICATION Spec
CONSTANTS
  Tasks <- T3
  Resources <- Res3
  Events = {e1}
  NIL = NIL
  Levels <- Level3
  ReadyPrio <- Ready3
  DispatchPrio <- Dispatch3
  RnactMax <- Rnact1
  Extended = {"lo"}
  ResCeiling <- Ceil3
  AutostartQueue <- Auto3
  ChainTargets <- ChainNone
  MissingEnd = {"lo", "mid"}
INVARIANTS
  CeilingExact ResourceNeverContended SingleBlocking LockedMeansHeld
PROPERTIES
  OnlyOwnerReleases
