SPECIFICATION SemSpec
CONSTANTS
  Tasks <- SemTasks
  Resources = {}
  Events = {e1}
  NIL = NIL
  Levels <- SemLevels
  ReadyPrio <- SemReady
  DispatchPrio <- SemDispatch
  RnactMax <- SemRnact
  Extended = {"lo","mid"}
  ResCeiling <- NoRes
  AutostartQueue <- SemAuto
  ChainTargets <- SemChain
  MissingEnd = {}
  Sems = {"s1", "s2"}
  MaxSemCounter = 1
  InitCount <- SemInitCount
INVARIANTS
  SemTypeOK StackLinked WaitsInOnePlace KernelAgrees
PROPERTY
  ImplementsFifo
