SPECIFICATION PartSpec
CONSTANTS
  Tasks <- T
  NIL = NIL
  rq_link <- Link
  RnactMax <- Rnact
  Pairs = 4
  Alarms <- A3
  maxallowedvalue = 2
  mincycle = 1
  AutostartAlarms <- AutoList
  AutostartCycle <- Auto
  ErrorHook = FALSE
  Parts = {"ready", "alarms"}
INVARIANTS
  PoolPartitioned
  MaskHeadTailAgree
  FreePairLeft
  TypeOK
  UsedMeansQueued
PROPERTIES
  FifoSpec
  TimesSpec
  ArmedAsAsked
