SPECIFICATION Spec
CONSTANTS
  Alarms <- A3
  maxallowedvalue = 2
  mincycle = 1
  AutostartAlarms <- AutoList
  AutostartCycle <- Auto
  ErrorHook = TRUE
INVARIANTS
  GetAlarmFinds
