SPECIFICATION LoopSpec
CONSTANTS
  Timers <- TimersDef
  Interval <- IntervalDef
  TimeMod = 9
  MaxTurn = 2
  Keys <- KeysDef
  NoKey = NoKey
INVARIANTS
  LoopTypeOK
  CalledOnTime
PROPERTIES
  OneReportPerPress
  HeldIsReported
