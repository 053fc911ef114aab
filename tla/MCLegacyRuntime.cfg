SPECIFICATION Spec
CONSTANTS
  b1 = b1  b2 = b2
  Programs <- MCPrograms
  Charges = {1, 3}
  CyclesPerSample = 2
  CounterWrap = 3
  FirstDelay = 1
  DmaPeriod = 3
  MaxBlocks = 2
  Bases <- MCBases
  TransferDelay = 1
  NoAlarm = NoAlarm
INVARIANTS
  TypeOK
  OnePending
  BusyIsArmed
  AlarmOnTarget
  LinesAgree
  BufferKept
PROPERTIES
  InterruptAtEnd
  AdvanceReturns
  AlarmSpec
