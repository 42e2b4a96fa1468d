SPECIFICATION Spec
CONSTANTS
  Sessions <- MCSessions
  Steps <- MCSteps
  Registers <- MCRegisters
  Width = 16
  ByteBase = 2
  PMEM_BASE = 16
  MEMSIZE = 8
  CLINT_MMIO = 32
  SERIAL_MMIO = 56
  TimerPeriod = 1
  MaxBubbles = 1
  Handler = 8
  NR_WP = 2
INVARIANTS
  AlarmIsReal
  FaultsAreCaught
  ExitTellsAlarm
  ValueIsMeant
PROPERTY BusIsBytes
CHECK_DEADLOCK FALSE
