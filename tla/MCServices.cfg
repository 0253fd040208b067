CONSTANTS
  ta = ta
  tb = tb
  idle = idle
  sem = sem
  NULL = NULL
  RESERVED = RESERVED
  k1 = k1
  k2 = k2
  k3 = k3
  k4 = k4
  k5 = k5
  DATA = DATA
  NUL = NUL
  NODEV = NODEV
  NONE = NONE
  NOTHING = NOTHING
  TCB <- MCTCB
  Idle = idle
  Prio <- MCPrio
  IdlePrio = 4
  Event <- MCEvent
  First <- MCFirst
  FirstPrio <- MCFirstPrio
  Ticks <- MCTicks
  MaxNesting = 1
  MaxCnt = 1
SPECIFICATION PartsSpec
INVARIANTS
  KernelTablesExact
  RunsMostUrgent
  KernelReports
  DescriptorsExact
  TimeIsKept
  BootIsSound
  FlashHoldsWhatWasWritten
  TransfersAreExact
