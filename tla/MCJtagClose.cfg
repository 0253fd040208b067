CONSTANTS
  a = a
  b = b
  idle = idle
  events = events
  read_lock = read_lock
  write_lock = write_lock
  NULL = NULL
  RESERVED = RESERVED
  TCB <- MCTCB
  Idle = idle
  Prio <- MCPrio
  IdlePrio = 3
  Event <- MCEvent
  BasePrio <- MCBasePrio
  Roles <- MCRoles
  Group <- MCGroup
  Flag <- MCFlag
  Ticks <- MCTicks
  BufLen = 3
  FifoLen = 1
  Threshold = 0
  Wrap = 3
  DefaultTimeout = 2
  MaxInactive = 2
  Timeouts <- MCTimeouts
SPECIFICATION Spec
PROPERTY
  CloseReturns
