CONSTANTS
  a = a
  b = b
  idle = idle
  events = events
  read_lock = read_lock
  write_lock = write_lock
  alt_heapsem = alt_heapsem
  alt_envsem = alt_envsem
  NULL = NULL
  RESERVED = RESERVED
  TCB <- MCTCB
  Idle = idle
  Prio <- MCPrio
  IdlePrio = 3
  Event <- MCEvent
  BasePrio <- MCBasePrio
  Roles <- MCRoles
  Group <- MCGroup
  Flag <- MCFlag
  Ticks <- MCTicks
  OtherSteps <- MCOtherSteps
  BufLen = 3
  Wrap = 6
  Paced = FALSE
SPECIFICATION HalSpec
PROPERTIES
  FullStopsReceive
