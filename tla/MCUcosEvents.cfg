CONSTANTS
  a = a
  b = b
  c = c
  idle = idle
  x = x
  y = y
  m = m
  NULL = NULL
  RESERVED = RESERVED
  TCB <- MCTCB
  Idle = idle
  Prio <- MCPrio
  IdlePrio = 6
  Event <- MCEvent
  BasePrio <- MCBasePrio
  Kinds <- MCKinds
  PIP <- MCPIP
  Deletable = {x}
  Msg <- MCMsg
  Several <- MCSeveral
  MaxCnt = 1
  QSize = 1
  MaxQs = 1
  Ticks <- MCTicks
  AnyTime = FALSE
SPECIFICATION Spec
INVARIANTS
  TablesExact
  NobodyStranded
  MutexExact
