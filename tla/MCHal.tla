------------------------------- MODULE MCHal -------------------------------
EXTENDS HalLocks, TLC

CONSTANTS a, b, idle

MCTCB == {a, b, idle}
MCPrio == {1, 2}
MCBasePrio == [t \in MCTCB |-> IF t = a THEN 1 ELSE IF t = b THEN 2 ELSE 3]
MCRoles ==
  LET R(r, s, n) == [t \in MCTCB |-> [does |-> IF t = a THEN r ELSE IF t = b THEN s ELSE "none",
                                     len  |-> n]]
  IN  {R("write", "poll", 1), R("try", "read", 1), R("read", "read", 2), R("read", "poll", 2),
       R("write", "write", 2), R("write", "try", 2), R("set", "set", 0), R("clear", "clear", 0),
       R("heap", "heap", 2), R("env", "env", 1)}
MCEvent == {read_lock, write_lock, alt_heapsem, alt_envsem}
MCGroup == {events}
MCFlag == {"READ_RDY", "WRITE_RDY"}
MCTicks == {1}
MCOtherSteps == LockSteps
=============================================================================
