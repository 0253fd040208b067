------------------------------- MODULE MCJtag -------------------------------
EXTENDS JtagUart, TLC

CONSTANTS a, b, idle

MCTCB == {a, b, idle}
MCPrio == {1, 2}
MCBasePrio == [t \in MCTCB |-> IF t = a THEN 1 ELSE IF t = b THEN 2 ELSE 3]
MCRoles ==
  LET R(r, s, n, sleeps) ==
        [t \in MCTCB |-> [does |-> IF t = a THEN r ELSE IF t = b THEN s ELSE "none",
                          len |-> n, sleeps |-> t = a /\ sleeps]]
  IN  {R("write", "none", 2, FALSE), R("write", "write", 1, FALSE), R("write", "try", 1, TRUE), R("read", "read", 1, FALSE),
       R("poll", "read", 1, TRUE), R("write", "ioctl", 1, FALSE)}
MCEvent == {read_lock, write_lock}
MCGroup == {events}
MCFlag == {"READ_RDY", "WRITE_RDY", "TIMEOUT"}
MCTicks == {1}
MCTimeouts == {0, 2}
MCNeverTimeouts == {0}  \* Forever
=============================================================================
