---------------------------- MODULE MCUcosEvents ---------------------------
EXTENDS UcosEvents, TLC

CONSTANTS a, b, c, idle, x, y, m

MCTCB == {a, b, idle}
MCPrio == {1, 2, 3, 4, 5}
MCBasePrio == [t \in MCTCB |-> CASE t = a -> 3 [] t = b -> 4 [] t = c -> 5 [] t = idle -> 6]
MCEvent == {x, y}
MCKinds ==
  {k \in [MCEvent -> {"SEM", "MBOX", "Q", "MUTEX", "UNUSED"}] :
     k[y] \in {"Q", "MUTEX"} /\ (k[x] # "Q" \/ k[y] # "Q")}
MCSeveral == {{x, y}}
MCMsg == {m}
MCTicks == {1}
MCPIP == {1, 2}
=============================================================================
