------------------------------ MODULE MCPaging ------------------------------
EXTENDS Paging

MCBurst == [p \in Procs |-> IF p = 1 THEN 2 ELSE 1]
MCArrival == [p \in Procs |-> 0]
MCAmounts == [p \in Procs |-> CASE p = 1 -> {1, 3} [] p = 2 -> {1} [] OTHER -> {0, 3}]

=============================================================================
