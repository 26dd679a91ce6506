---------------------------- MODULE MCIotSystem -----------------------------
(* One process may reserve nothing, which keeps an entry with no pages.     *)
EXTENDS IotSystem

MCBurst == [p \in Procs |-> 1]
MCArrival == [p \in Procs |-> 0]
MCAmounts == [p \in Procs |-> IF p = 1 THEN {0, 1} ELSE {1}]

=============================================================================
