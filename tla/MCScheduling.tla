---------------------------- MODULE MCScheduling ----------------------------
(* Three processes, one that arrives a tick later, one with nothing to      *)
(* execute, and one of a negative priority, which starts on a level with    *)
(* the priority 0 of the second; a long burst of the higher one for the run *)
(* on aging.                                                                *)
EXTENDS Scheduling

MCBurst == [p \in Procs |-> CASE p = 1 -> 3 [] p = 2 -> 2 [] OTHER -> 0]
MCArrival == [p \in Procs |-> IF p = 2 THEN 1 ELSE 0]
MCBase == [p \in Procs |-> IF p = 1 THEN 1 ELSE 2]
MCSignedBase == [p \in Procs |-> CASE p = 1 -> -1 [] p = 2 -> 1 [] OTHER -> 0]
MCLongBurst == [p \in Procs |-> IF p = 1 THEN 3 ELSE 9]
MCNoArrival == [p \in Procs |-> 0]

=============================================================================
