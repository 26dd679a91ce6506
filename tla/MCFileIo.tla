------------------------------ MODULE MCFileIo ------------------------------
(* Three processes on two files under round robin: jobs of different length *)
(* complete out of order or in one tick, and a waiter is handed a lock.     *)
EXTENDS FileIo

MCBurst == [p \in Procs |-> IF p = 1 THEN 2 ELSE 1]
MCArrival == [p \in Procs |-> 0]

=============================================================================
