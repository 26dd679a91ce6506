------------------------------ MODULE MCKernel ------------------------------
(* Small instances of the kernel: bursts that end before, at and after the  *)
(* end of a quantum of 2.                                                   *)
EXTENDS Kernel

MCBurst == [p \in Procs |-> IF p = 1 THEN 3 ELSE 2]
MCArrival == [p \in Procs |-> 0]

=============================================================================
