------------------------------- MODULE MCMutex -------------------------------
(* Three processes of three priorities, as in the stress scenario of phase 5. *)
EXTENDS Mutex

MCBurst == [p \in Procs |-> 2]
MCArrival == [p \in Procs |-> 0]
MCBase == [p \in Procs |-> p]

=============================================================================
