------------------------------ MODULE FifoLock ------------------------------
(***************************************************************************)
(* The lock of concurrency/locks.py with its SyncPorts connected to the    *)
(* kernel: contention queues and blocks the caller, release hands the lock *)
(* to the first waiter and wakes it.                                       *)
(*                                                                         *)
(* Neither asks for the state of the process it is called for.  A caller   *)
(* that is still NEW is queued and stays NEW: the port blocks only what is *)
(* READY or RUNNING.  For whom the scripts call is up to the modules that  *)
(* compose the lock with them.                                             *)
(***************************************************************************)
EXTENDS Kernel

CONSTANT Locks

VARIABLES
    owner,      \* Lock._owner
    waiting     \* Lock._waiting_queue

lockVars == <<owner, waiting>>

LockInit ==
    /\ owner = [l \in Locks |-> None]
    /\ waiting = [l \in Locks |-> <<>>]

Take(p, l) ==
    /\ owner[l] = None
    /\ owner' = [owner EXCEPT ![l] = p]
    /\ UNCHANGED <<kernelVars, waiting>>

ContendWithoutBlocking(p, l) ==                                     \* mutant
    /\ owner[l] \notin {None, p}
    /\ Len(waiting[l]) < Cardinality(Procs)
    /\ waiting' = [waiting EXCEPT ![l] = Append(@, p)]
    /\ UNCHANGED <<kernelVars, owner>>

Contend(p, l) ==
    /\ owner[l] \notin {None, p}
    /\ waiting' = [waiting EXCEPT ![l] = Append(@, p)]
    /\ BlockProcess(p)
    /\ UNCHANGED owner

FreeDespiteWaiters(p, l) ==                                         \* mutant
    /\ owner[l] = p
    /\ owner' = [owner EXCEPT ![l] = None]
    /\ UNCHANGED <<kernelVars, waiting>>

Free(p, l) ==
    /\ owner[l] = p /\ waiting[l] = <<>>
    /\ owner' = [owner EXCEPT ![l] = None]
    /\ UNCHANGED <<kernelVars, waiting>>

HandOverWithoutWaking(p, l) ==                                      \* mutant
    /\ owner[l] = p /\ waiting[l] # <<>>
    /\ owner' = [owner EXCEPT ![l] = Head(waiting[l])]
    /\ waiting' = [waiting EXCEPT ![l] = Tail(@)]
    /\ UNCHANGED kernelVars

HandOver(p, l) ==
    /\ owner[l] = p /\ waiting[l] # <<>>
    /\ owner' = [owner EXCEPT ![l] = Head(waiting[l])]
    /\ waiting' = [waiting EXCEPT ![l] = Tail(@)]
    /\ WakeProcess(owner'[l])

-----------------------------------------------------------------------------
LockTypeOK ==
    /\ owner \in [Locks -> Procs \cup {None}]
    /\ waiting \in [Locks -> Seq(Procs)]

Waits(p) == \E l \in Locks : p \in Range(waiting[l])

(* A lock that someone waits for is held, so that a release will hand it    *)
(* on; its waiters wait in one place, once, and not for themselves.         *)
WaitersQueued ==
    \A l \in Locks : \A i \in DOMAIN waiting[l] :
        /\ owner[l] \notin {None, waiting[l][i]}
        /\ \A m \in Locks : \A j \in DOMAIN waiting[m] :
               waiting[l][i] = waiting[m][j] => l = m /\ i = j

=============================================================================
