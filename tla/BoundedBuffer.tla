---------------------------- MODULE BoundedBuffer ----------------------------
(***************************************************************************)
(* The producer/consumer of the demos: a SharedBuffer guarded by the two   *)
(* counting semaphores empty_slots and full_slots and by a mutex.  Each    *)
(* process runs produce_frame or consume_frame over and over, one call of  *)
(* a primitive per step, in every interleaving.                            *)
(*                                                                         *)
(* Of the kernel only the BLOCKED state matters here: block_process and    *)
(* wake_process are the set `blocked`.  A call that blocked is repeated by *)
(* the script when the process is awake again, as phase 3 does.            *)
(***************************************************************************)
EXTENDS Integers, Sequences, FiniteSets, Functions

CONSTANTS Producers, Consumers, Capacity, None

ASSUME BufferAssumption ==
    /\ IsFiniteSet(Producers) /\ IsFiniteSet(Consumers)
    /\ Producers \cap Consumers = {} /\ None \notin Producers \cup Consumers
    /\ Capacity \in Nat \ {0}

VARIABLES
    count,      \* CountingSemaphore._count, of "empty" and of "full"
    queue,      \* CountingSemaphore._waiting_queue
    grants,     \* CountingSemaphore._pending_grants
    owner,      \* Lock._owner of the buffer mutex
    waiting,    \* Lock._waiting_queue
    items,      \* SharedBuffer._items; an item is the pid that produced it
    blocked,    \* processes in state BLOCKED
    pc          \* the call of produce_frame or consume_frame that comes next

semVars == <<count, queue, grants>>
lockVars == <<owner, waiting>>
vars == <<semVars, lockVars, items, blocked, pc>>

Users == Producers \cup Consumers
Sems == {"empty", "full"}

Init ==
    /\ count = [s \in Sems |-> IF s = "empty" THEN Capacity ELSE 0]
    /\ queue = [s \in Sems |-> <<>>]
    /\ grants = [s \in Sems |-> {}]
    /\ owner = None /\ waiting = <<>> /\ items = <<>>
    /\ blocked = {}
    /\ pc = [p \in Users |-> "idle"]

Goto(p, l) == pc' = [pc EXCEPT ![p] = l]

At(p, l) == p \notin blocked /\ pc[p] = l

Awaited(p) == IF p \in Producers THEN "empty" ELSE "full"       \* semaphore p waits on
Signalled(p) == IF p \in Producers THEN "full" ELSE "empty"     \* and the one it signals

-----------------------------------------------------------------------------
Begin(p) == At(p, "idle") /\ Goto(p, "wait") /\ UNCHANGED <<semVars, lockVars, items, blocked>>

(* CountingSemaphore.wait: a pending grant, else a permit, else the queue.  *)
WaitResumed(p, s) ==
    /\ p \in grants[s]
    /\ grants' = [grants EXCEPT ![s] = @ \ {p}]
    /\ Goto(p, "lock")
    /\ UNCHANGED <<count, queue, blocked>>

WaitAtZero(p, s) ==                                                 \* mutant
    /\ p \notin grants[s] /\ count[s] >= 0
    /\ count' = [count EXCEPT ![s] = @ - 1]
    /\ Goto(p, "lock")
    /\ UNCHANGED <<queue, grants, blocked>>

WaitOk(p, s) ==
    /\ p \notin grants[s] /\ count[s] > 0
    /\ count' = [count EXCEPT ![s] = @ - 1]
    /\ Goto(p, "lock")
    /\ UNCHANGED <<queue, grants, blocked>>

WaitBlocked(p, s) ==
    /\ p \notin grants[s] /\ count[s] <= 0
    /\ queue' = [queue EXCEPT ![s] = Append(@, p)]
    /\ blocked' = blocked \cup {p}
    /\ UNCHANGED <<count, grants, pc>>

Wait(p) ==
    /\ At(p, "wait")
    /\ LET s == Awaited(p) IN WaitResumed(p, s) \/ WaitOk(p, s) \/ WaitBlocked(p, s)
    /\ UNCHANGED <<lockVars, items>>

(* Lock.acquire: free, handed over by the release that woke p, or held.     *)
AcquireOk(p) ==
    /\ owner \in {None, p}
    /\ owner' = p /\ Goto(p, "work")
    /\ UNCHANGED <<waiting, blocked>>

AcquireBlocked(p) ==
    /\ owner \notin {None, p}
    /\ waiting' = Append(waiting, p)
    /\ blocked' = blocked \cup {p}
    /\ UNCHANGED <<owner, pc>>

Acquire(p) ==
    /\ At(p, "lock")
    /\ AcquireOk(p) \/ AcquireBlocked(p)
    /\ UNCHANGED <<semVars, items>>

(* SharedBuffer.produce and consume; the RuntimeError ends the script.      *)
HasRoom(p) == IF p \in Producers THEN Len(items) < Capacity ELSE items # <<>>

Work(p) ==
    /\ At(p, "work")
    /\ items' = IF ~ HasRoom(p) THEN items
                ELSE IF p \in Producers THEN Append(items, p) ELSE Tail(items)
    /\ Goto(p, IF HasRoom(p) THEN "unlock" ELSE "rejected")
    /\ UNCHANGED <<semVars, lockVars, blocked>>

UnlockWithoutWaking(p) ==                                           \* mutant
    /\ At(p, "unlock") /\ owner = p
    /\ owner' = IF waiting = <<>> THEN None ELSE Head(waiting)
    /\ waiting' = IF waiting = <<>> THEN <<>> ELSE Tail(waiting)
    /\ Goto(p, "signal")
    /\ UNCHANGED <<semVars, items, blocked>>

Unlock(p) ==
    /\ At(p, "unlock") /\ owner = p
    /\ \/ waiting = <<>> /\ owner' = None /\ UNCHANGED <<waiting, blocked>>
       \/ /\ waiting # <<>>
          /\ owner' = Head(waiting) /\ waiting' = Tail(waiting)
          /\ blocked' = blocked \ {Head(waiting)}
    /\ Goto(p, "signal")
    /\ UNCHANGED <<semVars, items>>

(* CountingSemaphore.signal: a handoff to the first waiter, or a permit.    *)
SignalCountingTwice(p, s) ==                                        \* mutant
    /\ queue[s] # <<>>
    /\ LET wakee == Head(queue[s]) IN
          /\ queue' = [queue EXCEPT ![s] = Tail(@)]
          /\ grants' = [grants EXCEPT ![s] = @ \cup {wakee}]
          /\ blocked' = blocked \ {wakee}
          /\ count' = [count EXCEPT ![s] = @ + 1]

SignalBarging(p, s) ==                                              \* mutant
    /\ queue[s] # <<>>
    /\ queue' = [queue EXCEPT ![s] = Tail(@)]
    /\ blocked' = blocked \ {Head(queue[s])}
    /\ count' = [count EXCEPT ![s] = @ + 1]
    /\ UNCHANGED grants

SignalHandoff(p, s) ==
    /\ queue[s] # <<>>
    /\ LET wakee == Head(queue[s]) IN
          /\ queue' = [queue EXCEPT ![s] = Tail(@)]
          /\ grants' = [grants EXCEPT ![s] = @ \cup {wakee}]
          /\ blocked' = blocked \ {wakee}
    /\ UNCHANGED count

SignalDespiteWaiters(p, s) ==                                       \* mutant
    /\ count' = [count EXCEPT ![s] = @ + 1]
    /\ UNCHANGED <<queue, grants, blocked>>

SignalCount(p, s) ==
    /\ queue[s] = <<>>
    /\ count' = [count EXCEPT ![s] = @ + 1]
    /\ UNCHANGED <<queue, grants, blocked>>

Signal(p) ==
    /\ At(p, "signal")
    /\ SignalHandoff(p, Signalled(p)) \/ SignalCount(p, Signalled(p))
    /\ Goto(p, "idle")
    /\ UNCHANGED <<lockVars, items>>

Step(p) == Wait(p) \/ Acquire(p) \/ Work(p) \/ Unlock(p) \/ Signal(p)

Next == \E p \in Users : Begin(p) \/ Step(p)

(* A script that has begun a frame makes its next call when the process is  *)
(* awake; nobody has to begin a frame.                                      *)
Fairness == \A p \in Users : WF_vars(Step(p))

Spec == Init /\ [][Next]_vars /\ Fairness

-----------------------------------------------------------------------------
TypeOK ==
    /\ count \in [Sems -> Nat] /\ queue \in [Sems -> Seq(Users)]
    /\ grants \in [Sems -> SUBSET Users]
    /\ owner \in Users \cup {None} /\ waiting \in Seq(Users)
    /\ items \in Seq(Producers) /\ blocked \subseteq Users
    /\ pc \in [Users -> {"idle", "wait", "lock", "work", "unlock", "signal", "rejected"}]

(* The buffer never raises: a producer past the semaphore finds a free slot *)
(* and a consumer an item, in every interleaving of the calls.              *)
NeverRejected == \A p \in Users : pc[p] # "rejected"

Between(S, labels) == Cardinality({p \in S : pc[p] \in labels})

(* Every slot is a permit, a pending grant, an item, or in the hands of one *)
(* process between its wait and its work or its work and its signal.        *)
PermitsConserved ==
    /\ count["empty"] + Cardinality(grants["empty"]) + Between(Producers, {"lock", "work"})
         + Len(items) + Between(Consumers, {"unlock", "signal"}) = Capacity
    /\ count["full"] + Cardinality(grants["full"]) + Between(Consumers, {"lock", "work"})
         + Between(Producers, {"unlock", "signal"}) = Len(items)

(* Nobody overtakes the queue of a semaphore: while a process waits there   *)
(* is no permit to take, and grants are for processes back at their wait.   *)
NoBarging ==
    \A s \in Sems :
        /\ queue[s] # <<>> => count[s] = 0
        /\ \A p \in grants[s] : At(p, "wait") /\ Awaited(p) = s

(* No wake-up is lost or misdirected: the blocked processes are exactly     *)
(* those in a queue, each in that of the call it is to repeat.              *)
BlockedExactlyQueued ==
    /\ blocked = Range(queue["empty"]) \cup Range(queue["full"]) \cup Range(waiting)
    /\ \A s \in Sems : \A p \in Range(queue[s]) : pc[p] = "wait" /\ Awaited(p) = s
    /\ \A p \in Range(waiting) : pc[p] = "lock"

(* The mutex excludes: one process at a time is between acquire and release. *)
MutualExclusion ==
    \A p, q \in Users : pc[p] \in {"work", "unlock"} /\ pc[q] \in {"work", "unlock"} => p = q

(* The buffer implements the channel: a process asks when it begins a frame *)
(* and is served when the item goes in or out.                              *)
Channel == INSTANCE BoundedChannel WITH
    chan <- items,
    asking <- {p \in Users : pc[p] \in {"wait", "lock", "work"}}

ImplementsChannel == Channel!ChanSpec

=============================================================================
