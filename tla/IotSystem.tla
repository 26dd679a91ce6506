----------------------------- MODULE IotSystem ------------------------------
(***************************************************************************)
(* The simulator as one system: paging, a semaphore, mutexes and blocking  *)
(* file I/O over one kernel, as in the final demo.  A tick counts the page *)
(* faults down, then the file jobs, then dispatches; between two ticks the *)
(* scripts make one call after the other.                                  *)
(*                                                                         *)
(* No call looks at the state of the process it is made for.  The demos    *)
(* make the calls that may block for processes that are awake only, and    *)
(* IotSpec is the system under such scripts; AnyCallerSpec is the system   *)
(* under scripts that make them for any process at any time.               *)
(*                                                                         *)
(* Every one of the four wakes processes through the same port, which asks *)
(* only whether the process is BLOCKED, never for what.  Files stay, and   *)
(* the priorities do not matter here: both are in modules of their own.    *)
(***************************************************************************)
EXTENDS Paging, FifoLock

CONSTANTS
    Files, Latencies,
    MaxPermits,     \* bound: scripts signal no further
    MaxQueue        \* bound: places in a queue, for callers that are queued again

ASSUME IotAssumption ==
    Latencies \subseteq Nat \ {0} /\ MaxPermits \in Nat /\ MaxQueue \in Nat

VARIABLES
    lockOwner,      \* _Inode.lock_owner
    lockWaiters,    \* _Inode.lock_waiters
    ioJobs,         \* Simulation._pending_file_io
    permits,        \* CountingSemaphore._count
    semQueue,       \* CountingSemaphore._waiting_queue
    granted         \* CountingSemaphore._pending_grants

deviceVars == <<lockOwner, lockWaiters, ioJobs>>
semVars == <<permits, semQueue, granted>>
iotVars == <<pagingVars, lockVars, deviceVars, semVars>>

Fi == INSTANCE FileIo WITH
    Openers <- {}, MaxOpen <- 0, jobs <- ioJobs,
    exists <- [f \in Files |-> TRUE], openCount <- [f \in Files |-> 0], fds <- <<>>

IotInit ==
    /\ PagingInit /\ LockInit
    /\ lockOwner = [f \in Files |-> None] /\ lockWaiters = [f \in Files |-> <<>>]
    /\ ioJobs = <<>>
    /\ permits = 0 /\ semQueue = <<>> /\ granted = {}

Awake(p) == state[p] \in {"READY", "RUNNING"}

-----------------------------------------------------------------------------
SemWait(p) ==
    \/ /\ p \in granted
       /\ granted' = granted \ {p} /\ UNCHANGED <<kernelVars, permits, semQueue>>
    \/ /\ p \notin granted /\ permits > 0
       /\ permits' = permits - 1 /\ UNCHANGED <<kernelVars, semQueue, granted>>
    \/ /\ p \notin granted /\ permits <= 0
       /\ semQueue' = Append(semQueue, p) /\ BlockProcess(p) /\ UNCHANGED <<permits, granted>>

SignalKeepingWaiter ==                                              \* mutant
    \/ /\ semQueue # <<>>
       /\ granted' = granted \cup {Head(semQueue)}
       /\ WakeProcess(Head(semQueue)) /\ UNCHANGED <<permits, semQueue>>
    \/ /\ semQueue = <<>> /\ permits < MaxPermits
       /\ permits' = permits + 1 /\ UNCHANGED <<kernelVars, semQueue, granted>>

SemSignal ==
    \/ /\ semQueue # <<>>
       /\ semQueue' = Tail(semQueue) /\ granted' = granted \cup {Head(semQueue)}
       /\ WakeProcess(Head(semQueue)) /\ UNCHANGED permits
    \/ /\ semQueue = <<>> /\ permits < MaxPermits
       /\ permits' = permits + 1 /\ UNCHANGED <<kernelVars, semQueue, granted>>

StartTransfer(p, f) ==
    (\E t \in Latencies : Fi!QueueJob(p, f, "transfer", t)) \/ Fi!AwaitLock(p, f)

IotTick ==
    /\ \E faults \in {AfterFaultTimers} : \E io \in {Fi!AfterIoTimers(faults.st, faults.rq)},
          touch \in Touches, eff \in [Procs -> Weights] :
          /\ Fi!FilesBecome(io)
          /\ DispatchPaged([faults EXCEPT !.st = io.cpu.st, !.rq = io.cpu.rq], touch, eff)
    /\ UNCHANGED <<lockVars, semVars>>

KernelCall == (\E p \in Procs : Admit(p)) \/ (\E p \in Killable : Terminate(p))

MemoryCall == \E p \in Procs : (\E amount \in Amounts[p] : Allocate(p, amount)) \/ ScriptFrees(p)

(* The calls that may block are made for the processes in C.                *)
LockCall(C) ==
    \E l \in Locks :
        \/ \E p \in C : Contend(p, l)
        \/ \E p \in Procs : Take(p, l) \/ Free(p, l) \/ HandOver(p, l)

SemCall(C) == (\E p \in C : SemWait(p)) \/ SemSignal

FileCall(C) == \E p \in C, f \in Files : StartTransfer(p, f)

IotStep(C) ==
    \/ KernelCall /\ UNCHANGED <<memoryVars, lockVars, deviceVars, semVars>>
    \/ MemoryCall /\ UNCHANGED <<lockVars, deviceVars, semVars>>
    \/ LockCall(C) /\ UNCHANGED <<memoryVars, deviceVars, semVars>>
    \/ SemCall(C) /\ UNCHANGED <<memoryVars, lockVars, deviceVars>>
    \/ FileCall(C) /\ UNCHANGED <<memoryVars, lockVars, semVars>>
    \/ IotTick

AwakeProcs == {p \in Procs : Awake(p)}

IotNext == IotStep(AwakeProcs)

IotSpec == IotInit /\ [][IotNext]_iotVars /\ WF_iotVars(IotTick)

QueuesWithinBound ==
    /\ Len(semQueue') <= MaxQueue /\ Len(ioJobs') <= MaxQueue
    /\ \A l \in Locks : Len(waiting'[l]) <= MaxQueue

AnyCallerNext == IotStep(Procs) /\ QueuesWithinBound

AnyCallerSpec == IotInit /\ [][AnyCallerNext]_iotVars

-----------------------------------------------------------------------------
(* What a process may be waiting for.                                       *)
Reasons(p) ==
    {<<"page", i>> : i \in {k \in DOMAIN jobs : Owner(jobs[k].page) = p}}
    \cup {<<"io", i>> : i \in {k \in DOMAIN ioJobs : ioJobs[k].pid = p}}
    \cup {<<"permit", i>> : i \in {k \in DOMAIN semQueue : semQueue[k] = p}}
    \cup {<<"lock", l>> : l \in {k \in Locks : p \in Range(waiting[k])}}
    \cup {<<"file", f>> : f \in {k \in Files : p \in Range(lockWaiters[k])}}

(* Wake-ups carry no reason, so each must be the only one its process can   *)
(* get: a BLOCKED process waits for exactly one thing, and one that is      *)
(* awake for nothing.  Otherwise a page-in would wake a process that waits  *)
(* for a lock, which runs on without it and joins the waiters twice.        *)
OneReason ==
    \A p \in Procs :
        /\ state[p] = "BLOCKED" => Cardinality(Reasons(p)) = 1
        /\ Awake(p) => Reasons(p) = {}


(* The waiters of a lock are off the CPU in this system, where none of them *)
(* was NEW.                                                                 *)
WaitersParked ==
    /\ WaitersQueued
    /\ \A l \in Locks : \A w \in Range(waiting[l]) : state[w] \in {"BLOCKED", "TERMINATED"}

(* So the locks, the device and the semaphore keep in the composed system   *)
(* what they promise alone, and the set of pending grants loses none: no    *)
(* process is queued twice or queued with a grant it has not taken.         *)
WaitersSound ==
    /\ WaitersParked
    /\ Fi!DeviceUnderLocks
    /\ NoRepeats(semQueue) /\ Range(semQueue) \cap granted = {}
    /\ semQueue # <<>> => permits = 0

=============================================================================
