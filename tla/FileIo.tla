-------------------------------- MODULE FileIo --------------------------------
(***************************************************************************)
(* Files, their exclusive locks and the simulated device: blocking I/O     *)
(* takes the lock of the file, queues a job and blocks the caller; a tick  *)
(* counts every job down and completes those that are due, in the order    *)
(* they were queued, before it dispatches a process.                       *)
(*                                                                         *)
(* A file is a member of Files: contents, directories and metadata are     *)
(* left out.  A call on a missing file returns at once and changes nothing.*)
(* The scripts start I/O for processes that are READY or RUNNING.          *)
(***************************************************************************)
EXTENDS Kernel

CONSTANTS
    Files,
    Latencies,      \* io_ticks of a call
    MaxOpen,        \* bound: descriptors a process has on one file
    Openers,        \* processes that open files
    Killable        \* processes a script may terminate

ASSUME FileIoAssumption ==
    /\ Latencies \subseteq Nat \ {0} /\ MaxOpen \in Nat
    /\ Openers \subseteq Procs /\ Killable \subseteq Procs

VARIABLES
    exists,         \* FileSystem._files
    lockOwner,      \* _Inode.lock_owner
    lockWaiters,    \* _Inode.lock_waiters
    openCount,      \* FileMetadata.open_count
    fds,            \* Simulation._open_by_fd: descriptors per process and file
    jobs            \* Simulation._pending_file_io

fileVars == <<exists, lockOwner, lockWaiters, openCount, fds, jobs>>
fileIoVars == <<kernelVars, fileVars>>

Ops == {"transfer", "delete"}       \* read, write and append differ in contents only

FileIoInit ==
    /\ KernelInit
    /\ exists = [f \in Files |-> FALSE]
    /\ lockOwner = [f \in Files |-> None]
    /\ lockWaiters = [f \in Files |-> <<>>]
    /\ openCount = [f \in Files |-> 0]
    /\ fds = [p \in Openers |-> [f \in Files |-> 0]]
    /\ jobs = <<>>

-----------------------------------------------------------------------------
Create(f) ==
    /\ ~ exists[f]
    /\ exists' = [exists EXCEPT ![f] = TRUE]
    /\ openCount' = [openCount EXCEPT ![f] = 0]
    /\ lockOwner' = [lockOwner EXCEPT ![f] = None]
    /\ lockWaiters' = [lockWaiters EXCEPT ![f] = <<>>]
    /\ UNCHANGED <<kernelVars, fds, jobs>>

DeletableIfUnlocked(f, there, own) == there[f] /\ own[f] = None      \* mutant

DeletableIfClosed(f, there, own) == there[f] /\ openCount[f] = 0      \* mutant

Deletable(f, there, own) == there[f] /\ openCount[f] = 0 /\ own[f] = None

Delete(f) ==
    /\ Deletable(f, exists, lockOwner)
    /\ exists' = [exists EXCEPT ![f] = FALSE]
    /\ UNCHANGED <<kernelVars, lockOwner, lockWaiters, openCount, fds, jobs>>

Open(p, f) ==
    /\ exists[f] /\ fds[p][f] < MaxOpen
    /\ fds' = [fds EXCEPT ![p][f] = @ + 1]
    /\ openCount' = [openCount EXCEPT ![f] = @ + 1]
    /\ UNCHANGED <<kernelVars, exists, lockOwner, lockWaiters, jobs>>

CountAfterClose(f) == IF exists[f] /\ openCount[f] > 0 THEN openCount[f] - 1 ELSE openCount[f]

Close(p, f) ==
    /\ fds[p][f] > 0
    /\ fds' = [fds EXCEPT ![p][f] = @ - 1]
    /\ openCount' = [openCount EXCEPT ![f] = CountAfterClose(f)]
    /\ UNCHANGED <<kernelVars, exists, lockOwner, lockWaiters, jobs>>

(* file_blocking_read, write, append and delete: with the lock the caller   *)
(* queues its job; without, it joins the waiters of the lock.               *)
QueueWithoutBlocking(p, f, op, t) ==                                \* mutant
    /\ lockOwner[f] \in {None, p} /\ Len(jobs) < Cardinality(Procs)
    /\ lockOwner' = [lockOwner EXCEPT ![f] = p]
    /\ jobs' = Append(jobs, [pid |-> p, path |-> f, op |-> op, ticks |-> t])
    /\ UNCHANGED <<kernelVars, lockWaiters>>

QueueJob(p, f, op, t) ==
    /\ lockOwner[f] \in {None, p}
    /\ lockOwner' = [lockOwner EXCEPT ![f] = p]
    /\ jobs' = Append(jobs, [pid |-> p, path |-> f, op |-> op, ticks |-> t])
    /\ BlockProcess(p)
    /\ UNCHANGED lockWaiters

AwaitLock(p, f) ==
    /\ lockOwner[f] \notin {None, p}
    /\ lockWaiters' = [lockWaiters EXCEPT ![f] = IF p \in Range(@) THEN @ ELSE Append(@, p)]
    /\ BlockProcess(p)
    /\ UNCHANGED <<lockOwner, jobs>>

StartIo(p, f) ==
    /\ state[p] \in {"READY", "RUNNING"} /\ exists[f]
    /\ (\E op \in Ops, t \in Latencies : QueueJob(p, f, op, t)) \/ AwaitLock(p, f)
    /\ UNCHANGED <<exists, openCount, fds>>

-----------------------------------------------------------------------------
(* The timers of a tick.  `s` is what the loop over the jobs has got to:   *)
(* the files and their locks, the jobs left, and in `cpu` the process       *)
(* states and the ready queue.                                              *)
Wake(cpu, p) == [st |-> WakeState(cpu.st, p), rq |-> WakeQueue(cpu.st, cpu.rq, p)]

(* release_exclusive_lock of p, who need not own the lock.                  *)
ReleaseWithoutWaking(s, p, f) ==                                    \* mutant
    IF ~ s.there[f] \/ s.own[f] # p THEN s
    ELSE IF s.wait[f] = <<>> THEN [s EXCEPT !.own[f] = None]
    ELSE [s EXCEPT !.own[f] = Head(s.wait[f]), !.wait[f] = Tail(@)]

ReleaseFile(s, p, f) ==
    IF ~ s.there[f] \/ s.own[f] # p THEN s
    ELSE IF s.wait[f] = <<>> THEN [s EXCEPT !.own[f] = None]
    ELSE [s EXCEPT !.own[f] = Head(s.wait[f]), !.wait[f] = Tail(@),
                   !.cpu = Wake(@, Head(s.wait[f]))]

(* The deferred delete is attempted before the lock is released.            *)
Applied(s, job) ==
    IF job.op = "delete" /\ Deletable(job.path, s.there, s.own)
    THEN [s EXCEPT !.there[job.path] = FALSE] ELSE s

CompleteWithoutWaking(s, job) == ReleaseFile(Applied(s, job), job.pid, job.path)  \* mutant

CompleteIo(s, job) ==
    [ReleaseFile(Applied(s, job), job.pid, job.path) EXCEPT !.cpu = Wake(@, job.pid)]

AdvanceOneTooFar(s, job) ==                                         \* mutant
    IF job.ticks > 0 THEN [s EXCEPT !.left = Append(@, [job EXCEPT !.ticks = @ - 1])]
    ELSE CompleteIo(s, job)

Advance(s, job) ==
    IF job.ticks > 1 THEN [s EXCEPT !.left = Append(@, [job EXCEPT !.ticks = @ - 1])]
    ELSE CompleteIo(s, job)

BeforeIoTimers(st, rq) ==
    [there |-> exists, own |-> lockOwner, wait |-> lockWaiters, left |-> <<>>,
     cpu |-> [st |-> st, rq |-> rq]]

AfterIoTimers(st, rq) ==
    LET passed[n \in 0..Len(jobs)] ==
            IF n = 0 THEN BeforeIoTimers(st, rq) ELSE Advance(passed[n - 1], jobs[n])
    IN  passed[Len(jobs)]

FilesBecome(s) == exists' = s.there /\ lockOwner' = s.own /\ lockWaiters' = s.wait /\ jobs' = s.left

FileTick ==
    /\ \E s \in {AfterIoTimers(state, ready)}, eff \in [Procs -> Weights] :
          FilesBecome(s) /\ CpuStep(s.cpu.st, s.cpu.rq, eff, {})
    /\ UNCHANGED <<openCount, fds>>

FileAdmit(p) == Admit(p) /\ UNCHANGED fileVars

FileTerminate(p) == Terminate(p) /\ UNCHANGED fileVars

FileIoNext ==
    \/ \E p \in Procs : FileAdmit(p)
    \/ \E p \in Killable : FileTerminate(p)
    \/ \E f \in Files : Create(f) \/ Delete(f)
    \/ \E p \in Openers, f \in Files : Open(p, f) \/ Close(p, f)
    \/ \E p \in Procs, f \in Files : StartIo(p, f)
    \/ FileTick

(* The drivers tick as long as I/O is pending.                              *)
FileIoSpec == FileIoInit /\ [][FileIoNext]_fileIoVars /\ WF_fileIoVars(FileTick)

-----------------------------------------------------------------------------
FileTypeOK ==
    /\ exists \in [Files -> BOOLEAN]
    /\ lockOwner \in [Files -> Procs \cup {None}] /\ lockWaiters \in [Files -> Seq(Procs)]
    /\ openCount \in [Files -> Nat] /\ fds \in [Openers -> [Files -> 0..MaxOpen]]
    /\ jobs \in Seq([pid : Procs, path : Files, op : Ops, ticks : Nat \ {0}])

(* The device works for those who hold the lock: a pending job's caller     *)
(* owns the file until the job completes, has no other job, and is parked.  *)
JobsHoldLocks ==
    \A i \in DOMAIN jobs :
        /\ lockOwner[jobs[i].path] = jobs[i].pid
        /\ state[jobs[i].pid] \in {"BLOCKED", "TERMINATED"}
        /\ \A j \in DOMAIN jobs : jobs[i].pid = jobs[j].pid => i = j

(* Nobody waits for a free lock, or twice, or in two places, or for I/O and *)
(* a lock at once.                                                          *)
WaitersOnHeldLocks ==
    \A f \in Files : \A i \in DOMAIN lockWaiters[f] : LET w == lockWaiters[f][i] IN
        /\ lockOwner[f] \notin {None, w}
        /\ \A g \in Files : \A j \in DOMAIN lockWaiters[g] : lockWaiters[g][j] = w => f = g /\ i = j
        /\ \A j \in DOMAIN jobs : jobs[j].pid # w

(* Each job is its caller's alone and under the lock, and everybody who     *)
(* waits for a lock waits for one that will be released to him.             *)
DeviceUnderLocks == JobsHoldLocks /\ WaitersOnHeldLocks

(* No wake-up is lost: a process that is BLOCKED has a job in the device or *)
(* a place among the waiters of a file.                                     *)
BlockedHasReason ==
    \A p \in Procs : state[p] = "BLOCKED" =>
        \/ \E i \in DOMAIN jobs : jobs[i].pid = p
        \/ \E f \in Files : p \in Range(lockWaiters[f])

(* A file in use is there: no delete, immediate or deferred, takes a file   *)
(* from under a descriptor, a lock or a job.                                *)
InUseExists ==
    \A f \in Files :
        \/ lockOwner[f] # None \/ lockWaiters[f] # <<>>
        \/ \E p \in Openers : fds[p][f] > 0
        \/ \E i \in DOMAIN jobs : jobs[i].path = f
        => exists[f]

(* The open count kept in the inode and the descriptor table agree, across  *)
(* the deletion of a file and its creation anew.                            *)
OpenCountMatchesFds ==
    \A f \in Files : openCount[f] = SumFunction([p \in Openers |-> fds[p][f]])

(* I/O ends: every job completes and its caller is awake again, or gone.    *)
IoCompletes ==
    \A p \in Procs :
        (\E i \in DOMAIN jobs : jobs[i].pid = p) ~>
            (state[p] # "BLOCKED" /\ \A i \in DOMAIN jobs : jobs[i].pid # p)

(* A delete hits the tree when its I/O completes: a file nobody has open or *)
(* waits for is gone after the tick in which its delete is due.             *)
DeleteTakesEffect ==
    [][\A i \in DOMAIN jobs :
          /\ jobs[i].op = "delete" /\ jobs[i].ticks <= 1 /\ Len(jobs') < Len(jobs)
          /\ openCount[jobs[i].path] = 0 /\ lockWaiters[jobs[i].path] = <<>>
          => ~ exists'[jobs[i].path]]_fileIoVars

=============================================================================
