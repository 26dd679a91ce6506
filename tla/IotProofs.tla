------------------------------ MODULE IotProofs ------------------------------
(***************************************************************************)
(* Proofs about IotSystem: paging, mutexes, a semaphore and blocking file  *)
(* I/O wake processes through one port that does not ask for what they     *)
(* wait, and still nobody is woken from a wait that is not over.           *)
(*                                                                         *)
(* Each component keeps the processes that wait for it as a set.  The      *)
(* invariant says that the four sets are disjoint sets of parked           *)
(* processes; every step adds to one of them processes that were not       *)
(* parked, or takes out of them processes it wakes.                        *)
(***************************************************************************)
EXTENDS IotSystem, PagingProofs

(* The lemmas about the device, for the files of this system.  They hold    *)
(* under the assumptions of FileIo, which DeviceAssumptions discharges.     *)
Fp == INSTANCE FileIoProofs WITH
    Openers <- {}, MaxOpen <- 0, jobs <- ioJobs,
    exists <- [f \in Files |-> TRUE], openCount <- [f \in Files |-> 0], fds <- <<>>

LEMMA DeviceAssumptions == Fp!KernelAssumption /\ Fp!FileIoAssumption
<1>1. Fp!KernelAssumption
  BY KernelAssumption DEF Fp!KernelAssumption, Fp!IsFiniteSet, IsFiniteSet
<1>2. Fp!FileIoAssumption
  BY KernelAssumption, PagingAssumption, IotAssumption DEF Fp!FileIoAssumption
<1>3. QED
  BY <1>1, <1>2

(* An instance has operators of its own.                                    *)
LEMMA SameOperators ==
    /\ \A s : Fp!Range(s) = Range(s) /\ Fi!Range(s) = Range(s) /\ (Fp!Once(s) <=> Once(s))
    /\ Fp!ProcessState = ProcessState
    /\ \A st, cur, p : Fp!Parked(st, cur, p) <=> Parked(st, cur, p)
    /\ \A st, rq, cur : Fp!KInv(st, rq, cur) <=> KInv(st, rq, cur)
<1>1. \A s : Fp!Range(s) = Range(s) /\ Fi!Range(s) = Range(s)
  BY DEF Fp!Range, Fi!Range, Range
<1>2. \A s : Fp!Once(s) <=> Once(s)
  BY DEF Fp!Once, Once
<1>3. Fp!ProcessState = ProcessState
  BY DEF Fp!ProcessState, ProcessState
<1>4. \A st, cur, p : Fp!Parked(st, cur, p) <=> Parked(st, cur, p)
  BY DEF Fp!Parked, Parked
<1>5. \A st, rq, cur : Fp!KInv(st, rq, cur) <=> KInv(st, rq, cur)
  BY <1>1, <1>3 DEF Fp!KInv, KInv
<1>6. QED
  BY <1>1, <1>2, <1>3, <1>4, <1>5

LEMMA SameCalls ==
    ASSUME NEW p, NEW f, NEW t
    PROVE  /\ Fi!QueueJob(p, f, "transfer", t) =>
                  Fp!QueueJob(p, f, "transfer", t) /\ BlockProcess(p)
           /\ Fi!AwaitLock(p, f) => Fp!AwaitLock(p, f) /\ BlockProcess(p)
<1>1. /\ Fi!BlockProcess(p) <=> BlockProcess(p)
      /\ Fp!BlockProcess(p) <=> BlockProcess(p)
  BY DEF Fi!BlockProcess, Fi!BlockState, Fp!BlockProcess, Fp!BlockState, BlockProcess, BlockState
<1>2. QED
  BY <1>1, SameOperators DEF Fi!QueueJob, Fp!QueueJob, Fi!AwaitLock, Fp!AwaitLock

LEMMA SameTimers ==
    ASSUME NEW st, NEW rq
    PROVE  Fi!AfterIoTimers(st, rq) = Fp!AfterIoTimers(st, rq)
<1>1. ASSUME NEW cpu, NEW p
      PROVE  Fi!Wake(cpu, p) = Fp!Wake(cpu, p)
  BY SameOperators DEF Fi!Wake, Fp!Wake, Fi!WakeState, Fi!WakeQueue, Fi!Enqueue,
                       Fp!WakeState, Fp!WakeQueue, Fp!Enqueue
<1>2. ASSUME NEW s, NEW job
      PROVE  Fi!Applied(s, job) = Fp!Applied(s, job)
  BY DEF Fi!Applied, Fp!Applied, Fi!Deletable, Fp!Deletable
<1>3. ASSUME NEW s, NEW p, NEW f
      PROVE  Fi!ReleaseFile(s, p, f) = Fp!ReleaseFile(s, p, f)
  BY <1>1, Zenon DEF Fi!ReleaseFile, Fp!ReleaseFile
<1>4. ASSUME NEW s, NEW job
      PROVE  Fi!CompleteIo(s, job) = Fp!CompleteIo(s, job)
  BY <1>1, <1>2, <1>3, Zenon DEF Fi!CompleteIo, Fp!CompleteIo
<1>5. ASSUME NEW s, NEW job
      PROVE  Fi!Advance(s, job) = Fp!Advance(s, job)
  BY <1>4, Zenon DEF Fi!Advance, Fp!Advance
<1>6. QED
  BY <1>5 DEF Fi!AfterIoTimers, Fp!AfterIoTimers, Fi!BeforeIoTimers, Fp!BeforeIoTimers

-----------------------------------------------------------------------------
(* Who waits, and for what kind of thing.                                   *)
Kinds == {"page", "device", "permit", "lock"}

OnPage(js) == {Owner(page) : page \in PagesIn(js)}

OnDevice(js, wait) == {p \in Procs : Fp!Reason(Range(js), wait, p)}

OnLock(wait) == {p \in Procs : \E l \in Locks : p \in Range(wait[l])}

WhyOf(js, ios, wait) ==
    [page |-> OnPage(js), device |-> OnDevice(ios, wait),
     permit |-> Range(semQueue), lock |-> OnLock(waiting)]

Why == WhyOf(jobs, ioJobs, lockWaiters)

(* There is a frame, unless there is no memory: the simulation leaves the   *)
(* page size to the memory manager, which makes it at most the memory.      *)
FramesForPages == NumFrames # 0 \/ TotalMemory = 0

LEMMA NoMemoryNoPages == TotalMemory = 0 => Space = {}
<1> SUFFICES ASSUME TotalMemory = 0 PROVE Space = {}
  OBVIOUS
<1>1. PageSize \in Nat /\ PageSize > 0
  BY PagingAssumption
<1>2. (0 + (PageSize - 1)) \div PageSize = 0
  BY <1>1
<1>3. Pages = {}
  BY <1>2 DEF Pages, PageCount
<1>4. QED
  BY <1>3 DEF Space

(* Nobody waits for two kinds of things, and who waits is off the CPU.  Who *)
(* is BLOCKED waits; without a frame the memory manager would drop a fault  *)
(* job that is due and wake nobody.                                         *)
Sound(why, st, cur) ==
    /\ \A k \in Kinds : \A p \in why[k] : p \in Procs /\ Parked(st, cur, p)
    /\ \A k, l \in Kinds : \A p \in why[k] \cap why[l] : k = l
    /\ FramesForPages => \A p \in Procs : st[p] = "BLOCKED" => \E k \in Kinds : p \in why[k]

(* Processes stop waiting when they are no longer BLOCKED.                  *)
LEMMA ShrinkKeeps ==
    ASSUME NEW why, NEW why2, NEW st, NEW cur, NEW st2, NEW cur2, Sound(why, st, cur),
           \A k \in Kinds : \A p \in why2[k] : p \in why[k] /\ Parked(st2, cur2, p),
           FramesForPages => \A p \in Procs : st2[p] = "BLOCKED" =>
               st[p] = "BLOCKED" /\ \A k \in Kinds : p \in why[k] => p \in why2[k]
    PROVE  Sound(why2, st2, cur2)
BY DEF Sound

(* Processes that did not wait begin to wait for one kind of thing.         *)
LEMMA GrowKeeps ==
    ASSUME NEW why, NEW why2, NEW st, NEW cur, NEW st2, NEW cur2, Sound(why, st, cur),
           NEW N \in SUBSET Procs, NEW kind \in Kinds, why2[kind] = why[kind] \cup N,
           \A k \in Kinds \ {kind} : why2[k] = why[k],
           \A p \in N : ~ Parked(st, cur, p) /\ Parked(st2, cur2, p),
           \A p \in Procs : Parked(st, cur, p) => Parked(st2, cur2, p),
           \A p \in Procs : st2[p] = "BLOCKED" => st[p] = "BLOCKED" \/ p \in N
    PROVE  Sound(why2, st2, cur2)
<1>1. \A k \in Kinds : \A p \in why2[k] : p \in why[k] \/ (k = kind /\ p \in N)
  OBVIOUS
<1>2. \A k \in Kinds : \A p \in why2[k] : p \in Procs /\ Parked(st2, cur2, p)
  BY <1>1 DEF Sound
<1>3. \A k \in Kinds : \A p \in why[k] : p \notin N
  BY DEF Sound
<1>4. \A k, l \in Kinds : \A p \in why2[k] \cap why2[l] : k = l
  BY <1>1, <1>3 DEF Sound
<1>5. \A k \in Kinds : why[k] \subseteq why2[k]
  OBVIOUS
<1>6. FramesForPages => \A p \in Procs : st2[p] = "BLOCKED" => \E k \in Kinds : p \in why2[k]
  BY <1>5 DEF Sound
<1>7. QED
  BY <1>2, <1>4, <1>6 DEF Sound

(* They begin to wait for a page.                                           *)
LEMMA PageGrowKeeps ==
    ASSUME NEW why, NEW why2, NEW st, NEW cur, NEW st2, NEW cur2, NEW N,
           Sound(why, st, cur) /\ why2["page"] = why["page"] \cup N,
           \A p \in N : ~ Parked(st, cur, p) /\ Parked(st2, cur2, p),
           \A p \in Procs : Parked(st, cur, p) => Parked(st2, cur2, p),
           \A p \in Procs : st2[p] = "BLOCKED" => st[p] = "BLOCKED" \/ p \in N,
           N \in SUBSET Procs,
           \A k \in Kinds \ {"page"} : why2[k] = why[k]
    PROVE  Sound(why2, st2, cur2)
<1>1. "page" \in Kinds
  BY DEF Kinds
<1>2. QED
  BY <1>1, GrowKeeps

LEMMA WhyFields ==
    /\ Why["page"] = OnPage(jobs) /\ Why["device"] = OnDevice(ioJobs, lockWaiters)
    /\ Why["permit"] = Range(semQueue) /\ Why["lock"] = OnLock(waiting)
    /\ Why'["page"] = OnPage(jobs') /\ Why'["device"] = OnDevice(ioJobs', lockWaiters')
    /\ Why'["permit"] = Range(semQueue') /\ Why'["lock"] = OnLock(waiting')
BY DEF Why, WhyOf

(* The invariants of the lock and of the semaphore, apart from who is       *)
(* parked.                                                                  *)
LocksInv ==
    /\ owner \in [Locks -> Procs \cup {None}] /\ waiting \in [Locks -> Seq(Procs)]
    /\ \A l \in Locks : Once(waiting[l])
    /\ \A l \in Locks : \A w \in Range(waiting[l]) :
          /\ owner[l] \notin {None, w}
          /\ \A m \in Locks : w \in Range(waiting[m]) => l = m

SemInv ==
    /\ permits \in Nat /\ semQueue \in Seq(Procs) /\ granted \subseteq Procs
    /\ Once(semQueue) /\ Range(semQueue) \cap granted = {}
    /\ semQueue # <<>> => permits = 0

OneFaultEach(js) == \A a, b \in PagesIn(js) : Owner(a) = Owner(b) => a = b

IotInv ==
    /\ KernelInv /\ PagingInv /\ LocksInv /\ SemInv /\ Fp!DeviceInv
    /\ OneFaultEach(jobs) /\ Sound(Why, state, current)

LEMMA StateTypes ==
    ASSUME KernelInv
    PROVE  /\ state \in [Procs -> ProcessState] /\ current \in Procs \cup {None}
           /\ remaining \in [Procs -> Nat] /\ KInv(state, ready, current)
           /\ SliceOK(current, slice)
           /\ \A p \in Procs : state[p] = "BLOCKED" => Parked(state, current, p)
<1>1. /\ current \in Procs \cup {None} /\ remaining \in [Procs -> Nat]
      /\ KInv(state, ready, current) /\ SliceOK(current, slice)
  BY KernelInvSplit
<1>2. QED
  BY <1>1, KernelAssumption DEF KInv, Parked

(* Whoever is awake waits for nothing.                                      *)
LEMMA AwakeWaitsForNothing ==
    ASSUME IotInv, NEW p \in Procs, Awake(p)
    PROVE  ~ Parked(state, current, p) /\ \A k \in Kinds : p \notin Why[k]
BY DEF IotInv, Sound, Awake, Parked

(* What a step that leaves the device alone has to show of it.              *)
LEMMA DeviceStays ==
    ASSUME IotInv, UNCHANGED deviceVars,
           \A p \in Why["device"] : Parked(state', current', p)
    PROVE  Fp!DeviceInv'
<1>1. UNCHANGED <<lockOwner, lockWaiters, ioJobs>>
  BY DEF deviceVars
<1>2. \A p \in Procs : Fp!Waits(p) => p \in Why["device"]
  BY WhyFields, SameOperators DEF OnDevice, Fp!Waits
<1>3. \A p \in Procs : Fp!Waits(p) /\ Fp!Parked(state, current, p) =>
          Fp!Parked(state', current', p)
  BY <1>2, SameOperators
<1>4. QED
  BY <1>1, <1>3, Fp!DeviceUntouched, DeviceAssumptions DEF IotInv

LEMMA PortsKeepKernelInv ==
    ASSUME KernelInv, NEW p \in Procs,
           UNCHANGED kernelVars \/ Admit(p) \/ BlockProcess(p) \/ WakeProcess(p) \/ Terminate(p)
    PROVE  KernelInv'
BY KernelNextInv DEF KernelNext

-----------------------------------------------------------------------------
(* Steps of the kernel's own calls, the memory, the locks and the           *)
(* semaphore.                                                               *)
LEMMA ExecuteEnds ==
    ASSUME NEW st, DOMAIN st = Procs, NEW rq, NEW done, NEW q \in Procs, Execute(q, done, st, rq),
           remaining \in [Procs -> Nat], NEW p \in Procs, remaining[p] > 0, remaining'[p] = 0
    PROVE  state'[p] = "TERMINATED"
<1> DEFINE left == IF remaining[q] > 0 THEN remaining[q] - 1 ELSE 0
           ran == IF done = 0 THEN [st EXCEPT ![q] = "RUNNING"] ELSE st
<1>1. remaining' = [remaining EXCEPT ![q] = left]
  BY DEF Execute
<1>2. p = q /\ left = 0
  BY <1>1
<1>3. state' = [ran EXCEPT ![q] = "TERMINATED"]
  <2>1. ~ (left > 0)
    BY <1>2
  <2>2. QED
    BY <2>1 DEF Execute
<1>4. DOMAIN ran = Procs
  OBVIOUS
<1>5. QED
  BY <1>2, <1>3, <1>4

(* The process whose memory a tick frees has ended.                         *)
LEMMA CompletedHasEnded ==
    ASSUME NEW st \in [Procs -> ProcessState], NEW rq, NEW eff, NEW F, CpuStep(st, rq, eff, F),
           remaining \in [Procs -> Nat], current \in Procs \cup {None}, NEW p \in Completed(st)
    PROVE  state'[p] = "TERMINATED"
<1>1. p \in Procs /\ remaining'[p] = 0
  BY DEF Completed
<1>2. CASE ~ (remaining[p] > 0)
  BY <1>2 DEF Completed
<1>3. CASE remaining[p] > 0
  <2>1. ASSUME NEW s, DOMAIN s = Procs, DispatchAndRun(s, rq, eff, F)
        PROVE  state'[p] = "TERMINATED"
    <3>1. remaining' # remaining
      BY <1>1, <1>3
    <3>2. PICK d \in Dispatches(s, rq, eff, F) :
              Execute(d.pid, 0, Faulted(s, d.faulted), d.rest)
      BY <2>1, <3>1 DEF DispatchAndRun, Idle
    <3>3. d.pid \in Procs
      BY DispatchedIsRunnable DEF Runnable
    <3>4. DOMAIN Faulted(s, d.faulted) = Procs
      BY DEF Faulted
    <3>5. QED
      BY <1>1, <1>3, <3>2, <3>3, <3>4, ExecuteEnds
  <2>2. CASE current # None /\ Execute(current, slice, st, rq)
    <3>1. current \in Procs /\ DOMAIN st = Procs
      BY <2>2
    <3>2. QED
      BY <1>1, <1>3, <2>2, <3>1, ExecuteEnds
  <2>3. CASE DispatchAndRun(Faulted(st, {current}), rq, eff, F)
    <3>1. DOMAIN Faulted(st, {current}) = Procs
      BY DEF Faulted
    <3>2. QED
      BY <2>1, <2>3, <3>1
  <2>4. CASE DispatchAndRun(st, rq, eff, F)
    BY <2>1, <2>4
  <2>5. QED
    BY <2>2, <2>3, <2>4 DEF CpuStep
<1>4. QED
  BY <1>2, <1>3

(* The calls of the kernel: nobody begins to wait, and whoever waits stays  *)
(* off the CPU.                                                             *)
LEMMA KernelCallKeeps ==
    ASSUME IotInv, KernelCall, UNCHANGED <<memoryVars, lockVars, deviceVars, semVars>>
    PROVE  IotInv'
<1>1. PICK p \in Procs : Admit(p) \/ Terminate(p)
  BY PagingAssumption DEF KernelCall
<1>2. /\ UNCHANGED memoryVars /\ UNCHANGED <<reserved, used, mem, jobs>>
      /\ UNCHANGED <<owner, waiting>> /\ UNCHANGED <<lockOwner, lockWaiters, ioJobs>>
      /\ UNCHANGED <<permits, semQueue, granted>> /\ UNCHANGED deviceVars
  BY DEF memoryVars, lockVars, deviceVars, semVars
<1>3. /\ current' = current
      /\ \/ state[p] = "NEW" /\ state' = [state EXCEPT ![p] = "READY"]
         \/ state' = [state EXCEPT ![p] = "TERMINATED"]
  BY <1>1 DEF Admit, Terminate
<1>4. state \in [Procs -> ProcessState]
  BY StateTypes DEF IotInv
<1>5. \A q \in Procs : /\ Parked(state, current, q) => Parked(state', current', q)
                       /\ state'[q] = "BLOCKED" => state[q] = "BLOCKED"
  BY <1>3, <1>4 DEF Parked
<1>6. Sound(Why, state, current)
  BY DEF IotInv
<1>7. \A k \in Kinds : \A q \in Why[k] : q \in Procs /\ Parked(state', current', q)
  BY <1>5, <1>6 DEF Sound
<1>8. Why' = Why
  BY <1>2 DEF Why, WhyOf
<1>9. Sound(Why, state', current')
  BY <1>5, <1>6, <1>7 DEF Sound
<1>10. KernelInv'
  BY <1>1, PortsKeepKernelInv DEF IotInv
<1>11. PagingInv'
  BY <1>2, MemoryUntouched DEF IotInv
<1>12. Fp!DeviceInv'
  <2>1. "device" \in Kinds
    BY DEF Kinds
  <2>2. QED
    BY <1>2, <1>7, <2>1, DeviceStays
<1>13. LocksInv' /\ SemInv' /\ OneFaultEach(jobs')
  BY <1>2 DEF IotInv, LocksInv, SemInv, OneFaultEach
<1>14. QED
  BY <1>8, <1>9, <1>10, <1>11, <1>12, <1>13 DEF IotInv

(* A script may free what an ended process has; nobody waits for that.      *)
LEMMA MemoryCallKeeps ==
    ASSUME IotInv, MemoryCall, UNCHANGED <<lockVars, deviceVars, semVars>>
    PROVE  IotInv'
<1>1. /\ UNCHANGED <<owner, waiting>> /\ UNCHANGED <<lockOwner, lockWaiters, ioJobs>>
      /\ UNCHANGED <<permits, semQueue, granted>> /\ UNCHANGED deviceVars
  BY DEF lockVars, deviceVars, semVars
<1>2. UNCHANGED kernelVars
  BY DEF MemoryCall, Allocate, ScriptFrees
<1>3. state' = state /\ current' = current
  BY <1>2 DEF kernelVars
<1>4. PICK p \in Procs : (\E amount \in Amounts[p] : Allocate(p, amount)) \/ ScriptFrees(p)
  BY DEF MemoryCall
<1>5. PagingInv /\ Sound(Why, state, current) /\ OneFaultEach(jobs)
  BY DEF IotInv
<1>6. /\ jobs \in Seq(Job) /\ OnePerPage(jobs) /\ MemInv(mem) /\ reserved \in [Procs -> Nat \cup {None}]
      /\ Resident(mem) \cap PagesIn(jobs) = {}
      /\ \A page \in Resident(mem) \cup PagesIn(jobs) : reserved[Owner(page)] # None
  BY <1>5 DEF PagingInv
<1>7. PagingInv' /\ (jobs' = jobs \/ (state[p] = "TERMINATED" /\ jobs' = DropJobs(jobs, p)))
  <2>1. ASSUME NEW amount \in Amounts[p], Allocate(p, amount)
        PROVE  PagingInv' /\ jobs' = jobs
    BY <1>5, <2>1, AllocateInv DEF Allocate
  <2>2. CASE ScriptFrees(p)
    <3>1. FreeMemory(p, mem, jobs) /\ state[p] = "TERMINATED"
      BY <2>2 DEF ScriptFrees
    <3>2. PagingInv'
      BY <1>6, <3>1, FreeMemoryInv
    <3>3. QED
      BY <3>1, <3>2 DEF FreeMemory
  <2>3. QED
    BY <1>4, <2>1, <2>2
<1>8. /\ PagesIn(jobs') \subseteq PagesIn(jobs)
      /\ \A page \in PagesIn(jobs) \ PagesIn(jobs') : state[Owner(page)] = "TERMINATED"
  BY <1>6, <1>7, DropJobsInv
<1>9. /\ OnPage(jobs') \subseteq OnPage(jobs)
      /\ \A q \in OnPage(jobs) \ OnPage(jobs') : state[q] = "TERMINATED"
  BY <1>8 DEF OnPage
<1>10. OneFaultEach(jobs')
  BY <1>5, <1>8 DEF OneFaultEach
<1>11. Why'["device"] = Why["device"] /\ Why'["permit"] = Why["permit"] /\ Why'["lock"] = Why["lock"]
  BY <1>1, WhyFields
<1>12. Sound(Why', state', current')
  <2>1. \A k \in Kinds : \A q \in Why'[k] : q \in Why[k]
    BY <1>9, <1>11, WhyFields DEF Kinds
  <2>2. \A k \in Kinds : \A q \in Why[k] : state[q] # "TERMINATED" => q \in Why'[k]
    BY <1>9, <1>11, WhyFields DEF Kinds
  <2>3. \A k \in Kinds : \A q \in Why'[k] : q \in Why[k] /\ Parked(state', current', q)
    BY <1>3, <1>5, <2>1 DEF Sound
  <2>4. \A q \in Procs : state'[q] = "BLOCKED" =>
            state[q] = "BLOCKED" /\ \A k \in Kinds : q \in Why[k] => q \in Why'[k]
    BY <1>3, <2>2
  <2>5. QED
    BY <1>5, <2>3, <2>4, ShrinkKeeps
<1>13. Fp!DeviceInv'
  <2>1. \A q \in Why["device"] : Parked(state', current', q)
    BY <1>3, <1>5 DEF Sound, Kinds
  <2>2. QED
    BY <1>1, <2>1, DeviceStays
<1>14. KernelInv'
  BY <1>2, KernelNextInv DEF IotInv
<1>15. LocksInv' /\ SemInv'
  BY <1>1 DEF IotInv, LocksInv, SemInv
<1>16. QED
  BY <1>7, <1>10, <1>12, <1>13, <1>14, <1>15 DEF IotInv

(* Steps that move neither a process nor the queues.                        *)
LEMMA QuietKeeps ==
    ASSUME IotInv, UNCHANGED <<kernelVars, memoryVars, deviceVars>>,
           waiting' = waiting, semQueue' = semQueue
    PROVE  /\ KernelInv' /\ PagingInv' /\ Fp!DeviceInv'
           /\ OneFaultEach(jobs') /\ Sound(Why', state', current')
<1>1. /\ UNCHANGED memoryVars /\ UNCHANGED <<reserved, used, mem, jobs>>
      /\ UNCHANGED <<lockOwner, lockWaiters, ioJobs>> /\ UNCHANGED deviceVars
      /\ UNCHANGED kernelVars /\ UNCHANGED <<state, current>>
  BY DEF memoryVars, deviceVars, kernelVars
<1>2. Sound(Why', state', current') /\ OneFaultEach(jobs')
  BY <1>1 DEF IotInv, Why, WhyOf
<1>3. Fp!DeviceInv'
  <2>1. \A q \in Why["device"] : Parked(state', current', q)
    BY <1>1 DEF IotInv, Sound, Kinds
  <2>2. QED
    BY <1>1, <2>1, DeviceStays
<1>4. KernelInv' /\ PagingInv'
  BY <1>1, KernelNextInv, MemoryUntouched DEF IotInv
<1>5. QED
  BY <1>2, <1>3, <1>4

(* Who asks for a lock that is held joins its waiters.                      *)
LEMMA ContendKeeps ==
    ASSUME IotInv, NEW p \in Procs, NEW l \in Locks, Awake(p), Contend(p, l),
           UNCHANGED <<memoryVars, deviceVars, semVars>>
    PROVE  IotInv'
<1>1. /\ UNCHANGED memoryVars /\ UNCHANGED <<reserved, used, mem, jobs>>
      /\ UNCHANGED <<lockOwner, lockWaiters, ioJobs>> /\ UNCHANGED deviceVars
      /\ UNCHANGED <<permits, semQueue, granted>>
  BY DEF memoryVars, deviceVars, semVars
<1>2. /\ state[p] \in {"READY", "RUNNING"} /\ owner[l] \notin {None, p} /\ owner' = owner
      /\ waiting' = [waiting EXCEPT ![l] = Append(@, p)] /\ BlockProcess(p)
  BY DEF Contend, Awake
<1>3. state \in [Procs -> ProcessState] /\ LocksInv /\ Sound(Why, state, current)
  BY StateTypes DEF IotInv
<1>4. /\ state' = [state EXCEPT ![p] = "BLOCKED"] /\ Parked(state', current', p)
      /\ \A q \in Procs : Parked(state, current, q) => Parked(state', current', q) /\ q # p
  BY <1>2, <1>3, BlockParks
<1>5. ~ Parked(state, current, p) /\ \A k \in Kinds : p \notin Why[k]
  BY <1>2, AwakeWaitsForNothing DEF Awake
<1>6. \A m \in Locks : p \notin Range(waiting[m])
  BY <1>5, WhyFields DEF Kinds, OnLock
<1>7. waiting \in [Locks -> Seq(Procs)] /\ owner \in [Locks -> Procs \cup {None}]
      /\ \A m \in Locks : Once(waiting[m])
  BY <1>3 DEF LocksInv
<1>8. /\ Append(waiting[l], p) \in Seq(Procs) /\ Once(Append(waiting[l], p))
      /\ Range(Append(waiting[l], p)) = Range(waiting[l]) \cup {p}
  BY <1>6, <1>7, AppendSeq
<1>9. /\ waiting' \in [Locks -> Seq(Procs)] /\ \A m \in Locks : Once(waiting'[m])
      /\ \A m \in Locks : Range(waiting'[m]) =
             IF m = l THEN Range(waiting[l]) \cup {p} ELSE Range(waiting[m])
  BY <1>2, <1>7, <1>8
<1>10. LocksInv'
  <2>1. \A m \in Locks : \A w \in Range(waiting[m]) :
            /\ owner[m] \notin {None, w}
            /\ \A k \in Locks : w \in Range(waiting[k]) => m = k
    BY <1>3 DEF LocksInv
  <2>2. \A m \in Locks : \A w \in Range(waiting'[m]) :
            /\ owner'[m] \notin {None, w}
            /\ \A k \in Locks : w \in Range(waiting'[k]) => m = k
    BY <1>2, <1>6, <1>9, <2>1
  <2>3. QED
    BY <1>2, <1>7, <1>9, <2>2 DEF LocksInv
<1>11. OnLock(waiting') = OnLock(waiting) \cup {p}
  BY <1>9 DEF OnLock
<1>12. Sound(Why', state', current')
  <2>1. Why'["lock"] = Why["lock"] \cup {p} /\ \A k \in Kinds \ {"lock"} : Why'[k] = Why[k]
    BY <1>1, <1>11, WhyFields DEF Kinds
  <2>2. "lock" \in Kinds /\ {p} \in SUBSET Procs
    BY DEF Kinds
  <2>3. \A q \in {p} : ~ Parked(state, current, q) /\ Parked(state', current', q)
    BY <1>4, <1>5
  <2>4. \A q \in Procs : Parked(state, current, q) => Parked(state', current', q)
    BY <1>4
  <2>5. \A q \in Procs : state'[q] = "BLOCKED" => state[q] = "BLOCKED" \/ q \in {p}
    BY <1>3, <1>4
  <2>6. QED
    BY <1>3, <2>1, <2>2, <2>3, <2>4, <2>5, GrowKeeps
<1>13. Fp!DeviceInv'
  <2>1. \A q \in Why["device"] : Parked(state', current', q)
    BY <1>3, <1>4 DEF Sound, Kinds
  <2>2. QED
    BY <1>1, <2>1, DeviceStays
<1>14. KernelInv' /\ PagingInv'
  BY <1>1, <1>2, PortsKeepKernelInv, MemoryUntouched DEF IotInv
<1>15. SemInv' /\ OneFaultEach(jobs')
  BY <1>1 DEF IotInv, SemInv, OneFaultEach
<1>16. QED
  BY <1>10, <1>12, <1>13, <1>14, <1>15 DEF IotInv

(* Who gets what it waits for is woken and waits no longer.                 *)
LEMMA WakeShrinks ==
    ASSUME NEW why, NEW why2, Sound(why, state, current), state \in [Procs -> ProcessState],
           NEW kind \in Kinds, NEW p \in why[kind], WakeProcess(p),
           why2[kind] = why[kind] \ {p}, \A k \in Kinds \ {kind} : why2[k] = why[k]
    PROVE  /\ Sound(why2, state', current')
           /\ \A k \in Kinds : \A q \in why2[k] : Parked(state', current', q)
<1>1. /\ current' = current /\ p \in Procs
      /\ \A q \in Procs : q # p => state'[q] = state[q]
      /\ state'[p] # "BLOCKED"
  BY DEF WakeProcess, WakeState, Sound
<1>2. \A k \in Kinds : \A q \in why2[k] : q \in why[k] /\ q # p
  BY DEF Sound
<1>3. \A k \in Kinds : \A q \in why2[k] : q \in why[k] /\ Parked(state', current', q)
  BY <1>1, <1>2 DEF Sound, Parked
<1>4. \A q \in Procs : state'[q] = "BLOCKED" =>
          state[q] = "BLOCKED" /\ \A k \in Kinds : q \in why[k] => q \in why2[k]
  BY <1>1
<1>5. QED
  BY <1>3, <1>4, ShrinkKeeps

LEMMA HandOverKeeps ==
    ASSUME IotInv, NEW p \in Procs, NEW l \in Locks, HandOver(p, l),
           UNCHANGED <<memoryVars, deviceVars, semVars>>
    PROVE  IotInv'
<1> DEFINE w == Head(waiting[l])
<1>1. /\ UNCHANGED memoryVars /\ UNCHANGED <<reserved, used, mem, jobs>>
      /\ UNCHANGED <<lockOwner, lockWaiters, ioJobs>> /\ UNCHANGED deviceVars
      /\ UNCHANGED <<permits, semQueue, granted>>
  BY DEF memoryVars, deviceVars, semVars
<1>2. state \in [Procs -> ProcessState] /\ LocksInv /\ Sound(Why, state, current)
  BY StateTypes DEF IotInv
<1>3. /\ waiting \in [Locks -> Seq(Procs)] /\ owner \in [Locks -> Procs \cup {None}]
      /\ \A m \in Locks : Once(waiting[m])
      /\ \A m \in Locks : \A q \in Range(waiting[m]) :
            /\ owner[m] \notin {None, q}
            /\ \A k \in Locks : q \in Range(waiting[k]) => m = k
  BY <1>2 DEF LocksInv
<1>4. /\ waiting[l] # <<>> /\ owner' = [owner EXCEPT ![l] = w]
      /\ waiting' = [waiting EXCEPT ![l] = Tail(@)] /\ WakeProcess(owner'[l])
  BY DEF HandOver
<1>5. owner'[l] = w
  BY <1>3, <1>4
<1>6. /\ w \in Procs /\ w \in Range(waiting[l]) /\ Tail(waiting[l]) \in Seq(Procs)
      /\ Once(Tail(waiting[l])) /\ Range(Tail(waiting[l])) = Range(waiting[l]) \ {w}
  BY <1>3, <1>4, TailSeq
<1> HIDE DEF w
<1>7. /\ waiting' \in [Locks -> Seq(Procs)] /\ \A m \in Locks : Once(waiting'[m])
      /\ \A m \in Locks : Range(waiting'[m]) =
             IF m = l THEN Range(waiting[l]) \ {w} ELSE Range(waiting[m])
  BY <1>3, <1>4, <1>6
<1>8. LocksInv'
  <2>1. None \notin Procs
    BY KernelAssumption
  <2>2. owner' \in [Locks -> Procs \cup {None}]
    BY <1>3, <1>4, <1>6
  <2>3. ASSUME NEW m \in Locks, NEW q \in Range(waiting'[m])
        PROVE  /\ owner'[m] \notin {None, q}
               /\ \A k \in Locks : q \in Range(waiting'[k]) => m = k
    BY <1>3, <1>4, <1>6, <1>7, <2>1, <2>3
  <2>4. QED
    BY <1>7, <2>2, <2>3 DEF LocksInv
<1>9. OnLock(waiting') = OnLock(waiting) \ {w}
  <2>1. \A m \in Locks : w \in Range(waiting[m]) => m = l
    BY <1>3, <1>6
  <2>2. \A m \in Locks : \A q : q \in Range(waiting'[m]) <=> q \in Range(waiting[m]) /\ q # w
    BY <1>7, <2>1
  <2>3. QED
    BY <2>2 DEF OnLock
<1>10. /\ Sound(Why', state', current')
       /\ \A k \in Kinds : \A q \in Why'[k] : Parked(state', current', q)
  <2>1. Why'["lock"] = Why["lock"] \ {w} /\ \A k \in Kinds \ {"lock"} : Why'[k] = Why[k]
    BY <1>1, <1>9, WhyFields DEF Kinds
  <2>2. "lock" \in Kinds /\ w \in Why["lock"]
    BY <1>6, WhyFields DEF Kinds, OnLock
  <2>3. WakeProcess(w)
    BY <1>4, <1>5
  <2>4. QED
    BY <1>2, <2>1, <2>2, <2>3, WakeShrinks
<1>11. Fp!DeviceInv'
  <2>1. "device" \in Kinds /\ Why'["device"] = Why["device"]
    BY <1>1, WhyFields DEF Kinds
  <2>2. QED
    BY <1>1, <1>10, <2>1, DeviceStays
<1>12. KernelInv' /\ PagingInv'
  BY <1>1, <1>4, <1>5, <1>6, PortsKeepKernelInv, MemoryUntouched DEF IotInv
<1>13. SemInv' /\ OneFaultEach(jobs')
  BY <1>1 DEF IotInv, SemInv, OneFaultEach
<1>14. QED
  BY <1>8, <1>10, <1>11, <1>12, <1>13 DEF IotInv

LEMMA LockCallKeeps ==
    ASSUME IotInv, LockCall(AwakeProcs), UNCHANGED <<memoryVars, deviceVars, semVars>>
    PROVE  IotInv'
<1>1. PICK p \in Procs, l \in Locks :
          Take(p, l) \/ (Awake(p) /\ Contend(p, l)) \/ Free(p, l) \/ HandOver(p, l)
  BY DEF LockCall, AwakeProcs
<1>2. CASE Take(p, l) \/ Free(p, l)
  <2>1. UNCHANGED kernelVars /\ waiting' = waiting /\ UNCHANGED <<permits, semQueue, granted>>
    BY <1>2 DEF Take, Free, semVars
  <2>2. LocksInv
    BY DEF IotInv
  <2>3. Range(waiting[l]) = {}
    <3>1. CASE Take(p, l)
      BY <2>2, <3>1 DEF Take, LocksInv
    <3>2. CASE Free(p, l)
      BY <3>2 DEF Free, Range
    <3>3. QED
      BY <1>2, <3>1, <3>2
  <2>4. owner' \in [Locks -> Procs \cup {None}] /\ \A m \in Locks \ {l} : owner'[m] = owner[m]
    <3>1. owner' = [owner EXCEPT ![l] = p] \/ owner' = [owner EXCEPT ![l] = None]
      BY <1>2 DEF Take, Free
    <3>2. owner \in [Locks -> Procs \cup {None}]
      BY <2>2 DEF LocksInv
    <3>3. QED
      BY <3>1, <3>2
  <2>5. \A m \in Locks : \A w \in Range(waiting[m]) : m # l
    BY <2>3
  <2>6. LocksInv'
    BY <2>1, <2>2, <2>4, <2>5 DEF LocksInv
  <2>7. SemInv'
    BY <2>1 DEF IotInv, SemInv
  <2>8. QED
    BY <2>1, <2>6, <2>7, QuietKeeps DEF IotInv
<1>3. CASE Awake(p) /\ Contend(p, l)
  BY <1>3, ContendKeeps
<1>4. CASE HandOver(p, l)
  BY <1>4, HandOverKeeps
<1>5. QED
  BY <1>1, <1>2, <1>3, <1>4

(* A wait takes a grant or a permit, or joins the queue.                    *)
LEMMA SemWaitKeeps ==
    ASSUME IotInv, NEW p \in Procs, Awake(p), SemWait(p), UNCHANGED <<memoryVars, lockVars, deviceVars>>
    PROVE  IotInv'
<1>1. /\ UNCHANGED memoryVars /\ UNCHANGED <<reserved, used, mem, jobs>>
      /\ UNCHANGED <<lockOwner, lockWaiters, ioJobs>> /\ UNCHANGED deviceVars
      /\ UNCHANGED <<owner, waiting>>
  BY DEF memoryVars, deviceVars, lockVars
<1>2. LocksInv' /\ SemInv /\ Sound(Why, state, current) /\ state \in [Procs -> ProcessState]
  BY <1>1, StateTypes DEF IotInv, LocksInv
<1>3. CASE UNCHANGED <<kernelVars, semQueue>>
  <2>1. SemInv'
    BY <1>2, <1>3 DEF SemWait, SemInv
  <2>2. QED
    BY <1>1, <1>2, <1>3, <2>1, QuietKeeps DEF IotInv
<1>4. CASE /\ p \notin granted /\ permits <= 0
           /\ semQueue' = Append(semQueue, p) /\ BlockProcess(p) /\ UNCHANGED <<permits, granted>>
  <2>1. Awake(p)
    OBVIOUS
  <2>2. /\ state' = [state EXCEPT ![p] = "BLOCKED"] /\ Parked(state', current', p)
        /\ \A q \in Procs : Parked(state, current, q) => Parked(state', current', q) /\ q # p
    BY <1>2, <1>4, <2>1, BlockParks DEF Awake
  <2>3. ~ Parked(state, current, p) /\ \A k \in Kinds : p \notin Why[k]
    BY <2>1, AwakeWaitsForNothing
  <2>4. p \notin Range(semQueue)
    BY <2>3, WhyFields DEF Kinds
  <2>5. /\ Append(semQueue, p) \in Seq(Procs) /\ Once(Append(semQueue, p))
        /\ Range(Append(semQueue, p)) = Range(semQueue) \cup {p}
    BY <1>2, <2>4, AppendSeq DEF SemInv
  <2>6. SemInv'
    BY <1>2, <1>4, <2>5 DEF SemInv
  <2>7. Sound(Why', state', current')
    <3>1. /\ Why'["permit"] = Why["permit"] \cup {p}
          /\ \A k \in Kinds \ {"permit"} : Why'[k] = Why[k]
      BY <1>1, <1>4, <2>5, WhyFields DEF Kinds
    <3>2. "permit" \in Kinds /\ {p} \in SUBSET Procs
      BY DEF Kinds
    <3>3. \A q \in {p} : ~ Parked(state, current, q) /\ Parked(state', current', q)
      BY <2>2, <2>3
    <3>4. \A q \in Procs : Parked(state, current, q) => Parked(state', current', q)
      BY <2>2
    <3>5. \A q \in Procs : state'[q] = "BLOCKED" => state[q] = "BLOCKED" \/ q \in {p}
      BY <1>2, <2>2
    <3>6. QED
      BY <1>2, <3>1, <3>2, <3>3, <3>4, <3>5, GrowKeeps
  <2>8. Fp!DeviceInv'
    <3>1. \A q \in Why["device"] : Parked(state', current', q)
      BY <1>2, <2>2 DEF Sound, Kinds
    <3>2. QED
      BY <1>1, <3>1, DeviceStays
  <2>9. KernelInv' /\ PagingInv' /\ OneFaultEach(jobs')
    BY <1>1, <1>4, PortsKeepKernelInv, MemoryUntouched DEF IotInv
  <2>10. QED
    BY <1>2, <2>6, <2>7, <2>8, <2>9 DEF IotInv
<1>5. QED
  BY <1>3, <1>4 DEF SemWait

(* A signal grants its permit to the first who waits.                       *)
LEMMA SemSignalKeeps ==
    ASSUME IotInv, SemSignal, UNCHANGED <<memoryVars, lockVars, deviceVars>>
    PROVE  IotInv'
<1> DEFINE w == Head(semQueue)
<1>1. /\ UNCHANGED memoryVars /\ UNCHANGED <<reserved, used, mem, jobs>>
      /\ UNCHANGED <<lockOwner, lockWaiters, ioJobs>> /\ UNCHANGED deviceVars
      /\ UNCHANGED <<owner, waiting>>
  BY DEF memoryVars, deviceVars, lockVars
<1>2. LocksInv' /\ SemInv /\ Sound(Why, state, current) /\ state \in [Procs -> ProcessState]
  BY <1>1, StateTypes DEF IotInv, LocksInv
<1>3. CASE semQueue = <<>>
  <2>1. permits' = permits + 1 /\ UNCHANGED <<kernelVars, semQueue, granted>>
    BY <1>3 DEF SemSignal
  <2>2. SemInv'
    BY <1>2, <1>3, <2>1 DEF SemInv
  <2>3. QED
    BY <1>1, <1>2, <2>1, <2>2, QuietKeeps DEF IotInv
<1>4. CASE semQueue # <<>>
  <2>1. /\ semQueue' = Tail(semQueue) /\ granted' = granted \cup {w}
        /\ WakeProcess(w) /\ UNCHANGED permits
    BY <1>4 DEF SemSignal
  <2>2. /\ w \in Procs /\ w \in Range(semQueue) /\ Tail(semQueue) \in Seq(Procs)
        /\ Once(Tail(semQueue)) /\ Range(Tail(semQueue)) = Range(semQueue) \ {w}
    BY <1>2, <1>4, TailSeq DEF SemInv
  <2> HIDE DEF w
  <2>3. SemInv'
    BY <1>2, <1>4, <2>1, <2>2 DEF SemInv
  <2>4. /\ Sound(Why', state', current')
        /\ \A k \in Kinds : \A q \in Why'[k] : Parked(state', current', q)
    <3>1. /\ Why'["permit"] = Why["permit"] \ {w}
          /\ \A k \in Kinds \ {"permit"} : Why'[k] = Why[k]
      BY <1>1, <2>1, <2>2, WhyFields DEF Kinds
    <3>2. "permit" \in Kinds /\ w \in Why["permit"]
      BY <2>2, WhyFields DEF Kinds
    <3>3. QED
      BY <1>2, <2>1, <3>1, <3>2, WakeShrinks
  <2>5. Fp!DeviceInv'
    <3>1. "device" \in Kinds /\ Why'["device"] = Why["device"]
      BY <1>1, WhyFields DEF Kinds
    <3>2. QED
      BY <1>1, <2>4, <3>1, DeviceStays
  <2>6. KernelInv' /\ PagingInv' /\ OneFaultEach(jobs')
    BY <1>1, <2>1, <2>2, PortsKeepKernelInv, MemoryUntouched DEF IotInv
  <2>7. QED
    BY <1>2, <2>3, <2>4, <2>5, <2>6 DEF IotInv
<1>5. QED
  BY <1>3, <1>4

(* A transfer is queued for the device or waits for the lock of the file.   *)
LEMMA FileCallKeeps ==
    ASSUME IotInv, FileCall(AwakeProcs), UNCHANGED <<memoryVars, lockVars, semVars>>
    PROVE  IotInv'
<1>1. /\ UNCHANGED memoryVars /\ UNCHANGED <<reserved, used, mem, jobs>>
      /\ UNCHANGED <<permits, semQueue, granted>> /\ UNCHANGED <<owner, waiting>>
  BY DEF memoryVars, semVars, lockVars
<1>2. /\ LocksInv' /\ SemInv' /\ Sound(Why, state, current)
      /\ state \in [Procs -> ProcessState] /\ Fp!DeviceInv
  BY <1>1, StateTypes DEF IotInv, LocksInv, SemInv
<1>3. PICK p \in Procs, f \in Files : Awake(p) /\ StartTransfer(p, f)
  BY DEF FileCall, AwakeProcs
<1>4. /\ Awake(p) /\ BlockProcess(p)
      /\ (\E t \in Latencies : Fp!QueueJob(p, f, "transfer", t)) \/ Fp!AwaitLock(p, f)
  BY <1>3, SameCalls DEF StartTransfer
<1>5. /\ state' = [state EXCEPT ![p] = "BLOCKED"] /\ Parked(state', current', p)
      /\ \A q \in Procs : Parked(state, current, q) => Parked(state', current', q) /\ q # p
  BY <1>2, <1>4, BlockParks DEF Awake
<1>6. ~ Parked(state, current, p)
  BY <1>4, AwakeWaitsForNothing
<1>7. Fp!DeviceInv' /\ \A q \in Procs : Fp!Waits(q)' <=> Fp!Waits(q) \/ q = p
  <2>1. state \in [Procs -> Fp!ProcessState] /\ state[p] \in {"READY", "RUNNING"}
    BY <1>2, <1>4, SameOperators DEF Awake
  <2>2. "transfer" \in Fp!Ops
    BY DEF Fp!Ops
  <2>3. ASSUME NEW t \in Latencies, Fp!QueueJob(p, f, "transfer", t)
        PROVE  Fp!DeviceInv' /\ \A q \in Procs : Fp!Waits(q)' <=> Fp!Waits(q) \/ q = p
    BY <1>2, <2>1, <2>2, <2>3, DeviceAssumptions, Fp!QueueJobInv
  <2>4. CASE Fp!AwaitLock(p, f)
    BY <1>2, <2>1, <2>4, DeviceAssumptions, Fp!AwaitLockInv
  <2>5. QED
    BY <1>4, <2>3, <2>4
<1>8. Why'["device"] = Why["device"] \cup {p}
  BY <1>7, WhyFields, SameOperators DEF OnDevice, Fp!Waits
<1>9. Sound(Why', state', current')
  <2>1. \A k \in Kinds \ {"device"} : Why'[k] = Why[k]
    BY <1>1, WhyFields DEF Kinds
  <2>2. "device" \in Kinds /\ {p} \in SUBSET Procs
    BY DEF Kinds
  <2>3. \A q \in {p} : ~ Parked(state, current, q) /\ Parked(state', current', q)
    BY <1>5, <1>6
  <2>4. \A q \in Procs : Parked(state, current, q) => Parked(state', current', q)
    BY <1>5
  <2>5. \A q \in Procs : state'[q] = "BLOCKED" => state[q] = "BLOCKED" \/ q \in {p}
    BY <1>2, <1>5
  <2>6. QED
    BY <1>2, <1>8, <2>1, <2>2, <2>3, <2>4, <2>5, GrowKeeps
<1>10. KernelInv' /\ PagingInv' /\ OneFaultEach(jobs')
  BY <1>1, <1>4, PortsKeepKernelInv, MemoryUntouched DEF IotInv
<1>11. QED
  BY <1>2, <1>7, <1>9, <1>10 DEF IotInv

-----------------------------------------------------------------------------
(* A tick: first the fault jobs, which wake those whose page is there.      *)
LEMMA FaultTimersKeepSound ==
    ASSUME IotInv
    PROVE  LET s == AfterFaultTimers
           IN  /\ Progress(s) /\ KInv(s.st, s.rq, current) /\ OneFaultEach(s.left)
               /\ \A page \in Resident(s.mem) \cup PagesIn(s.left) : reserved[Owner(page)] # None
               /\ Sound(WhyOf(s.left, ioJobs, lockWaiters), s.st, current)
<1> DEFINE s == AfterFaultTimers
           due == Due(Len(jobs))
           why2 == WhyOf(s.left, ioJobs, lockWaiters)
<1>1. /\ KInv(state, ready, current) /\ state \in [Procs -> ProcessState]
      /\ PagingInv /\ OneFaultEach(jobs) /\ Sound(Why, state, current)
  BY StateTypes DEF IotInv
<1>2. /\ jobs \in Seq(Job)
      /\ \A page \in Resident(mem) \cup PagesIn(jobs) : reserved[Owner(page)] # None
  BY <1>1 DEF PagingInv
<1>3. Progress(s) /\ Resident(s.mem) \cup PagesIn(s.left) \subseteq Resident(mem) \cup PagesIn(jobs)
  BY <1>1, FaultTimersInv
<1>4. KInv(s.st, s.rq, current)
  BY <1>1, <1>2, FaultTimersKeepQueue DEF Queued
<1>5. s.st = [p \in Procs |-> IF p \in WokenBy(Len(jobs)) THEN "READY" ELSE state[p]]
  BY <1>1, <1>2, FaultTimersWake
<1>6. PagesIn(s.left) = PagesIn(jobs) \ due /\ due \subseteq PagesIn(jobs)
  <2>1. TimersDone(s, Len(jobs))
    BY <1>1, FaultTimersDone
  <2>2. DOMAIN jobs = 1..Len(jobs)
    BY <1>2
  <2>3. QED
    BY <2>1, <2>2 DEF TimersDone, PagesIn, Due
<1> HIDE DEF s, due
<1>7. OneFaultEach(s.left)
  BY <1>1, <1>6 DEF OneFaultEach
<1>8. WokenBy(Len(jobs)) =
          {p \in Procs : NumFrames # 0 /\ state[p] = "BLOCKED" /\ \E page \in due : Owner(page) = p}
  BY DEF WokenBy, due
<1>9. /\ \A p \in OnPage(s.left) : p \in OnPage(jobs) /\ ~ \E page \in due : Owner(page) = p
      /\ \A p \in OnPage(jobs) \ OnPage(s.left) : \E page \in due : Owner(page) = p
      /\ \A page \in due : Owner(page) \in OnPage(jobs)
  BY <1>1, <1>6 DEF OnPage, OneFaultEach
<1>10. /\ why2["page"] = OnPage(s.left) /\ Why["page"] = OnPage(jobs)
       /\ \A k \in Kinds \ {"page"} : why2[k] = Why[k]
  BY DEF Why, WhyOf, Kinds
<1> HIDE DEF why2
<1>11. ASSUME NEW k \in Kinds, NEW p \in why2[k]
       PROVE  p \in Why[k] /\ Parked(s.st, current, p)
  <2>1. p \in Why[k]
    BY <1>9, <1>10, <1>11
  <2>2. ~ \E page \in due : Owner(page) = p
    <3>1. CASE k = "page"
      BY <1>9, <1>10, <1>11, <3>1
    <3>2. CASE k # "page"
      <4>1. p \notin Why["page"]
        BY <1>1, <2>1, <3>2 DEF Sound, Kinds
      <4>2. QED
        BY <1>9, <1>10, <4>1
    <3>3. QED
      BY <3>1, <3>2
  <2>3. p \in Procs /\ Parked(state, current, p)
    BY <1>1, <2>1 DEF Sound
  <2>4. s.st[p] = state[p]
    BY <1>5, <1>8, <2>2, <2>3
  <2>5. QED
    BY <2>1, <2>3, <2>4 DEF Parked
<1>12. ASSUME FramesForPages, NEW p \in Procs, s.st[p] = "BLOCKED"
       PROVE  state[p] = "BLOCKED" /\ \A k \in Kinds : p \in Why[k] => p \in why2[k]
  <2>1. p \notin WokenBy(Len(jobs)) /\ state[p] = "BLOCKED"
    BY <1>5, <1>12
  <2>2. ~ \E page \in due : Owner(page) = p
    <3>1. CASE NumFrames # 0
      BY <1>8, <1>12, <2>1, <3>1
    <3>2. CASE TotalMemory = 0
      <4>1. due \subseteq Space
        BY <1>2, <1>6, PagesAreInSpace
      <4>2. QED
        BY <3>2, <4>1, NoMemoryNoPages
    <3>3. QED
      BY <1>12, <3>1, <3>2 DEF FramesForPages
  <2>3. QED
    BY <1>9, <1>10, <2>1, <2>2
<1>13. Sound(why2, s.st, current)
  BY <1>1, <1>11, <1>12, ShrinkKeeps
<1>14. QED
  BY <1>2, <1>3, <1>4, <1>7, <1>13 DEF s, why2

(* Then the file jobs, which wake their callers and who gets their locks.   *)
LEMMA IoTimersKeepSound ==
    ASSUME IotInv, NEW st, NEW rq, NEW js, KInv(st, rq, current),
           Sound(WhyOf(js, ioJobs, lockWaiters), st, current)
    PROVE  LET r == Fi!AfterIoTimers(st, rq)
           IN  /\ r.left \in Seq(Fp!Job) /\ Fp!OneEach(r.left)
               /\ Fp!LocksSound(Fp!Range(r.left), r.own, r.wait, r.cpu.st, current)
               /\ KInv(r.cpu.st, r.cpu.rq, current)
               /\ Sound(WhyOf(js, r.left, r.wait), r.cpu.st, current)
<1> DEFINE r == Fi!AfterIoTimers(st, rq)
           why == WhyOf(js, ioJobs, lockWaiters)
           why2 == WhyOf(js, r.left, r.wait)
<1>1. /\ ioJobs \in Seq(Fp!Job) /\ Fp!OneEach(ioJobs)
      /\ Fp!LocksSound(Fp!Range(ioJobs), lockOwner, lockWaiters, state, current)
  BY DEF IotInv, Fp!DeviceInv
<1>2. Fp!Range(ioJobs) \subseteq Fp!Job
  BY <1>1, DeviceAssumptions, Fp!JobsInRange
<1>3. /\ why["device"] = OnDevice(ioJobs, lockWaiters)
      /\ why2["device"] = OnDevice(r.left, r.wait)
      /\ \A k \in Kinds \ {"device"} : why2[k] = why[k]
  BY DEF WhyOf, Kinds
<1>4. \A p \in Procs : Fp!Reason(Fp!Range(ioJobs), lockWaiters, p) <=> p \in why["device"]
  BY <1>3, SameOperators DEF OnDevice
<1>5. Fp!LocksSound(Fp!Range(ioJobs), lockOwner, lockWaiters, st, current)
  <2>1. \A p \in Procs : Fp!Reason(Fp!Range(ioJobs), lockWaiters, p)
            /\ Fp!Parked(state, current, p) => Fp!Parked(st, current, p)
    BY <1>4, SameOperators DEF Sound, Kinds
  <2>2. QED
    BY <1>1, <1>2, <2>1, DeviceAssumptions, Fp!ParkedKeepsLocks
<1>6. \A i \in DOMAIN ioJobs : [f \in Files |-> TRUE][ioJobs[i].path]
  <2>1. \A i \in DOMAIN ioJobs : ioJobs[i] \in Fp!Job
    BY <1>1
  <2>2. \A i \in DOMAIN ioJobs : ioJobs[i].path \in Files
    BY <2>1 DEF Fp!Job
  <2>3. QED
    BY <2>2
<1>7. Fp!KInv(st, rq, current)
  BY SameOperators
<1>8. r = Fp!AfterIoTimers(st, rq)
  BY SameTimers
<1>9. /\ r.left \in Seq(Fp!Job) /\ Fp!Once(r.left) /\ Fp!TickInv(r, Fp!Range(r.left))
      /\ Fp!Progress(Fp!BeforeIoTimers(st, rq), Fp!Range(ioJobs), r, Fp!Range(r.left))
  <2>1. LET q == Fp!AfterIoTimers(st, rq)
        IN  /\ q.left \in Seq(Fp!Job) /\ Fp!Once(q.left) /\ Fp!TickInv(q, Fp!Range(q.left))
            /\ Fp!Progress(Fp!BeforeIoTimers(st, rq), Fp!Range(ioJobs), q, Fp!Range(q.left))
    <3> HIDE DEF r, why, why2
    <3>1. QED
      BY <1>1, <1>5, <1>6, <1>7, DeviceAssumptions, Fp!IoTimersInv
  <2> HIDE DEF r
  <2>2. QED
    BY <1>8, <2>1
<1> HIDE DEF r, why, why2
<1>10. /\ Fp!LocksSound(Fp!Range(r.left), r.own, r.wait, r.cpu.st, current)
       /\ KInv(r.cpu.st, r.cpu.rq, current)
  <2>1. /\ Fp!LocksSound(Fp!Range(r.left), r.own, r.wait, r.cpu.st, current)
        /\ Fp!KInv(r.cpu.st, r.cpu.rq, current)
    BY <1>9 DEF Fp!TickInv
  <2>2. QED
    BY <2>1, SameOperators
<1>11. Fp!OneEach(r.left)
  <2>1. \A a, b \in Fp!Range(r.left) : a.pid = b.pid => a = b
    BY <1>10 DEF Fp!LocksSound
  <2>2. QED
    BY <1>9, <2>1, DeviceAssumptions, Fp!OnceIsOneEach
<1>12. \A p \in Procs : Fp!Reason(Fp!Range(r.left), r.wait, p) <=> p \in why2["device"]
  BY <1>3, SameOperators DEF OnDevice
<1>13. \A p \in Procs : /\ p \in why2["device"] => p \in why["device"]
                        /\ r.cpu.st[p] = st[p] \/ p \in why["device"]
                        /\ r.cpu.st[p] = "BLOCKED" =>
                               st[p] = "BLOCKED" /\ (p \in why["device"] => p \in why2["device"])
  <2>1. Fp!BeforeIoTimers(st, rq).wait = lockWaiters /\ Fp!BeforeIoTimers(st, rq).cpu.st = st
    BY DEF Fp!BeforeIoTimers
  <2>2. QED
    BY <1>4, <1>9, <1>12, <2>1 DEF Fp!Progress
<1>14. Sound(why, st, current) /\ why2["device"] \subseteq Procs
  BY <1>3 DEF why, OnDevice
<1>15. ASSUME NEW k \in Kinds, NEW p \in why2[k]
       PROVE  p \in why[k] /\ Parked(r.cpu.st, current, p)
  <2>1. CASE k = "device"
    <3>1. p \in Procs /\ Fp!Reason(Fp!Range(r.left), r.wait, p)
      BY <1>12, <1>14, <1>15, <2>1
    <3>2. Fp!Parked(r.cpu.st, current, p)
      BY <1>10, <3>1 DEF Fp!Reason, Fp!LocksSound
    <3>3. QED
      BY <1>13, <1>15, <2>1, <3>1, <3>2, SameOperators
  <2>2. CASE k # "device"
    <3>1. p \in why[k] /\ p \in Procs /\ Parked(st, current, p)
      BY <1>3, <1>14, <1>15, <2>2 DEF Sound
    <3>2. p \notin why["device"]
      BY <1>14, <2>2, <3>1 DEF Sound, Kinds
    <3>3. r.cpu.st[p] = st[p]
      BY <1>13, <3>1, <3>2
    <3>4. QED
      BY <3>1, <3>3 DEF Parked
  <2>3. QED
    BY <2>1, <2>2
<1>16. ASSUME NEW p \in Procs, r.cpu.st[p] = "BLOCKED"
       PROVE  st[p] = "BLOCKED" /\ \A k \in Kinds : p \in why[k] => p \in why2[k]
  BY <1>3, <1>13, <1>16
<1>17. Sound(why2, r.cpu.st, current)
  BY <1>14, <1>15, <1>16, ShrinkKeeps
<1>18. QED
  BY <1>9, <1>10, <1>11, <1>17 DEF r, why2

(* Then the dispatch: who faults waits for its page, and nobody waits for   *)
(* what a process that ended had.                                           *)
LEMMA DispatchKeepsSound ==
    ASSUME NEW t, Progress(t), KInv(t.st, t.rq, current), SliceOK(current, slice),
           current \in Procs \cup {None}, remaining \in [Procs -> Nat],
           NEW touch \in Touches, NEW eff \in [Procs -> Weights], DispatchPaged(t, touch, eff),
           \A page \in Resident(t.mem) \cup PagesIn(t.left) : reserved[Owner(page)] # None,
           OneFaultEach(t.left),
           NEW why, Sound(why, t.st, current), why["page"] = OnPage(t.left),
           NEW why2, why2["page"] = OnPage(jobs'), \A k \in Kinds \ {"page"} : why2[k] = why[k]
    PROVE  /\ KernelInv' /\ OneFaultEach(jobs') /\ Sound(why2, state', current')
           /\ \A p \in Procs : Parked(t.st, current, p) => Parked(state', current', p)
<1> DEFINE F == FaultsIfPicked(t.mem, touch)
           N == NewlyFaulted(t, touch)
<1>1. CpuStep(t.st, t.rq, eff, F) /\ t.st \in [Procs -> ProcessState] /\ eff \in [Procs -> Int]
  BY KernelAssumption DEF DispatchPaged, KInv
<1>2. KernelInv'
  <2> HIDE DEF F
  <2>1. QED
    BY <1>1, CpuStepKeepsInv
<1>3. /\ \A p \in Procs : Parked(t.st, current, p) =>
             Parked(state', current', p) /\ state'[p] = t.st[p]
      /\ \A p \in Procs : state'[p] = "BLOCKED" => t.st[p] = "BLOCKED" \/ p \in F
  <2> HIDE DEF F
  <2>1. QED
    BY <1>1, TickKeepsParked
<1>4. N \in SUBSET Procs /\ \A p \in Procs : p \in N <=> p \in F /\ t.st[p] # "BLOCKED" /\ state'[p] = "BLOCKED"
  BY DEF NewlyFaulted, FaultsIfPicked
<1> HIDE DEF F, N
<1>5. \A p \in Procs : state'[p] = "BLOCKED" => Parked(state', current', p)
  BY <1>2, KernelAssumption DEF KernelInv, CpuIsExclusive, Parked
<1>6. \A p \in N : ~ Parked(t.st, current, p) /\ Parked(state', current', p)
  BY <1>3, <1>4, <1>5
<1>7. PICK js \in Seq(Job) :
          /\ OnePerPage(js)
          /\ PagesIn(js) = PagesIn(t.left) \cup {<<p, touch[p]>> : p \in N}
          /\ \/ jobs' = js
             \/ \E p \in Completed(t.st) : jobs' = DropJobs(js, p)
  <2>1. \E js \in Seq(Job) :
            /\ OnePerPage(js)
            /\ PagesIn(js) = PagesIn(t.left) \cup {<<p, touch[p]>> : p \in NewlyFaulted(t, touch)}
            /\ \/ jobs' = js
               \/ \E p \in Completed(t.st) : FreeMemory(p, t.mem, js)
    BY DispatchSteps
  <2>2. QED
    BY <2>1 DEF N, FreeMemory
<1>8. \A p : Owner(<<p, touch[p]>>) = p
  BY DEF Owner
<1>9. OnPage(js) = OnPage(t.left) \cup N
  <2>1. \A p \in OnPage(js) : p \in OnPage(t.left) \cup N
    BY <1>7, <1>8 DEF OnPage
  <2>2. \A p \in OnPage(t.left) : p \in OnPage(js)
    BY <1>7 DEF OnPage
  <2>3. \A p \in N : p \in OnPage(js)
    BY <1>7, <1>8 DEF OnPage
  <2>4. QED
    BY <2>1, <2>2, <2>3
<1>10. OneFaultEach(js)
  <2>1. \A p \in N : p \notin OnPage(t.left)
    BY <1>6 DEF Sound, Kinds
  <2>2. \A page \in PagesIn(t.left) : Owner(page) \in OnPage(t.left)
    BY DEF OnPage
  <2>3. SUFFICES ASSUME NEW a \in PagesIn(js), NEW b \in PagesIn(js), Owner(a) = Owner(b)
                 PROVE  a = b
    BY DEF OneFaultEach
  <2>4. CASE a \in PagesIn(t.left) /\ b \in PagesIn(t.left)
    BY <2>3, <2>4 DEF OneFaultEach
  <2>5. ASSUME a \notin PagesIn(t.left) \/ b \notin PagesIn(t.left)
        PROVE  Owner(a) \in N
    BY <1>7, <1>8, <2>3, <2>5
  <2>6. CASE a \notin PagesIn(t.left) \/ b \notin PagesIn(t.left)
    <3>1. a \notin PagesIn(t.left) /\ b \notin PagesIn(t.left)
      BY <2>1, <2>2, <2>3, <2>5, <2>6
    <3>2. PICK p \in N : a = <<p, touch[p]>>
      BY <1>7, <3>1
    <3>3. PICK q \in N : b = <<q, touch[q]>>
      BY <1>7, <3>1
    <3>4. QED
      BY <1>8, <2>3, <3>2, <3>3
  <2>7. QED
    BY <2>4, <2>6
<1> DEFINE why1 == [k \in Kinds |-> IF k = "page" THEN OnPage(js) ELSE why[k]]
<1>11. "page" \in Kinds /\ why1["page"] = OnPage(js) /\ \A k \in Kinds \ {"page"} : why1[k] = why[k]
  BY DEF Kinds
<1> HIDE DEF why1
<1>12. Sound(why1, state', current')
  <2> DEFINE st == t.st
             st2 == state'
             cur2 == current'
  <2>1. Sound(why, st, current) /\ why1["page"] = why["page"] \cup N
    BY <1>9, <1>11
  <2>2. \A p \in N : ~ Parked(st, current, p) /\ Parked(st2, cur2, p)
    BY <1>6
  <2>3. \A p \in Procs : Parked(st, current, p) => Parked(st2, cur2, p)
    BY <1>3
  <2>4. \A p \in Procs : st2[p] = "BLOCKED" => st[p] = "BLOCKED" \/ p \in N
    BY <1>3, <1>4
  <2>5. N \in SUBSET Procs
    BY <1>4
  <2>6. \A k \in Kinds \ {"page"} : why1[k] = why[k]
    BY <1>11
  <2> HIDE DEF st, st2, cur2
  <2>7. Sound(why1, st2, cur2)
    BY <2>1, <2>2, <2>3, <2>4, <2>5, <2>6, PageGrowKeeps
  <2>8. QED
    BY <2>7 DEF st2, cur2
<1>13. /\ PagesIn(jobs') \subseteq PagesIn(js)
       /\ \A page \in PagesIn(js) \ PagesIn(jobs') : state'[Owner(page)] = "TERMINATED"
  <2>1. ASSUME NEW p \in Completed(t.st), jobs' = DropJobs(js, p)
        PROVE  /\ state'[p] = "TERMINATED"
               /\ PagesIn(jobs') = {page \in PagesIn(js) : Owner(page) # p}
    BY <1>1, <1>7, <2>1, CompletedHasEnded, DropJobsInv
  <2>2. QED
    BY <1>7, <2>1
<1>14. OneFaultEach(jobs')
  BY <1>10, <1>13 DEF OneFaultEach
<1>15. /\ OnPage(jobs') \subseteq OnPage(js)
       /\ \A p \in OnPage(js) \ OnPage(jobs') : state'[p] = "TERMINATED"
  BY <1>13 DEF OnPage
<1>16. \A k \in Kinds : \A p \in why2[k] : p \in why1[k] /\ Parked(state', current', p)
  <2>1. \A k \in Kinds : \A p \in why2[k] : p \in why1[k]
    BY <1>11, <1>15
  <2>2. QED
    BY <1>12, <2>1 DEF Sound
<1>17. \A p \in Procs : state'[p] = "BLOCKED" =>
           state'[p] = "BLOCKED" /\ \A k \in Kinds : p \in why1[k] => p \in why2[k]
  BY <1>11, <1>15
<1>18. Sound(why2, state', current')
  BY <1>12, <1>16, <1>17, ShrinkKeeps
<1>19. QED
  BY <1>2, <1>3, <1>14, <1>18

(* The dispatch starts from what the two loops have got to.                 *)
StartAt(s, st, rq) == [s EXCEPT !.st = st, !.rq = rq]

LEMMA DispatchStart ==
    ASSUME NEW s, NEW m, NEW left, NEW st1, NEW rq1, NEW st, NEW rq,
           s = [mem |-> m, left |-> left, st |-> st1, rq |-> rq1]
    PROVE  StartAt(s, st, rq) = [mem |-> m, left |-> left, st |-> st, rq |-> rq]
<1> DEFINE u == [s EXCEPT !.st = st]
<1>1. [s EXCEPT !.st = st, !.rq = rq] = [u EXCEPT !.rq = rq]
  OBVIOUS
<1>2. u = [mem |-> m, left |-> left, st |-> st, rq |-> rq1]
  OBVIOUS
<1> HIDE DEF u
<1>3. [u EXCEPT !.rq = rq] = [mem |-> m, left |-> left, st |-> st, rq |-> rq]
  BY <1>2
<1>4. QED
  BY <1>1, <1>3 DEF StartAt

LEMMA TickKeeps ==
    ASSUME IotInv, IotTick
    PROVE  IotInv'
<1> DEFINE s == AfterFaultTimers
           r == Fi!AfterIoTimers(s.st, s.rq)
           t == StartAt(s, r.cpu.st, r.cpu.rq)
<1>1. PICK touch \in Touches, eff \in [Procs -> Weights] :
          Fi!FilesBecome(r) /\ DispatchPaged(t, touch, eff)
  BY DEF IotTick, StartAt
<1>2. UNCHANGED <<owner, waiting>> /\ UNCHANGED <<permits, semQueue, granted>>
  BY DEF IotTick, lockVars, semVars
<1>3. lockOwner' = r.own /\ lockWaiters' = r.wait /\ ioJobs' = r.left
  BY <1>1 DEF Fi!FilesBecome
<1>4. /\ Progress(s) /\ KInv(s.st, s.rq, current) /\ OneFaultEach(s.left)
      /\ \A page \in Resident(s.mem) \cup PagesIn(s.left) : reserved[Owner(page)] # None
      /\ Sound(WhyOf(s.left, ioJobs, lockWaiters), s.st, current)
  BY FaultTimersKeepSound
<1>5. /\ current \in Procs \cup {None} /\ remaining \in [Procs -> Nat]
      /\ SliceOK(current, slice) /\ reserved \in [Procs -> Nat \cup {None}]
  BY StateTypes DEF IotInv, PagingInv
<1> HIDE DEF s
<1>6. /\ r.left \in Seq(Fp!Job) /\ Fp!OneEach(r.left)
      /\ Fp!LocksSound(Fp!Range(r.left), r.own, r.wait, r.cpu.st, current)
      /\ KInv(r.cpu.st, r.cpu.rq, current)
      /\ Sound(WhyOf(s.left, r.left, r.wait), r.cpu.st, current)
  BY <1>4, IoTimersKeepSound
<1> HIDE DEF r
<1>7. /\ t = [mem |-> s.mem, left |-> s.left, st |-> r.cpu.st, rq |-> r.cpu.rq]
      /\ t.mem = s.mem /\ t.left = s.left /\ t.st = r.cpu.st /\ t.rq = r.cpu.rq
  <2>1. s = [mem |-> s.mem, left |-> s.left, st |-> s.st, rq |-> s.rq]
    BY <1>4 DEF Progress
  <2>2. t = [mem |-> s.mem, left |-> s.left, st |-> r.cpu.st, rq |-> r.cpu.rq]
    BY <2>1, DispatchStart
  <2> HIDE DEF t
  <2>3. QED
    BY <2>2
<1> HIDE DEF t
<1>8. /\ Progress(t) /\ KInv(t.st, t.rq, current) /\ OneFaultEach(t.left)
      /\ \A page \in Resident(t.mem) \cup PagesIn(t.left) : reserved[Owner(page)] # None
      /\ Sound(WhyOf(t.left, r.left, r.wait), t.st, current)
  BY <1>4, <1>6, <1>7 DEF Progress
<1>9. PagingInv'
  BY <1>1, <1>5, <1>8, DispatchPagedInv
<1> DEFINE why == WhyOf(t.left, r.left, r.wait)
<1>10. /\ why["page"] = OnPage(t.left) /\ why["device"] = OnDevice(r.left, r.wait)
       /\ why["permit"] = Range(semQueue) /\ why["lock"] = OnLock(waiting)
  BY DEF WhyOf
<1>11. /\ Why'["page"] = OnPage(jobs')
       /\ \A k \in Kinds \ {"page"} : Why'[k] = why[k]
  BY <1>2, <1>3, <1>10, WhyFields DEF Kinds
<1>12. Sound(why, t.st, current) /\ why["page"] = OnPage(t.left)
  BY <1>8, <1>10
<1> HIDE DEF why
<1>13. /\ KernelInv' /\ OneFaultEach(jobs') /\ Sound(Why', state', current')
       /\ \A p \in Procs : Parked(t.st, current, p) => Parked(state', current', p)
  <2>1. /\ Progress(t) /\ KInv(t.st, t.rq, current) /\ OneFaultEach(t.left)
        /\ \A page \in Resident(t.mem) \cup PagesIn(t.left) : reserved[Owner(page)] # None
    BY <1>8
  <2> DEFINE next == Why'
  <2>2. next["page"] = OnPage(jobs') /\ \A k \in Kinds \ {"page"} : next[k] = why[k]
    BY <1>11
  <2> HIDE DEF next
  <2>3. /\ KernelInv' /\ OneFaultEach(jobs') /\ Sound(next, state', current')
        /\ \A p \in Procs : Parked(t.st, current, p) => Parked(state', current', p)
    BY <1>1, <1>5, <1>12, <2>1, <2>2, DispatchKeepsSound
  <2>4. QED
    BY <2>3 DEF next
<1>14. Fp!DeviceInv'
  <2>1. Fp!Range(r.left) \subseteq Fp!Job
    BY <1>6, DeviceAssumptions, Fp!JobsInRange
  <2>2. \A p \in Procs : Fp!Reason(Fp!Range(r.left), r.wait, p)
            /\ Fp!Parked(r.cpu.st, current, p) => Fp!Parked(state', current', p)
    BY <1>7, <1>13, SameOperators
  <2>3. Fp!LocksSound(Fp!Range(r.left), r.own, r.wait, state', current')
    BY <1>6, <2>1, <2>2, DeviceAssumptions, Fp!ParkedKeepsLocks
  <2>4. QED
    BY <1>3, <1>6, <2>3 DEF Fp!DeviceInv
<1>15. LocksInv' /\ SemInv'
  BY <1>2 DEF IotInv, LocksInv, SemInv
<1>16. QED
  BY <1>9, <1>13, <1>14, <1>15 DEF IotInv

-----------------------------------------------------------------------------
LEMMA IotInitInv == IotInit => IotInv
<1> SUFFICES ASSUME IotInit PROVE IotInv
  OBVIOUS
<1>1. KernelInv /\ PagingInv
  BY KernelInitInv, InitPagingInv DEF IotInit, PagingInit
<1>2. /\ owner = [l \in Locks |-> None] /\ waiting = [l \in Locks |-> <<>>]
      /\ lockOwner = [f \in Files |-> None] /\ lockWaiters = [f \in Files |-> <<>>]
      /\ ioJobs = <<>> /\ permits = 0 /\ semQueue = <<>> /\ granted = {} /\ jobs = <<>>
      /\ state = [p \in Procs |-> "NEW"]
  BY DEF IotInit, LockInit, PagingInit, KernelInit
<1>3. <<>> \in Seq(Procs) /\ Range(<<>>) = {} /\ Once(<<>>)
  BY DEF Range, Once
<1>4. LocksInv /\ SemInv
  BY <1>2, <1>3 DEF LocksInv, SemInv
<1>5. PagesIn(jobs) = {}
  BY <1>2 DEF PagesIn
<1>6. Fp!Range(ioJobs) = {} /\ \A f \in Files : Fp!Range(lockWaiters[f]) = {}
  BY <1>2, <1>3, SameOperators
<1>7. Fp!DeviceInv
  <2>1. ioJobs \in Seq(Fp!Job) /\ Fp!OneEach(ioJobs)
    BY <1>2 DEF Fp!OneEach
  <2>2. lockWaiters \in [Files -> Seq(Procs)] /\ \A f \in Files : Fp!Once(lockWaiters[f])
    BY <1>2, <1>3, SameOperators
  <2>3. QED
    BY <1>2, <1>6, <2>1, <2>2 DEF Fp!DeviceInv, Fp!LocksSound
<1>8. Sound(Why, state, current)
  <2>1. OnPage(jobs) = {} /\ OnLock(waiting) = {} /\ OnDevice(ioJobs, lockWaiters) = {}
    BY <1>2, <1>3, <1>5, <1>6 DEF OnPage, OnLock, OnDevice, Fp!Reason
  <2>2. \A k \in Kinds : Why[k] = {}
    BY <1>2, <1>3, <2>1, WhyFields DEF Kinds
  <2>3. QED
    BY <1>2, <2>2 DEF Sound
<1>9. QED
  BY <1>1, <1>4, <1>5, <1>7, <1>8 DEF IotInv, OneFaultEach

LEMMA IotNextInv == IotInv /\ [IotNext]_iotVars => IotInv'
<1> SUFFICES ASSUME IotInv, [IotNext]_iotVars PROVE IotInv'
  OBVIOUS
<1>1. CASE UNCHANGED iotVars
  <2>1. /\ UNCHANGED <<kernelVars, memoryVars, deviceVars>> /\ waiting' = waiting
        /\ semQueue' = semQueue /\ UNCHANGED <<owner, permits, granted>>
    BY <1>1 DEF iotVars, pagingVars, lockVars, semVars
  <2>2. LocksInv' /\ SemInv'
    BY <2>1 DEF IotInv, LocksInv, SemInv
  <2>3. QED
    BY <2>1, <2>2, QuietKeeps DEF IotInv
<1>2. CASE KernelCall /\ UNCHANGED <<memoryVars, lockVars, deviceVars, semVars>>
  BY <1>2, KernelCallKeeps
<1>3. CASE MemoryCall /\ UNCHANGED <<lockVars, deviceVars, semVars>>
  BY <1>3, MemoryCallKeeps
<1>4. CASE LockCall(AwakeProcs) /\ UNCHANGED <<memoryVars, deviceVars, semVars>>
  BY <1>4, LockCallKeeps
<1>5. CASE SemCall(AwakeProcs) /\ UNCHANGED <<memoryVars, lockVars, deviceVars>>
  BY <1>5, SemWaitKeeps, SemSignalKeeps DEF SemCall, AwakeProcs
<1>6. CASE FileCall(AwakeProcs) /\ UNCHANGED <<memoryVars, lockVars, semVars>>
  BY <1>6, FileCallKeeps
<1>7. CASE IotTick
  BY <1>7, TickKeeps
<1>8. QED
  BY <1>1, <1>2, <1>3, <1>4, <1>5, <1>6, <1>7 DEF IotNext, IotStep

(* The components keep in the composed system what they keep alone, the     *)
(* four sets of waiting processes are disjoint, and all in them are parked. *)
THEOREM IotInvariant == IotSpec => []IotInv
<1> QED BY IotInitInv, IotNextInv, PTL DEF IotSpec

(* Four ways to be woken leave the ready queue and the CPU in order.        *)
THEOREM IotKeepsKernel == IotSpec => []KernelInv
<1>1. IotInv => KernelInv
  BY DEF IotInv
<1> QED BY <1>1, IotInvariant, PTL

(* Whoever else blocks and wakes the owners of the pages, the frame table   *)
(* and the page tables agree.                                               *)
THEOREM IotKeepsFrames == IotSpec => []FrameBookkeeping
<1>1. IotInv => FrameBookkeeping
  BY DEF IotInv, PagingInv, MemInv, FrameBookkeeping
<1> QED BY <1>1, IotInvariant, PTL

(* A waiter of a lock, by its place in the queue.                           *)
LEMMA LockWaiters ==
    ASSUME IotInv
    PROVE  WaitersParked
<1>1. LocksInv /\ Sound(Why, state, current)
  BY DEF IotInv
<1>2. \A l \in Locks : \A i \in DOMAIN waiting[l] : waiting[l][i] \in Range(waiting[l])
  BY DEF Range
<1>3. \A l \in Locks : Once(waiting[l])
  BY <1>1 DEF LocksInv
<1>4. \A l \in Locks : \A w \in Range(waiting[l]) :
          /\ owner[l] \notin {None, w} /\ \A m \in Locks : w \in Range(waiting[m]) => l = m
  BY <1>1 DEF LocksInv
<1>5. \A l \in Locks : \A w \in Range(waiting[l]) : Parked(state, current, w)
  <2>1. \A w \in OnLock(waiting) : Parked(state, current, w)
    BY <1>1, WhyFields DEF Sound, Kinds
  <2>2. \A l \in Locks : \A w \in Range(waiting[l]) : w \in Procs
    BY <1>1, RangeOfQueue DEF LocksInv
  <2>3. QED
    BY <2>1, <2>2 DEF OnLock
<1>6. ASSUME NEW l \in Locks, NEW i \in DOMAIN waiting[l]
      PROVE  /\ owner[l] \notin {None, waiting[l][i]}
             /\ \A m \in Locks : \A j \in DOMAIN waiting[m] :
                    waiting[l][i] = waiting[m][j] => l = m /\ i = j
  <2>1. owner[l] \notin {None, waiting[l][i]}
    BY <1>2, <1>4
  <2>2. ASSUME NEW m \in Locks, NEW j \in DOMAIN waiting[m], waiting[l][i] = waiting[m][j]
        PROVE  l = m /\ i = j
    <3>1. l = m
      BY <1>2, <1>4, <2>2
    <3>2. QED
      BY <1>3, <2>2, <3>1 DEF Once
  <2>3. QED
    BY <2>1, <2>2
<1>7. WaitersQueued
  BY <1>6 DEF WaitersQueued
<1>8. \A l \in Locks : \A w \in Range(waiting[l]) : state[w] \in {"BLOCKED", "TERMINATED"}
  BY <1>5 DEF Parked
<1>9. QED
  BY <1>7, <1>8 DEF WaitersParked

(* In the composed system too, every queue holds each process once and off  *)
(* the CPU, for something that is held, and no grant is lost.               *)
THEOREM WaitersStaySound == IotSpec => []WaitersSound
<1>1. IotInv => WaitersSound
  <2> SUFFICES ASSUME IotInv PROVE WaitersSound
    OBVIOUS
  <2>1. Fp!DeviceUnderLocks
    BY DeviceAssumptions, Fp!DeviceInvHolds DEF IotInv
  <2>2. Fi!DeviceUnderLocks
    BY <2>1 DEF Fp!DeviceUnderLocks, Fp!JobsHoldLocks, Fp!WaitersOnHeldLocks,
                Fi!DeviceUnderLocks, Fi!JobsHoldLocks, Fi!WaitersOnHeldLocks
  <2>3. SemInv
    BY DEF IotInv
  <2>4. NoRepeats(semQueue) /\ Range(semQueue) \cap granted = {} /\ (semQueue # <<>> => permits = 0)
    BY <2>3, NoRepeatsIsOnce DEF SemInv
  <2>5. QED
    BY <2>2, <2>4, LockWaiters DEF WaitersSound
<1> QED BY <1>1, IotInvariant, PTL

-----------------------------------------------------------------------------
(* The places where p waits, of each kind: there is at most one, and there  *)
(* is one exactly if p is in the set of those who wait for that kind.       *)
AtMostOne(S) == \A x, y \in S : x = y

FaultsOf(p) == {i \in DOMAIN jobs : Owner(jobs[i].page) = p}
TransfersOf(p) == {i \in DOMAIN ioJobs : ioJobs[i].pid = p}
PermitsOf(p) == {i \in DOMAIN semQueue : semQueue[i] = p}
LocksOf(p) == {l \in Locks : p \in Range(waiting[l])}
FilesOf(p) == {f \in Files : p \in Range(lockWaiters[f])}

LEMMA OnePlace ==
    ASSUME IotInv, NEW p \in Procs
    PROVE  /\ AtMostOne(FaultsOf(p)) /\ (FaultsOf(p) # {} <=> p \in Why["page"])
           /\ AtMostOne(TransfersOf(p)) /\ AtMostOne(FilesOf(p))
           /\ TransfersOf(p) = {} \/ FilesOf(p) = {}
           /\ TransfersOf(p) # {} \/ FilesOf(p) # {} <=> p \in Why["device"]
           /\ AtMostOne(PermitsOf(p)) /\ (PermitsOf(p) # {} <=> p \in Why["permit"])
           /\ AtMostOne(LocksOf(p)) /\ (LocksOf(p) # {} <=> p \in Why["lock"])
<1>1. AtMostOne(FaultsOf(p)) /\ (FaultsOf(p) # {} <=> p \in Why["page"])
  <2>1. OnePerPage(jobs) /\ OneFaultEach(jobs)
    BY DEF IotInv, PagingInv
  <2>2. \A i \in DOMAIN jobs : jobs[i].page \in PagesIn(jobs)
    BY DEF PagesIn
  <2>3. AtMostOne(FaultsOf(p))
    BY <2>1, <2>2 DEF AtMostOne, FaultsOf, OnePerPage, OneFaultEach
  <2>4. FaultsOf(p) # {} <=> p \in OnPage(jobs)
    BY DEF FaultsOf, OnPage, PagesIn
  <2>5. QED
    BY <2>3, <2>4, WhyFields
<1>2. /\ AtMostOne(TransfersOf(p)) /\ AtMostOne(FilesOf(p))
      /\ TransfersOf(p) = {} \/ FilesOf(p) = {}
      /\ TransfersOf(p) # {} \/ FilesOf(p) # {} <=> p \in Why["device"]
  <2>1. /\ Fp!OneEach(ioJobs) /\ ioJobs \in Seq(Fp!Job)
        /\ Fp!LocksSound(Fp!Range(ioJobs), lockOwner, lockWaiters, state, current)
    BY DEF IotInv, Fp!DeviceInv
  <2>2. /\ \A i \in DOMAIN ioJobs : ioJobs[i] \in Fp!Range(ioJobs)
        /\ \A a \in Fp!Range(ioJobs) : \E i \in DOMAIN ioJobs : ioJobs[i] = a
    BY <2>1, DeviceAssumptions, Fp!JobsInRange
  <2>3. AtMostOne(TransfersOf(p))
    BY <2>1 DEF AtMostOne, TransfersOf, Fp!OneEach
  <2>4. \A f \in Files : \A w \in Range(lockWaiters[f]) :
            /\ \A g \in Files : w \in Range(lockWaiters[g]) => f = g
            /\ \A a \in Fp!Range(ioJobs) : a.pid # w
    BY <2>1, SameOperators DEF Fp!LocksSound
  <2>5. AtMostOne(FilesOf(p))
    BY <2>4 DEF AtMostOne, FilesOf
  <2>6. TransfersOf(p) = {} \/ FilesOf(p) = {}
    BY <2>2, <2>4 DEF TransfersOf, FilesOf
  <2>7. p \in OnDevice(ioJobs, lockWaiters) <=>
            \/ \E a \in Fp!Range(ioJobs) : a.pid = p
            \/ \E f \in Files : p \in Range(lockWaiters[f])
    BY SameOperators DEF OnDevice, Fp!Reason
  <2>8. TransfersOf(p) # {} <=> \E a \in Fp!Range(ioJobs) : a.pid = p
    BY <2>2 DEF TransfersOf
  <2>9. FilesOf(p) # {} <=> \E f \in Files : p \in Range(lockWaiters[f])
    BY DEF FilesOf
  <2>10. QED
    BY <2>3, <2>5, <2>6, <2>7, <2>8, <2>9, WhyFields
<1>3. AtMostOne(PermitsOf(p)) /\ (PermitsOf(p) # {} <=> p \in Why["permit"])
  <2>1. Once(semQueue)
    BY DEF IotInv, SemInv
  <2>2. AtMostOne(PermitsOf(p))
    BY <2>1 DEF AtMostOne, PermitsOf, Once
  <2>3. PermitsOf(p) # {} <=> p \in Range(semQueue)
    BY DEF PermitsOf, Range
  <2>4. QED
    BY <2>2, <2>3, WhyFields
<1>4. AtMostOne(LocksOf(p)) /\ (LocksOf(p) # {} <=> p \in Why["lock"])
  <2>1. AtMostOne(LocksOf(p))
    BY DEF IotInv, LocksInv, AtMostOne, LocksOf
  <2>2. LocksOf(p) # {} <=> p \in OnLock(waiting)
    BY DEF LocksOf, OnLock
  <2>3. QED
    BY <2>1, <2>2, WhyFields
<1>5. QED
  BY <1>1, <1>2, <1>3, <1>4

LEMMA OneOrNone ==
    ASSUME IotInv, NEW p \in Procs
    PROVE  AtMostOne(Reasons(p)) /\ (Reasons(p) # {} <=> \E k \in Kinds : p \in Why[k])
<1> DEFINE A == FaultsOf(p)
           B == TransfersOf(p)
           C == PermitsOf(p)
           D == LocksOf(p)
           E == FilesOf(p)
<1>1. Reasons(p) = {<<"page", i>> : i \in A} \cup {<<"io", i>> : i \in B}
                   \cup {<<"permit", i>> : i \in C} \cup {<<"lock", l>> : l \in D}
                   \cup {<<"file", f>> : f \in E}
  BY DEF Reasons, FaultsOf, TransfersOf, PermitsOf, LocksOf, FilesOf
<1>2. /\ AtMostOne(A) /\ AtMostOne(B) /\ AtMostOne(C) /\ AtMostOne(D) /\ AtMostOne(E)
      /\ B = {} \/ E = {}
      /\ A # {} <=> p \in Why["page"]
      /\ B # {} \/ E # {} <=> p \in Why["device"]
      /\ C # {} <=> p \in Why["permit"]
      /\ D # {} <=> p \in Why["lock"]
  BY OnePlace
<1> HIDE DEF A, B, C, D, E
<1>3. \A k, l \in Kinds : p \in Why[k] /\ p \in Why[l] => k = l
  BY DEF IotInv, Sound
<1>4. /\ A # {} => B = {} /\ C = {} /\ D = {} /\ E = {}
      /\ B # {} => A = {} /\ C = {} /\ D = {} /\ E = {}
      /\ C # {} => A = {} /\ B = {} /\ D = {} /\ E = {}
      /\ D # {} => A = {} /\ B = {} /\ C = {} /\ E = {}
      /\ E # {} => A = {} /\ B = {} /\ C = {} /\ D = {}
  BY <1>2, <1>3 DEF Kinds
<1>5. AtMostOne(Reasons(p))
  <2>1. CASE A # {}
    BY <1>1, <1>2, <1>4, <2>1 DEF AtMostOne
  <2>2. CASE B # {}
    BY <1>1, <1>2, <1>4, <2>2 DEF AtMostOne
  <2>3. CASE C # {}
    BY <1>1, <1>2, <1>4, <2>3 DEF AtMostOne
  <2>4. CASE D # {}
    BY <1>1, <1>2, <1>4, <2>4 DEF AtMostOne
  <2>5. CASE E # {}
    BY <1>1, <1>2, <1>4, <2>5 DEF AtMostOne
  <2>6. CASE A = {} /\ B = {} /\ C = {} /\ D = {} /\ E = {}
    BY <1>1, <2>6 DEF AtMostOne
  <2>7. QED
    BY <2>1, <2>2, <2>3, <2>4, <2>5, <2>6
<1>6. Reasons(p) # {} <=> A # {} \/ B # {} \/ C # {} \/ D # {} \/ E # {}
  BY <1>1
<1>7. QED
  BY <1>2, <1>5, <1>6 DEF Kinds

(* Wake-ups carry no reason, and each finds only processes that wait for    *)
(* it: who is BLOCKED waits for one thing and who is awake for nothing.     *)
THEOREM BlockedForOneReason == FramesForPages => (IotSpec => []OneReason)
<1> SUFFICES ASSUME FramesForPages PROVE IotSpec => []OneReason
  OBVIOUS
<1>1. IotInv => OneReason
  <2> SUFFICES ASSUME IotInv, NEW p \in Procs
               PROVE  /\ state[p] = "BLOCKED" => Cardinality(Reasons(p)) = 1
                      /\ Awake(p) => Reasons(p) = {}
    BY DEF OneReason
  <2>1. AtMostOne(Reasons(p)) /\ (Reasons(p) # {} <=> \E k \in Kinds : p \in Why[k])
    BY OneOrNone
  <2>2. ASSUME state[p] = "BLOCKED" PROVE Cardinality(Reasons(p)) = 1
    <3>1. \E k \in Kinds : p \in Why[k]
      BY <2>2 DEF IotInv, Sound
    <3>2. PICK x \in Reasons(p) : TRUE
      BY <2>1, <3>1
    <3>3. Reasons(p) = {x}
      BY <2>1, <3>2 DEF AtMostOne
    <3>4. QED
      BY <3>3, FS_Singleton
  <2>3. Awake(p) => Reasons(p) = {}
    BY <2>1, AwakeWaitsForNothing
  <2>4. QED
    BY <2>2, <2>3
<1>2. QED
  BY <1>1, IotInvariant, PTL

=============================================================================
