------------------------------- MODULE Paging -------------------------------
(***************************************************************************)
(* The memory manager under the kernel: byte reservations, page frames,    *)
(* the page tables of the processes, the fault jobs in flight and FIFO     *)
(* replacement.  A tick counts the fault jobs down and loads the pages     *)
(* that are due, then dispatches; whether the processes it picks fault     *)
(* follows from the page tables, and a process that completes is freed.    *)
(*                                                                         *)
(* Left out: the address within a page, and which page a process touches   *)
(* at which clock (any of its pages, in every tick).  The load_seq of a    *)
(* frame is only ever compared, so the order of the loads stands for it.   *)
(***************************************************************************)
EXTENDS Kernel, SequencesExt

CONSTANTS
    TotalMemory,    \* bytes of physical memory
    PageSize,
    FaultTicks,     \* MemoryManager.fault_handling_ticks
    Amounts,        \* reservations, in bytes, the scripts ask for, by process
    Killable,       \* processes a script may terminate
    Meddled         \* processes other components may block and wake at any time

ASSUME PagingAssumption ==
    /\ TotalMemory \in Nat /\ PageSize \in Nat \ {0} /\ FaultTicks \in Nat \ {0}
    /\ Amounts \in [Procs -> SUBSET Nat]
    /\ Killable \subseteq Procs /\ Meddled \subseteq Procs
    /\ None \notin Nat /\ None \notin Procs \X Nat

VARIABLES
    reserved,   \* _reservation_bytes; None is no entry
    used,       \* used_memory
    mem,        \* the frames: see NoMemoryInUse
    jobs        \* _fault_jobs: the page, with its process, and ticks_remaining

memoryVars == <<reserved, used, mem, jobs>>
pagingVars == <<kernelVars, memoryVars>>

NumFrames == TotalMemory \div PageSize
Frames == 0..(NumFrames - 1)

PageCount(bytes) == (bytes + (PageSize - 1)) \div PageSize
Pages == 0..(PageCount(TotalMemory) - 1)

Bytes(p) == IF reserved[p] = None THEN 0 ELSE reserved[p]

(* An entry of 0 has no pages to access, but keeps its frames and its jobs. *)
LogicalPages(p) == 0..(PageCount(Bytes(p)) - 1)

Space == Procs \X Pages         \* a page of a process
Owner(page) == page[1]

NoMemoryInUse ==
    [frame |-> [f \in Frames |-> None],         \* _frame_table
     free |-> [i \in 1..NumFrames |-> i - 1],   \* _free_frames
     order |-> <<>>,                            \* frames in use, by load_seq
     table |-> [page \in Space |-> None]]       \* PCB.page_table of everybody

PagingInit ==
    /\ KernelInit
    /\ reserved = [p \in Procs |-> None] /\ used = 0
    /\ mem = NoMemoryInUse /\ jobs = <<>>

-----------------------------------------------------------------------------
(* A frame changes hands.                                                   *)
RemoveFrame(order, f) == RemoveAt(order, CHOOSE i \in DOMAIN order : order[i] = f)

ReleaseKeepingMapping(m, f) ==                                      \* mutant
    [m EXCEPT !.frame[f] = None, !.free = Append(@, f), !.order = RemoveFrame(@, f)]

ReleaseFrame(m, f) ==
    [frame |-> [m.frame EXCEPT ![f] = None],
     free |-> Append(m.free, f),
     order |-> RemoveFrame(m.order, f),
     table |-> [m.table EXCEPT ![m.frame[f]] = None]]

FillFrame(m, page) ==
    LET f == Head(m.free)
    IN  [frame |-> [m.frame EXCEPT ![f] = page],
         free |-> Tail(m.free),
         order |-> Append(m.order, f),
         table |-> [m.table EXCEPT ![page] = f]]

EvictNewest(m) == ReleaseFrame(m, Last(m.order))                    \* mutant

EvictOldest(m) == ReleaseFrame(m, Head(m.order))

LoadEvictingFirst(m, page) ==                                       \* mutant
    FillFrame(IF m.order # <<>> THEN EvictOldest(m) ELSE m, page)

Load(m, page) == FillFrame(IF m.free = <<>> THEN EvictOldest(m) ELSE m, page)

TakeBack(m, p, f) ==
    IF m.frame[f] # None /\ Owner(m.frame[f]) = p THEN ReleaseFrame(m, f) ELSE m

FreeFrames(m, p) ==
    LET swept[n \in 0..NumFrames] == IF n = 0 THEN m ELSE TakeBack(swept[n - 1], p, n - 1)
    IN  swept[NumFrames]

-----------------------------------------------------------------------------
(* Fault jobs.  `s` is what a tick has got to: the memory, the jobs left,   *)
(* the process states and the ready queue.                                  *)
LoadWithoutWaking(s, page) == [s EXCEPT !.mem = Load(@, page)]      \* mutant

CompleteLoad(s, page) ==
    LET p == Owner(page)
    IN  IF NumFrames = 0 THEN s
        ELSE [s EXCEPT !.mem = Load(@, page),
                       !.st = WakeState(@, p),
                       !.rq = IF s.st[p] = "BLOCKED" THEN WakeQueue(s.st, @, p) ELSE @]

CountDown(s, job) ==
    IF job.ticks > 1 THEN [s EXCEPT !.left = Append(@, [job EXCEPT !.ticks = @ - 1])]
    ELSE CompleteLoad(s, job.page)

BeforeFaultTimers == [mem |-> mem, left |-> <<>>, st |-> state, rq |-> ready]

AfterFaultTimers ==
    LET passed[n \in 0..Len(jobs)] ==
            IF n = 0 THEN BeforeFaultTimers ELSE CountDown(passed[n - 1], jobs[n])
    IN  passed[Len(jobs)]

Keep(js, p, job) == IF Owner(job.page) = p THEN js ELSE Append(js, job)

DropJobs(js, p) ==
    LET kept[n \in 0..Len(js)] == IF n = 0 THEN <<>> ELSE Keep(kept[n - 1], p, js[n])
    IN  kept[Len(js)]

IsFaulting(js, page) == \E i \in DOMAIN js : js[i].page = page

(* The processes in S, in the order in which the dispatch loop picks them.  *)
PickedBefore(rq, eff, p, q) ==
    IF Policy = "priority" THEN Precedes(eff, p, q) ELSE InOrder(<<current>> \o rq, p, q)

PickOrders(S, rq, eff) ==
    {s \in [1..Cardinality(S) -> S] :
        /\ Range(s) = S
        /\ \A i, j \in DOMAIN s : i < j => PickedBefore(rq, eff, s[i], s[j])}

BeginFaultsAgain(js, touch, S) == S                                 \* mutant

(* begin_fault_resolution: no second job for a page already on its way.     *)
NewFaults(js, touch, S) == {p \in S : ~ IsFaulting(js, <<p, touch[p]>>)}

JobsFor(procs, touch) ==
    [i \in DOMAIN procs |-> [page |-> <<procs[i], touch[procs[i]]>>, ticks |-> FaultTicks]]

-----------------------------------------------------------------------------
(* The scripts: a reservation is granted if its increase fits.              *)
IncreaseUnlessShrinking(p, amount) ==                               \* mutant
    IF amount > Bytes(p) THEN amount - Bytes(p) ELSE 0

Increase(p, amount) == amount - Bytes(p)

Allocate(p, amount) ==
    /\ state[p] # "TERMINATED"
    /\ used + Increase(p, amount) <= TotalMemory
    /\ used' = used + Increase(p, amount)
    /\ reserved' = [reserved EXCEPT ![p] = amount]
    /\ UNCHANGED <<kernelVars, mem, jobs>>

(* memory.free(p), when the memory and the jobs are at m and js.            *)
FreeMemory(p, m, js) ==
    /\ mem' = FreeFrames(m, p)
    /\ jobs' = DropJobs(js, p)
    /\ used' = IF used >= Bytes(p) THEN used - Bytes(p) ELSE 0
    /\ reserved' = [reserved EXCEPT ![p] = None]

ScriptFrees(p) ==
    /\ state[p] = "TERMINATED"
    /\ FreeMemory(p, mem, jobs)
    /\ UNCHANGED kernelVars

-----------------------------------------------------------------------------
(* The tick.  A touch assigns each process the page it accesses if picked.  *)
Touches ==
    {t \in [Procs -> Pages] :
        \A p \in Procs : t[p] \in LogicalPages(p) \/ (LogicalPages(p) = {} /\ t[p] = 0)}

FaultsIfPicked(m, touch) ==
    {p \in Procs : PageFaults /\ LogicalPages(p) # {} /\ m.table[<<p, touch[p]>>] = None}

(* The process whose burst ends in this step.                               *)
Completed(st) ==
    {p \in Procs : /\ remaining'[p] = 0
                   /\ remaining[p] > 0 \/ (st[p] # "TERMINATED" /\ state'[p] = "TERMINATED")}

DispatchPaged(s, touch, eff) ==
    /\ CpuStep(s.st, s.rq, eff, FaultsIfPicked(s.mem, touch))
    /\ \E faulted \in {{p \in FaultsIfPicked(s.mem, touch) :
                            s.st[p] # "BLOCKED" /\ state'[p] = "BLOCKED"}} :
       \E picks \in PickOrders(NewFaults(s.left, touch, faulted), s.rq, eff) :
       \E js \in {s.left \o JobsFor(picks, touch)} :
          \/ /\ Completed(s.st) = {}
             /\ mem' = s.mem /\ jobs' = js /\ UNCHANGED <<reserved, used>>
          \/ \E p \in Completed(s.st) : FreeMemory(p, s.mem, js)

PagingTick ==
    \E s \in {AfterFaultTimers}, touch \in Touches, eff \in [Procs -> Weights] :
        DispatchPaged(s, touch, eff)

PagingNext ==
    \/ \E p \in Procs : Admit(p) /\ UNCHANGED memoryVars
    \/ \E p \in Killable : Terminate(p) /\ UNCHANGED memoryVars
    \/ \E p \in Meddled : (BlockProcess(p) \/ WakeProcess(p)) /\ UNCHANGED memoryVars
    \/ \E p \in Procs : \E amount \in Amounts[p] : Allocate(p, amount)
    \/ \E p \in Procs : ScriptFrees(p)
    \/ PagingTick

(* The drivers tick as long as somebody is READY or a fault is pending.     *)
PagingSpec == PagingInit /\ [][PagingNext]_pagingVars /\ WF_pagingVars(PagingTick)

-----------------------------------------------------------------------------
(* Types; the bytes in use are those reserved, and never more than there    *)
(* are, although pages may be rounded up to more than the frames.           *)
MemoryTypes ==
    /\ reserved \in [Procs -> 0..TotalMemory \cup {None}]
    /\ mem.frame \in [Frames -> Space \cup {None}]
    /\ mem.free \in Seq(Frames) /\ mem.order \in Seq(Frames)
    /\ mem.table \in [Space -> Frames \cup {None}]
    /\ jobs \in Seq([page : Space, ticks : 1..FaultTicks])

PagingTypeOK ==
    /\ MemoryTypes
    /\ used = SumFunction([p \in Procs |-> Bytes(p)]) /\ used <= TotalMemory

(* Frame table and page tables are two views of one thing: a page is mapped *)
(* to a frame exactly if the frame holds it.  So no page is in two frames,  *)
(* and no access goes to a frame that was given to somebody else.           *)
FramesMatchTables(m) == \A page \in Space, f \in Frames : m.table[page] = f <=> m.frame[f] = page

(* The free list is exactly the empty frames and the load order exactly the *)
(* frames in use, each frame once: none is lost and none handed out twice.  *)
NoRepeats(s) == \A i, j \in DOMAIN s : s[i] = s[j] => i = j

FramesAccountedFor(m) ==
    /\ NoRepeats(m.free) /\ Range(m.free) = {f \in Frames : m.frame[f] = None}
    /\ NoRepeats(m.order) /\ Range(m.order) = {f \in Frames : m.frame[f] # None}

FrameBookkeeping == FramesMatchTables(mem) /\ FramesAccountedFor(mem)

(* A job is in flight for each missing page once, whatever woke the process *)
(* in the meantime and let it fault again; and a process that was freed, or *)
(* never reserved anything, has neither a job nor a frame, so no page-in    *)
(* can come after it.                                                       *)
FaultJobsSound ==
    /\ \A i \in DOMAIN jobs : mem.table[jobs[i].page] = None
    /\ \A i, j \in DOMAIN jobs : jobs[i].page = jobs[j].page => i = j
    /\ \A p \in Procs : reserved[p] = None =>
           /\ \A i \in DOMAIN jobs : Owner(jobs[i].page) # p
           /\ \A page \in {p} \X Pages : mem.table[page] = None

(* Replacement is first in, first out: when a page of a process that is     *)
(* still there loses its frame, every page loaded before it has lost its    *)
(* own by then, however many loads the tick completed.                      *)
LosesPage(f) == mem.frame[f] # None /\ mem'.table[mem.frame[f]] # f

Evicted(f) == LosesPage(f) /\ reserved'[Owner(mem.frame[f])] # None

OldestFirst ==
    [][\A f, g \in Frames : InOrder(mem.order, f, g) /\ Evicted(g) => LosesPage(f)]_pagingVars

(* The only way not to get on is to thrash: if evictions come to an end, a  *)
(* READY process that no other component blocks runs to its end.            *)
ProgressUnlessThrashing ==
    <>[][\A f \in Frames : ~ Evicted(f)]_pagingVars =>
        \A p \in Procs \ Meddled : state[p] = "READY" ~> state[p] = "TERMINATED"

(* The frames, the tables and the jobs implement demand paging.             *)
Demand == INSTANCE DemandPaging WITH
    Size <- NumFrames,
    resident <- {page \in Space : mem.table[page] # None},
    wanted <- {jobs[i].page : i \in DOMAIN jobs}

ImplementsDemandPaging == Demand!DemandSpec

=============================================================================
