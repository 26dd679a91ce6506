----------------------------- MODULE Scheduling -----------------------------
(***************************************************************************)
(* The kernel with its clock: priority aging, the first and last tick of   *)
(* every process, from which PCB.finalize_metrics derives waiting,         *)
(* turnaround and response time, and the count of context switches.        *)
(*                                                                         *)
(* No page faults and no pending I/O here: the clock of _cpu_step advances *)
(* only in a tick that executes a process, so it needs no bound.           *)
(***************************************************************************)
EXTENDS Kernel, FiniteSetsExt

CONSTANTS
    Base,           \* priority given to create_process
    AgingInterval   \* Simulation.aging_interval; below 1 it disables aging

ASSUME SchedulingAssumption ==
    /\ Base \in [Procs -> Int] /\ AgingInterval \in Int
    /\ None \notin Nat        \* no time is the None of a PCB without one

VARIABLES
    clock,      \* Simulation._sim_clock
    bonus,      \* PCB.aging_bonus
    started,    \* PCB.start_time
    finished,   \* PCB.completion_time
    lastRan,    \* Simulation._cs_prev_pid
    switches    \* Simulation.context_switches

metricVars == <<clock, bonus, started, finished, lastRan, switches>>
schedVars == <<kernelVars, metricVars>>

SchedInit ==
    /\ KernelInit
    /\ clock = 0 /\ switches = 0 /\ lastRan = None
    /\ bonus = [p \in Procs |-> 0]
    /\ started = [p \in Procs |-> None]
    /\ finished = [p \in Procs |-> None]

-----------------------------------------------------------------------------
(* _maybe_apply_aging: every READY process, once per interval, and only     *)
(* under the priority policy.                                               *)
AgingDue == Policy = "priority" /\ AgingInterval >= 1 /\ clock # 0 /\ clock % AgingInterval = 0

AgedUnlessTerminated ==                                             \* mutant
    [p \in Procs |-> IF AgingDue /\ state[p] # "TERMINATED" THEN bonus[p] + 1 ELSE bonus[p]]

AgedBonus == [p \in Procs |-> IF AgingDue /\ state[p] = "READY" THEN bonus[p] + 1 ELSE bonus[p]]

(* PCB.effective_priority of a process that holds no lock: the floor of one *)
(* that inherits nothing is 0, so negative priorities are all alike.        *)
EffectivePriority(bon) ==
    [p \in Procs |-> IF Base[p] + bon[p] >= 0 THEN Base[p] + bon[p] ELSE 0]

(* The process that executed in the tick from this state to the next.  One  *)
(* with no burst executes too: it terminates without consuming anything.    *)
Ran == {p \in Procs : \/ remaining'[p] # remaining[p]
                      \/ state[p] # "TERMINATED" /\ state'[p] = "TERMINATED"}

RestampedStart ==                                                   \* mutant
    [p \in Procs |-> IF p \in Ran /\ current = None THEN clock ELSE started[p]]

StartTime == [p \in Procs |-> IF p \in Ran /\ started[p] = None THEN clock ELSE started[p]]

LateCompletion ==                                                   \* mutant
    [p \in Procs |-> IF p \in Ran /\ remaining'[p] = 0 THEN clock + 2 ELSE finished[p]]

CompletionTime ==
    [p \in Procs |-> IF p \in Ran /\ remaining'[p] = 0 THEN clock + 1 ELSE finished[p]]

ClockAlwaysAdvances == clock + 1                                    \* mutant

ClockAfterTick == IF Ran = {} THEN clock ELSE clock + 1

(* _note_context_switch_if_needed: only the first tick of a slice can be a  *)
(* switch, and completion forgets the process that ran last.                *)
SwitchOnlyFromAnother ==                                            \* mutant
    switches + (IF current = None /\ lastRan \notin Ran \cup {None} THEN 1 ELSE 0)

SwitchesAfterTick == switches + (IF current = None /\ Ran # {} /\ lastRan \notin Ran THEN 1 ELSE 0)

LastRanAfterTick ==
    IF Ran = {} THEN lastRan
    ELSE LET p == CHOOSE q \in Ran : TRUE IN IF remaining'[p] = 0 THEN None ELSE p

SchedTick ==
    /\ bonus' = AgedBonus
    /\ CpuStep(state, ready, EffectivePriority(bonus'), {})
    /\ clock' = ClockAfterTick
    /\ started' = StartTime
    /\ finished' = CompletionTime
    /\ switches' = SwitchesAfterTick
    /\ lastRan' = LastRanAfterTick

(* A process is created, with the clock as its arrival time, before it is   *)
(* made READY.                                                              *)
SchedAdmit(p) == clock >= Arrival[p] /\ Admit(p) /\ UNCHANGED metricVars

SchedBlock(p) ==
    /\ BlockProcess(p)
    /\ lastRan' = IF current = p /\ state[p] # "TERMINATED" THEN None ELSE lastRan
    /\ UNCHANGED <<clock, bonus, started, finished, switches>>

SchedWake(p) == WakeProcess(p) /\ UNCHANGED metricVars

SchedTerminate(p) == Terminate(p) /\ UNCHANGED metricVars

SchedNext ==
    \/ \E p \in Procs : SchedAdmit(p) \/ SchedBlock(p) \/ SchedWake(p) \/ SchedTerminate(p)
    \/ SchedTick

SchedSpec == SchedInit /\ [][SchedNext]_schedVars /\ WF_schedVars(SchedTick)

-----------------------------------------------------------------------------
(* A process with no burst takes a tick all the same.                       *)
TicksOf(p) == IF Burst[p] = 0 THEN 1 ELSE Burst[p]
TotalTicks == SumFunction([p \in Procs |-> TicksOf(p)])

SchedTypeOK ==
    /\ clock \in 0..TotalTicks /\ switches \in Nat
    /\ bonus \in [Procs -> Nat]
    /\ started \in [Procs -> 0..TotalTicks \cup {None}]
    /\ finished \in [Procs -> 0..TotalTicks \cup {None}]
    /\ lastRan \in Procs \cup {None}

(* No CPU time is lost or invented: the clock is what the processes have    *)
(* had of the CPU so far, whatever was blocked, woken or killed on the way. *)
TicksHad(p) == IF finished[p] # None THEN TicksOf(p) ELSE Burst[p] - remaining[p]

ClockIsCpuTime == clock = SumFunction([p \in Procs |-> TicksHad(p)])

(* Every process that ever ran was switched to: neither a completion, which *)
(* forgets the process that ran last, nor a block hides a first dispatch,   *)
(* and no tick counts twice.                                                *)
SwitchesCoverDispatches ==
    /\ Cardinality({p \in Procs : started[p] # None}) <= switches
    /\ switches <= clock

(* The metrics make sense: the switches cover the dispatches, and a process *)
(* that completed started after it arrived and has its whole burst between  *)
(* its first and its last tick, so 0 <= response time <= waiting time.      *)
MetricsConsistent ==
    /\ SwitchesCoverDispatches
    /\ \A p \in Procs : finished[p] # None =>
           /\ started[p] # None
           /\ Arrival[p] <= started[p]
           /\ started[p] + Burst[p] <= finished[p]

(* Aging is applied at most once per interval to a process, although an     *)
(* idle tick leaves the clock where it was and is repeated.                 *)
AgedOncePerInterval == \A p \in Procs : bonus[p] > 0 => bonus[p] * AgingInterval < clock

(* The priority policy serves the READY process with the highest effective  *)
(* priority, aging of this tick included, the earliest arrival among equals.*)
PicksHighest ==
    [][\A p \in Ran, q \in Procs :
          Policy = "priority" /\ current = None /\ state[q] = "READY" /\ clock' # clock =>
              LET eff == EffectivePriority(bonus')
              IN  eff[q] < eff[p] \/ (eff[q] = eff[p] /\ Arrival[p] <= Arrival[q])]_schedVars

(* What aging is for: a READY process that has not run for so many          *)
(* intervals that its bonus outweighs any difference in base priority has   *)
(* had its turn.                                                            *)
PriorityGap == Max({Base[p] - Base[q] : p, q \in Procs})

AgingPreventsStarvation ==
    \A p \in Procs : state[p] = "READY" /\ started[p] = None =>
        clock - Arrival[p] <= AgingInterval * (PriorityGap + 2)

=============================================================================
