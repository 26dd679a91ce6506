---------------------------- MODULE FileIoProofs ----------------------------
(***************************************************************************)
(* Proofs about FileIo: through every order of calls, completions and      *)
(* terminations a pending job is its caller's alone and under the lock of  *)
(* its file, whoever waits for a lock waits once and for one that is held, *)
(* nobody is BLOCKED otherwise, and what is in use exists.                 *)
(*                                                                         *)
(* The lemmas about the loop over the jobs take the process states and the *)
(* queue it starts from as parameters, and say how the reasons for which   *)
(* processes wait change, not what they are: a system with other reasons   *)
(* to wait can cite them too.                                              *)
(***************************************************************************)
EXTENDS FileIo, KernelProofs, DataLemmas

Job == [pid : Procs, path : Files, op : Ops, ticks : Nat \ {0}]

(* The set js of pending jobs, the locks of the files and their waiters fit *)
(* together; those who have a job or wait are off the CPU.                  *)
LocksSound(js, own, wait, st, cur) ==
    /\ own \in [Files -> Procs \cup {None}] /\ wait \in [Files -> Seq(Procs)]
    /\ \A a \in js : own[a.path] = a.pid /\ Parked(st, cur, a.pid)
    /\ \A a, b \in js : a.pid = b.pid => a = b
    /\ \A f \in Files : Once(wait[f])
    /\ \A f \in Files : \A w \in Range(wait[f]) :
          /\ own[f] \notin {None, w} /\ Parked(st, cur, w)
          /\ \A g \in Files : w \in Range(wait[g]) => f = g
          /\ \A a \in js : a.pid # w

(* What p waits for.                                                        *)
Reason(js, wait, p) ==
    \/ \E a \in js : a.pid = p
    \/ \E f \in Files : p \in Range(wait[f])

(* A tick in progress.                                                      *)
Shape(s) ==
    s = [there |-> s.there, own |-> s.own, wait |-> s.wait, left |-> s.left,
         cpu |-> [st |-> s.cpu.st, rq |-> s.cpu.rq]]

(* From the pending jobs js and state s to js2 and r nobody begins to wait, *)
(* and whoever is still BLOCKED still has the reason he had.                *)
Progress(s, js, r, js2) ==
    /\ \A p \in Procs : Reason(js2, r.wait, p) => Reason(js, s.wait, p)
    /\ \A p \in Procs : r.cpu.st[p] = s.cpu.st[p] \/ Reason(js, s.wait, p)
    /\ \A p \in Procs : r.cpu.st[p] = "BLOCKED" =>
           /\ s.cpu.st[p] = "BLOCKED"
           /\ Reason(js, s.wait, p) => Reason(js2, r.wait, p)
    /\ \A f \in Files : r.own[f] # None => s.own[f] # None

TickInv(s, js) ==
    /\ Shape(s)
    /\ js \subseteq Job
    /\ LocksSound(js, s.own, s.wait, s.cpu.st, current)
    /\ KInv(s.cpu.st, s.cpu.rq, current)

-----------------------------------------------------------------------------
(* Waking p changes the state of p, who is not BLOCKED afterwards.          *)
LEMMA WakeFacts ==
    ASSUME NEW cpu, NEW p \in Procs, KInv(cpu.st, cpu.rq, current)
    PROVE  /\ KInv(Wake(cpu, p).st, Wake(cpu, p).rq, current)
           /\ Wake(cpu, p) = [st |-> Wake(cpu, p).st, rq |-> Wake(cpu, p).rq]
           /\ \A q \in Procs : q # p => Wake(cpu, p).st[q] = cpu.st[q]
           /\ Wake(cpu, p).st[p] # "BLOCKED"
<1>1. KInv(WakeState(cpu.st, p), WakeQueue(cpu.st, cpu.rq, p), current)
  BY WakeKeepsKInv
<1>2. Wake(cpu, p).st = WakeState(cpu.st, p) /\ Wake(cpu, p).rq = WakeQueue(cpu.st, cpu.rq, p)
  BY DEF Wake
<1>3. cpu.st \in [Procs -> ProcessState]
  BY DEF KInv
<1>4. /\ \A q \in Procs : q # p => WakeState(cpu.st, p)[q] = cpu.st[q]
      /\ WakeState(cpu.st, p)[p] # "BLOCKED"
  BY <1>3 DEF WakeState
<1>5. QED
  BY <1>1, <1>2, <1>4 DEF Wake

(* A job that completes: its caller holds the lock, so the file is neither  *)
(* deleted nor kept; the lock goes to the first waiter, if there is one,    *)
(* and both that waiter and the caller are woken.                           *)
LEMMA CompleteIoInv ==
    ASSUME NEW s, NEW js, NEW job \in Job, TickInv(s, js \cup {job}),
           \A a \in js : a.pid # job.pid, s.there[job.path]
    PROVE  /\ TickInv(CompleteIo(s, job), js)
           /\ Progress(s, js \cup {job}, CompleteIo(s, job), js)
           /\ CompleteIo(s, job).there = s.there /\ CompleteIo(s, job).left = s.left
<1> DEFINE r == CompleteIo(s, job)
           p == job.pid
           f == job.path
           all == js \cup {job}
<1>1. p \in Procs /\ f \in Files /\ None \notin Procs /\ job \in all
  BY KernelAssumption DEF Job
<1>2. /\ s.own \in [Files -> Procs \cup {None}] /\ s.wait \in [Files -> Seq(Procs)]
      /\ s.own[f] = p /\ Parked(s.cpu.st, current, p)
      /\ \A a, b \in js : a.pid = b.pid => a = b
      /\ \A g \in Files : Once(s.wait[g])
      /\ KInv(s.cpu.st, s.cpu.rq, current) /\ js \subseteq Job /\ Shape(s)
  BY DEF TickInv, LocksSound
<1>8. \A a \in js : s.own[a.path] = a.pid /\ Parked(s.cpu.st, current, a.pid)
  BY DEF TickInv, LocksSound
<1>9. \A g \in Files : \A w \in Range(s.wait[g]) :
          /\ s.own[g] \notin {None, w} /\ Parked(s.cpu.st, current, w) /\ w # p
          /\ \A k \in Files : w \in Range(s.wait[k]) => g = k
          /\ \A a \in js : a.pid # w
  BY DEF TickInv, LocksSound
<1>3. Applied(s, job) = s
  BY <1>1, <1>2 DEF Applied, Deletable
<1>4. \A a \in js : a.path \in Files /\ a.path # f /\ a.pid \in Procs
  BY <1>2, <1>8 DEF Job
<1>5. CASE s.wait[f] = <<>>
  <2>1. r = [there |-> s.there, own |-> [s.own EXCEPT ![f] = None], wait |-> s.wait,
             left |-> s.left, cpu |-> Wake(s.cpu, p)]
    <3>1. ReleaseFile(s, p, f) = [s EXCEPT !.own[f] = None]
      BY <1>2, <1>5 DEF ReleaseFile
    <3>2. ReleaseFile(s, p, f) = [there |-> s.there, own |-> [s.own EXCEPT ![f] = None],
                                  wait |-> s.wait, left |-> s.left, cpu |-> s.cpu]
      BY <1>2, <3>1 DEF Shape
    <3>3. r = [ReleaseFile(s, p, f) EXCEPT !.cpu = Wake(@, p)]
      BY <1>3 DEF CompleteIo
    <3>4. QED
      BY <3>2, <3>3
  <2> DEFINE c == Wake(s.cpu, p)
  <2>2. /\ KInv(c.st, c.rq, current) /\ c = [st |-> c.st, rq |-> c.rq]
        /\ \A q \in Procs : q # p => c.st[q] = s.cpu.st[q]
        /\ c.st[p] # "BLOCKED"
    BY <1>1, <1>2, WakeFacts
  <2> HIDE DEF c, r
  <2>3. /\ r.there = s.there /\ r.left = s.left /\ r.cpu = c /\ r.wait = s.wait
        /\ r.own = [s.own EXCEPT ![f] = None] /\ Shape(r)
    BY <2>1, <2>2 DEF c, Shape
  <2>4. Range(s.wait[f]) = {}
    BY <1>5 DEF Range
  <2>5. \A g \in Files : \A w \in Range(s.wait[g]) : w \in Procs /\ w # p /\ g # f
    BY <1>2, <1>9, <2>4, RangeOfQueue
  <2>6. LocksSound(js, r.own, r.wait, r.cpu.st, current)
    <3>1. r.own \in [Files -> Procs \cup {None}] /\ r.wait \in [Files -> Seq(Procs)]
      BY <1>1, <1>2, <2>3
    <3>2. \A a \in js : r.own[a.path] = a.pid /\ Parked(c.st, current, a.pid)
      BY <1>2, <1>4, <1>8, <2>2, <2>3 DEF Parked
    <3>3. ASSUME NEW g \in Files, NEW w \in Range(s.wait[g])
          PROVE  r.own[g] \notin {None, w} /\ Parked(c.st, current, w)
      <4>1. w \in Procs /\ w # p /\ g # f
        BY <2>5
      <4>2. r.own[g] = s.own[g] /\ c.st[w] = s.cpu.st[w]
        BY <1>2, <2>2, <2>3, <4>1
      <4>3. QED
        BY <1>9, <4>2 DEF Parked
    <3>4. QED
      BY <1>2, <1>9, <2>3, <3>1, <3>2, <3>3 DEF LocksSound
  <2>7. Progress(s, all, r, js)
    BY <1>1, <1>2, <2>2, <2>3, <2>5 DEF Progress, Reason
  <2>8. QED
    BY <1>2, <2>2, <2>3, <2>6, <2>7 DEF TickInv, r
<1>6. CASE s.wait[f] # <<>>
  <2> DEFINE h == Head(s.wait[f])
             t == Tail(s.wait[f])
             c == Wake(s.cpu, h)
             d == Wake(c, p)
  <2>1. r = [there |-> s.there, own |-> [s.own EXCEPT ![f] = h],
             wait |-> [s.wait EXCEPT ![f] = t], left |-> s.left, cpu |-> d]
    <3>1. ReleaseFile(s, p, f) =
              [s EXCEPT !.own[f] = h, !.wait[f] = Tail(@), !.cpu = Wake(@, h)]
      BY <1>2, <1>6 DEF ReleaseFile
    <3>2. ReleaseFile(s, p, f) = [there |-> s.there, own |-> [s.own EXCEPT ![f] = h],
                                  wait |-> [s.wait EXCEPT ![f] = t], left |-> s.left, cpu |-> c]
      <4> HIDE DEF h
      <4>1. QED
        BY <1>2, <3>1 DEF Shape
    <3>3. r = [ReleaseFile(s, p, f) EXCEPT !.cpu = Wake(@, p)]
      BY <1>3 DEF CompleteIo
    <3>4. QED
      BY <3>2, <3>3
  <2>2. /\ h \in Procs /\ h \in Range(s.wait[f]) /\ t \in Seq(Procs)
        /\ Once(t) /\ Range(t) = Range(s.wait[f]) \ {h}
    BY <1>1, <1>2, <1>6, TailSeq
  <2>3. /\ KInv(c.st, c.rq, current)
        /\ \A q \in Procs : q # h => c.st[q] = s.cpu.st[q]
        /\ c.st[h] # "BLOCKED"
    BY <1>2, <2>2, WakeFacts
  <2> HIDE DEF c
  <2>4. /\ KInv(d.st, d.rq, current) /\ d = [st |-> d.st, rq |-> d.rq]
        /\ \A q \in Procs : q # p => d.st[q] = c.st[q]
        /\ d.st[p] # "BLOCKED"
    BY <1>1, <2>3, WakeFacts
  <2> HIDE DEF d, r, h, t
  <2>5. h # p
    BY <1>1, <1>9, <2>2
  <2>6. /\ \A q \in Procs : q \notin {p, h} => d.st[q] = s.cpu.st[q]
        /\ d.st[p] # "BLOCKED" /\ d.st[h] # "BLOCKED"
    BY <1>1, <2>2, <2>3, <2>4, <2>5
  <2>7. /\ r.there = s.there /\ r.left = s.left /\ r.cpu = d
        /\ r.wait = [s.wait EXCEPT ![f] = t] /\ r.own = [s.own EXCEPT ![f] = h] /\ Shape(r)
    BY <2>1, <2>4 DEF Shape
  <2>8. \A g \in Files : /\ r.wait[g] \in Seq(Procs) /\ Once(r.wait[g])
                         /\ Range(r.wait[g]) = Range(s.wait[g]) \ {h}
    <3>1. \A g \in Files : g # f => h \notin Range(s.wait[g])
      BY <1>1, <1>9, <2>2
    <3>2. QED
      BY <1>1, <1>2, <2>2, <2>7, <3>1
  <2>9. \A g \in Files : \A w \in Range(s.wait[g]) : w \in Procs /\ w # p
    BY <1>2, <1>9, RangeOfQueue
  <2>10. LocksSound(js, r.own, r.wait, r.cpu.st, current)
    <3>1. r.own \in [Files -> Procs \cup {None}] /\ r.wait \in [Files -> Seq(Procs)]
      BY <1>1, <1>2, <2>2, <2>7
    <3>2. ASSUME NEW a \in js PROVE r.own[a.path] = a.pid /\ Parked(d.st, current, a.pid)
      <4>1. a.path \in Files /\ a.path # f /\ a.pid \in Procs /\ a.pid # p /\ a.pid # h
        BY <1>1, <1>4, <1>9, <2>2
      <4>2. r.own[a.path] = s.own[a.path] /\ d.st[a.pid] = s.cpu.st[a.pid]
        BY <1>2, <2>6, <2>7, <4>1
      <4>3. QED
        BY <1>8, <4>2 DEF Parked
    <3>3. ASSUME NEW g \in Files, NEW w \in Range(r.wait[g])
          PROVE  /\ r.own[g] \notin {None, w} /\ Parked(d.st, current, w)
                 /\ \A k \in Files : w \in Range(r.wait[k]) => g = k
                 /\ \A a \in js : a.pid # w
      <4>1. w \in Range(s.wait[g]) /\ w # h /\ w # p /\ w \in Procs
        BY <2>8, <2>9
      <4>2. r.own[g] \notin {None, w}
        <5>1. r.own[g] = IF g = f THEN h ELSE s.own[g]
          BY <1>2, <2>7
        <5>2. QED
          BY <1>1, <1>9, <2>2, <4>1, <5>1
      <4>3. Parked(d.st, current, w)
        BY <1>9, <2>6, <4>1 DEF Parked
      <4>4. \A k \in Files : w \in Range(r.wait[k]) => g = k
        <5>1. \A k \in Files : w \in Range(s.wait[k]) => g = k
          BY <1>9, <4>1
        <5>2. QED
          BY <2>8, <5>1
      <4>5. QED
        BY <1>9, <4>1, <4>2, <4>3, <4>4
    <3>4. QED
      BY <1>2, <2>7, <2>8, <3>1, <3>2, <3>3 DEF LocksSound
  <2>11. Progress(s, all, r, js)
    <3>1. \A q \in Procs : Reason(js, r.wait, q) => Reason(all, s.wait, q)
      BY <2>8 DEF Reason
    <3>2. Reason(all, s.wait, p) /\ Reason(all, s.wait, h)
      BY <1>1, <2>2 DEF Reason
    <3>3. \A q \in Procs \ {p, h} : Reason(all, s.wait, q) => Reason(js, r.wait, q)
      BY <2>8 DEF Reason
    <3>4. \A g \in Files : r.own[g] # None => s.own[g] # None
      BY <1>1, <1>2, <2>7
    <3>5. QED
      BY <2>6, <2>7, <3>1, <3>2, <3>3, <3>4 DEF Progress
  <2>12. QED
    BY <1>2, <2>4, <2>7, <2>10, <2>11 DEF TickInv, r
<1>7. QED
  BY <1>5, <1>6

(* A job that is not due keeps its caller and its file.                     *)
LEMMA OneTickLess ==
    ASSUME NEW job \in Job, job.ticks > 1, NEW next, next = [job EXCEPT !.ticks = @ - 1]
    PROVE  next \in Job /\ next.pid = job.pid /\ next.path = job.path
BY DEF Job

LEMMA CountDownInv ==
    ASSUME NEW s, NEW js, NEW job \in Job, TickInv(s, js \cup {job}),
           \A a \in js : a.pid # job.pid,
           NEW next \in Job, next.pid = job.pid, next.path = job.path,
           NEW r, Shape(r), r.own = s.own, r.wait = s.wait, r.cpu = s.cpu
    PROVE  /\ TickInv(r, js \cup {next})
           /\ Progress(s, js \cup {job}, r, js \cup {next})
<1>1. r.own = s.own /\ r.wait = s.wait /\ r.cpu = s.cpu /\ Shape(r)
  OBVIOUS
<1>2. LocksSound(js \cup {job}, s.own, s.wait, s.cpu.st, current)
  BY DEF TickInv
<1>3. \A a \in js \cup {next} : \E b \in js \cup {job} :
          a.pid = b.pid /\ a.path = b.path /\ (a \in js => a = b)
  OBVIOUS
<1>4. LocksSound(js \cup {next}, s.own, s.wait, s.cpu.st, current)
  <2>1. \A a, b \in js \cup {next} : a.pid = b.pid => a = b
    BY <1>2 DEF LocksSound
  <2>2. \A a \in js \cup {next} : s.own[a.path] = a.pid /\ Parked(s.cpu.st, current, a.pid)
    BY <1>2, <1>3 DEF LocksSound
  <2>3. \A f \in Files : \A w \in Range(s.wait[f]) : \A a \in js \cup {next} : a.pid # w
    BY <1>2, <1>3 DEF LocksSound
  <2>4. QED
    BY <1>2, <2>1, <2>2, <2>3 DEF LocksSound
<1>5. Progress(s, js \cup {job}, r, js \cup {next})
  BY <1>1 DEF Progress, Reason
<1>6. QED
  BY <1>1, <1>4, <1>5 DEF TickInv

LEMMA ProgressIsTransitive ==
    ASSUME NEW s1, NEW s2, NEW s3, NEW js1, NEW js2, NEW js3,
           Progress(s1, js1, s2, js2), Progress(s2, js2, s3, js3)
    PROVE  Progress(s1, js1, s3, js3)
BY DEF Progress

-----------------------------------------------------------------------------
(* The loop over the jobs: a recursive function on 0..Len(jobs), of which   *)
(* n jobs are done.                                                         *)
IoRuns(g, st, rq, n) ==
    g = [k \in 0..n |-> IF k = 0 THEN BeforeIoTimers(st, rq) ELSE Advance(g[k - 1], jobs[k])]

LEMMA IoExists ==
    ASSUME NEW st, NEW rq, NEW n \in Nat
    PROVE  \E g : IoRuns(g, st, rq, n)
<1> DEFINE P == {i \in Nat : \E g : IoRuns(g, st, rq, i)}
<1>1. 0 \in P
  <2>1. IoRuns([k \in 0..0 |-> BeforeIoTimers(st, rq)], st, rq, 0)
    BY DEF IoRuns
  <2>2. QED
    BY <2>1
<1>2. ASSUME NEW i \in 1..n, i - 1 \in P PROVE i \in P
  <2>1. PICK g : IoRuns(g, st, rq, i - 1)
    BY <1>2
  <2>2. IoRuns([k \in 0..i |-> IF k = i THEN Advance(g[i - 1], jobs[i]) ELSE g[k]], st, rq, i)
    BY <2>1 DEF IoRuns
  <2>3. QED
    BY <2>2
<1>3. 0..n \subseteq P
  <2> HIDE DEF P
  <2>1. QED
    BY <1>1, <1>2, UpTo
<1>4. QED
  BY <1>3

LEMMA IoUnfold ==
    ASSUME NEW st, NEW rq, Len(jobs) \in Nat
    PROVE  \E g : IoRuns(g, st, rq, Len(jobs)) /\ AfterIoTimers(st, rq) = g[Len(jobs)]
<1> DEFINE f[k \in 0..Len(jobs)] ==
               IF k = 0 THEN BeforeIoTimers(st, rq) ELSE Advance(f[k - 1], jobs[k])
<1>1. \E g : g = [k \in 0..Len(jobs) |->
                      IF k = 0 THEN BeforeIoTimers(st, rq) ELSE Advance(g[k - 1], jobs[k])]
  BY IoExists DEF IoRuns
<1>2. f = [k \in 0..Len(jobs) |->
               IF k = 0 THEN BeforeIoTimers(st, rq) ELSE Advance(f[k - 1], jobs[k])]
  BY <1>1, Zenon
<1>3. IoRuns(f, st, rq, Len(jobs))
  BY <1>2 DEF IoRuns
<1>4. AfterIoTimers(st, rq) = f[Len(jobs)]
  BY DEF AfterIoTimers
<1>5. QED
  BY <1>3, <1>4

(* The jobs that are left or not yet looked at when n are done.             *)
Pending(left, n) == Range(left) \cup {jobs[k] : k \in (n + 1)..Len(jobs)}

LoopInv(s, n, start) ==
    /\ s.left \in Seq(Job) /\ Once(s.left)
    /\ \A a \in Range(s.left), k \in (n + 1)..Len(jobs) : a.pid # jobs[k].pid
    /\ TickInv(s, Pending(s.left, n))
    /\ Progress(start, Range(jobs), s, Pending(s.left, n))
    /\ s.there = start.there

(* No two jobs are of one process.                                          *)
OneEach(js) == \A i, j \in DOMAIN js : js[i].pid = js[j].pid => i = j

LEMMA AdvanceInv ==
    ASSUME NEW s, NEW start, NEW n \in 1..Len(jobs), jobs \in Seq(Job), OneEach(jobs),
           LoopInv(s, n - 1, start), start.there[jobs[n].path]
    PROVE  LoopInv(Advance(s, jobs[n]), n, start)
<1> DEFINE job == jobs[n]
           rest == {jobs[k] : k \in (n + 1)..Len(jobs)}
           js == Range(s.left) \cup rest
           r == Advance(s, job)
<1>1. /\ job \in Job /\ n \in Nat /\ Len(jobs) \in Nat /\ DOMAIN jobs = 1..Len(jobs)
      /\ \A k \in (n + 1)..Len(jobs) : jobs[k] \in Job /\ jobs[k].pid # job.pid
  BY DEF OneEach
<1>2. Pending(s.left, n - 1) = js \cup {job}
  BY <1>1 DEF Pending
<1>3. \A a \in Range(s.left) : /\ a.pid # job.pid
                               /\ \A k \in (n + 1)..Len(jobs) : a.pid # jobs[k].pid
  BY <1>1 DEF LoopInv
<1>4. \A a \in js : a.pid # job.pid
  BY <1>1, <1>3
<1>5. TickInv(s, js \cup {job}) /\ Progress(start, Range(jobs), s, js \cup {job})
  BY <1>2 DEF LoopInv
<1>6. s.left \in Seq(Job) /\ Once(s.left) /\ s.there = start.there
  BY DEF LoopInv
<1>7. CASE job.ticks > 1
  <2> DEFINE next == [job EXCEPT !.ticks = @ - 1]
             left == Append(s.left, next)
  <2>1. /\ r.there = s.there /\ r.own = s.own /\ r.wait = s.wait /\ r.left = left
        /\ r.cpu = s.cpu /\ Shape(r)
    <3>1. r = [s EXCEPT !.left = left]
      BY <1>7 DEF Advance
    <3>2. Shape(s)
      BY <1>5 DEF TickInv
    <3> HIDE DEF r, left
    <3>3. QED
      BY <3>1, <3>2 DEF Shape
  <2> HIDE DEF r, left, js, job
  <2>9. next \in Job /\ next.pid = job.pid /\ next.path = job.path
    <3>1. job \in Job
      BY <1>1
    <3>2. QED
      BY <1>7, <3>1, OneTickLess
  <2> HIDE DEF next
  <2>2. /\ TickInv(r, js \cup {next})
        /\ Progress(s, js \cup {job}, r, js \cup {next})
    <3>1. job \in Job
      BY <1>1
    <3>2. QED
      BY <3>1, <1>4, <1>5, <2>1, <2>9, CountDownInv
  <2> USE DEF js, job
  <2>3. next \notin Range(s.left)
    BY <1>3, <2>9
  <2>4. left \in Seq(Job) /\ Range(left) = Range(s.left) \cup {next} /\ Once(left)
    BY <1>6, <2>9, <2>3, AppendSeq DEF left
  <2>5. Pending(left, n) = js \cup {next}
    BY <2>4 DEF Pending
  <2>6. Progress(start, Range(jobs), r, js \cup {next})
    BY <1>5, <2>2, ProgressIsTransitive
  <2>7. \A a \in Range(left), k \in (n + 1)..Len(jobs) : a.pid # jobs[k].pid
    BY <1>1, <1>3, <2>9, <2>4
  <2>8. QED
    BY <1>6, <2>1, <2>2, <2>4, <2>5, <2>6, <2>7 DEF LoopInv, r
<1>8. CASE ~ (job.ticks > 1)
  <2>1. r = CompleteIo(s, job)
    BY <1>8 DEF Advance
  <2> HIDE DEF r
  <2>2. /\ TickInv(r, js) /\ Progress(s, js \cup {job}, r, js)
        /\ r.there = s.there /\ r.left = s.left
    <3>1. job \in Job /\ s.there[job.path]
      BY <1>1, <1>6
    <3> HIDE DEF job, js
    <3>2. QED
      BY <3>1, <1>4, <1>5, <2>1, CompleteIoInv
  <2>3. Pending(r.left, n) = js
    BY <2>2 DEF Pending
  <2>4. Progress(start, Range(jobs), r, js)
    BY <1>5, <2>2, ProgressIsTransitive
  <2>5. QED
    BY <1>3, <1>6, <2>2, <2>3, <2>4 DEF LoopInv, r
<1>9. QED
  BY <1>7, <1>8

(* What the jobs of a tick leave to the dispatch.                           *)
LEMMA IoTimersInv ==
    ASSUME NEW st, NEW rq, KInv(st, rq, current), jobs \in Seq(Job), OneEach(jobs),
           LocksSound(Range(jobs), lockOwner, lockWaiters, st, current),
           \A i \in DOMAIN jobs : exists[jobs[i].path]
    PROVE  LET r == AfterIoTimers(st, rq)
           IN  /\ r.left \in Seq(Job) /\ Once(r.left)
               /\ TickInv(r, Range(r.left))
               /\ Progress(BeforeIoTimers(st, rq), Range(jobs), r, Range(r.left))
               /\ r.there = exists
<1> DEFINE start == BeforeIoTimers(st, rq)
<1>1. Len(jobs) \in Nat /\ DOMAIN jobs = 1..Len(jobs) /\ \A k \in 1..Len(jobs) : jobs[k] \in Job
  OBVIOUS
<1>2. PICK g : IoRuns(g, st, rq, Len(jobs)) /\ AfterIoTimers(st, rq) = g[Len(jobs)]
  BY <1>1, IoUnfold
<1>3. \A n \in 0..Len(jobs) : g[n] = IF n = 0 THEN start ELSE Advance(g[n - 1], jobs[n])
  BY <1>2 DEF IoRuns
<1>4. /\ start.there = exists /\ start.own = lockOwner /\ start.wait = lockWaiters
      /\ start.left = <<>> /\ start.cpu.st = st /\ start.cpu.rq = rq /\ Shape(start)
  BY DEF BeforeIoTimers, Shape
<1> HIDE DEF start
<1>5. Range(<<>>) = {}
  BY DEF Range
<1>6. Pending(<<>>, 0) = Range(jobs)
  BY <1>1, <1>5 DEF Pending, Range
<1> DEFINE P == {n \in 0..Len(jobs) : LoopInv(g[n], n, start)}
<1>7. 0 \in P
  <2>1. Range(jobs) \subseteq Job
    BY <1>1 DEF Range
  <2>2. TickInv(start, Range(jobs))
    BY <1>4, <2>1 DEF TickInv
  <2>3. Progress(start, Range(jobs), start, Range(jobs))
    BY DEF Progress
  <2>4. LoopInv(start, 0, start)
    BY <1>4, <1>5, <1>6, <2>2, <2>3 DEF LoopInv, Once
  <2>5. QED
    BY <1>1, <1>3, <2>4
<1>8. ASSUME NEW n \in 1..Len(jobs), n - 1 \in P PROVE n \in P
  <2>1. LoopInv(g[n - 1], n - 1, start) /\ start.there[jobs[n].path]
    BY <1>1, <1>4, <1>8
  <2>2. LoopInv(Advance(g[n - 1], jobs[n]), n, start)
    BY <2>1, AdvanceInv
  <2>3. QED
    BY <1>1, <1>3, <2>2
<1>9. 0..Len(jobs) \subseteq P
  <2> HIDE DEF P
  <2>1. QED
    BY <1>1, <1>7, <1>8, UpTo
<1> DEFINE r == AfterIoTimers(st, rq)
<1>10. LoopInv(r, Len(jobs), start)
  BY <1>1, <1>2, <1>9
<1> HIDE DEF r
<1>11. Pending(r.left, Len(jobs)) = Range(r.left)
  BY <1>1 DEF Pending
<1>12. QED
  BY <1>4, <1>10, <1>11 DEF LoopInv, r, start

-----------------------------------------------------------------------------
(* The device between two steps, and what each process waits for.           *)
DeviceInv ==
    /\ jobs \in Seq(Job) /\ OneEach(jobs)
    /\ LocksSound(Range(jobs), lockOwner, lockWaiters, state, current)

Waits(p) == Reason(Range(jobs), lockWaiters, p)

LEMMA JobFields ==
    ASSUME NEW a \in Job
    PROVE  a.pid \in Procs /\ a.pid # None /\ a.path \in Files
BY KernelAssumption DEF Job

LEMMA JobsInRange ==
    ASSUME NEW js \in Seq(Job)
    PROVE  /\ Range(js) \subseteq Job
           /\ \A i \in DOMAIN js : js[i] \in Range(js)
           /\ \A a \in Range(js) : \E i \in DOMAIN js : js[i] = a
BY DEF Range

(* Nobody who has a job or waits for a lock is on the CPU or may start I/O. *)
LEMMA WaitingIsParked ==
    ASSUME DeviceInv, NEW p \in Procs, Waits(p)
    PROVE  Parked(state, current, p)
BY DEF DeviceInv, LocksSound, Waits, Reason

(* Steps that leave the device alone and those who wait for it parked.      *)
LEMMA ParkedKeepsLocks ==
    ASSUME NEW js, js \subseteq Job, NEW own, NEW wait, NEW st, NEW cur, NEW st2, NEW cur2,
           LocksSound(js, own, wait, st, cur),
           \A p \in Procs : Reason(js, wait, p) /\ Parked(st, cur, p) => Parked(st2, cur2, p)
    PROVE  LocksSound(js, own, wait, st2, cur2)
<1>1. \A a \in js : a.pid \in Procs /\ Reason(js, wait, a.pid)
  BY DEF Job, Reason
<1>2. \A f \in Files : \A w \in Range(wait[f]) : w \in Procs /\ Reason(js, wait, w)
  BY RangeOfQueue DEF LocksSound, Reason
<1>3. \A a \in js : own[a.path] = a.pid /\ Parked(st2, cur2, a.pid)
  BY <1>1 DEF LocksSound
<1>4. \A f \in Files : \A w \in Range(wait[f]) :
          /\ own[f] \notin {None, w} /\ Parked(st2, cur2, w)
          /\ \A g \in Files : w \in Range(wait[g]) => f = g
          /\ \A a \in js : a.pid # w
  BY <1>2 DEF LocksSound
<1>5. QED
  BY <1>3, <1>4 DEF LocksSound

LEMMA DeviceUntouched ==
    ASSUME DeviceInv, UNCHANGED <<lockOwner, lockWaiters, jobs>>,
           \A p \in Procs : Waits(p) /\ Parked(state, current, p) => Parked(state', current', p)
    PROVE  DeviceInv' /\ \A p \in Procs : Waits(p)' <=> Waits(p)
<1>1. Range(jobs) \subseteq Job
  BY JobsInRange DEF DeviceInv
<1>2. LocksSound(Range(jobs), lockOwner, lockWaiters, state', current')
  BY <1>1, ParkedKeepsLocks DEF DeviceInv, Waits
<1>3. QED
  BY <1>2 DEF DeviceInv, Waits

(* The caller of an I/O gets the lock, a job of its own and is parked.      *)
LEMMA QueueJobInv ==
    ASSUME DeviceInv, state \in [Procs -> ProcessState],
           NEW p \in Procs, NEW f \in Files, NEW op \in Ops, NEW t \in Latencies,
           state[p] \in {"READY", "RUNNING"}, QueueJob(p, f, op, t)
    PROVE  DeviceInv' /\ \A q \in Procs : Waits(q)' <=> Waits(q) \/ q = p
<1> DEFINE job == [pid |-> p, path |-> f, op |-> op, ticks |-> t]
<1>1. /\ lockOwner[f] \in {None, p} /\ lockOwner' = [lockOwner EXCEPT ![f] = p]
      /\ jobs' = Append(jobs, job) /\ lockWaiters' = lockWaiters /\ BlockProcess(p)
  BY DEF QueueJob
<1>2. job \in Job /\ job.pid = p /\ job.path = f
  BY FileIoAssumption DEF Job
<1> HIDE DEF job
<1>3. /\ Parked(state', current', p)
      /\ \A q \in Procs : Parked(state, current, q) => Parked(state', current', q) /\ q # p
  BY <1>1, BlockParks
<1>4. jobs \in Seq(Job) /\ Range(jobs) \subseteq Job /\ OneEach(jobs)
  BY JobsInRange DEF DeviceInv
<1>5. ~ Waits(p)
  BY <1>3, WaitingIsParked
<1>6. /\ \A a \in Range(jobs) : a.pid # p
      /\ \A g \in Files : p \notin Range(lockWaiters[g])
  BY <1>5 DEF Waits, Reason
<1>7. LocksSound(Range(jobs), lockOwner, lockWaiters, state', current')
  BY <1>3, <1>4, ParkedKeepsLocks DEF DeviceInv
<1>8. jobs' \in Seq(Job) /\ Range(jobs') = Range(jobs) \cup {job}
  BY <1>1, <1>2, <1>4, AppendSeq
<1>9. OneEach(jobs')
  <2>1. /\ DOMAIN jobs = 1..Len(jobs) /\ DOMAIN jobs' = 1..(Len(jobs) + 1) /\ Len(jobs) \in Nat
        /\ jobs'[Len(jobs) + 1] = job /\ \A i \in 1..Len(jobs) : jobs'[i] = jobs[i]
    BY <1>1, <1>2, <1>4
  <2>2. \A i \in 1..Len(jobs) : jobs[i].pid # p
    BY <1>4, <1>6, <2>1, JobsInRange
  <2>3. QED
    BY <1>2, <1>4, <2>1, <2>2 DEF OneEach
<1>10. LocksSound(Range(jobs'), lockOwner', lockWaiters', state', current')
  <2>1. None \notin Procs /\ \A a \in Range(jobs) : a.pid \in Procs /\ a.path \in Files
    BY <1>4, KernelAssumption DEF Job
  <2>2. lockOwner \in [Files -> Procs \cup {None}]
    BY <1>7 DEF LocksSound
  <2>3. \A a \in Range(jobs) : a.path # f
    BY <1>1, <1>6, <1>7, <2>1 DEF LocksSound
  <2>4. \A a \in Range(jobs') : lockOwner'[a.path] = a.pid /\ Parked(state', current', a.pid)
    BY <1>1, <1>2, <1>3, <1>7, <1>8, <2>1, <2>2, <2>3 DEF LocksSound
  <2>5. \A a, b \in Range(jobs') : a.pid = b.pid => a = b
    BY <1>2, <1>6, <1>7, <1>8 DEF LocksSound
  <2>6. \A g \in Files : \A w \in Range(lockWaiters[g]) :
            lockOwner'[g] \notin {None, w} /\ \A a \in Range(jobs') : a.pid # w
    <3> TAKE g \in Files
    <3> TAKE w \in Range(lockWaiters[g])
    <3>1. w # p /\ lockOwner[g] \notin {None, w} /\ \A a \in Range(jobs) : a.pid # w
      BY <1>6, <1>7 DEF LocksSound
    <3>2. lockOwner'[g] = IF g = f THEN p ELSE lockOwner[g]
      BY <1>1, <2>2
    <3>3. QED
      BY <1>2, <1>8, <2>1, <3>1, <3>2
  <2>7. lockOwner' \in [Files -> Procs \cup {None}]
    BY <1>1, <2>2
  <2>8. QED
    BY <1>1, <1>7, <2>4, <2>5, <2>6, <2>7 DEF LocksSound
<1>11. \A q \in Procs : Waits(q)' <=> Waits(q) \/ q = p
  BY <1>1, <1>2, <1>8 DEF Waits, Reason
<1>12. QED
  BY <1>8, <1>9, <1>10, <1>11 DEF DeviceInv

(* Without the lock the caller joins the waiters and is parked.             *)
LEMMA AwaitLockInv ==
    ASSUME DeviceInv, state \in [Procs -> ProcessState],
           NEW p \in Procs, NEW f \in Files,
           state[p] \in {"READY", "RUNNING"}, AwaitLock(p, f)
    PROVE  DeviceInv' /\ \A q \in Procs : Waits(q)' <=> Waits(q) \/ q = p
<1>1. /\ lockOwner[f] \notin {None, p} /\ UNCHANGED <<lockOwner, jobs>> /\ BlockProcess(p)
      /\ lockWaiters' =
            [lockWaiters EXCEPT ![f] = IF p \in Range(@) THEN @ ELSE Append(@, p)]
  BY DEF AwaitLock
<1>2. /\ Parked(state', current', p)
      /\ \A q \in Procs : Parked(state, current, q) => Parked(state', current', q) /\ q # p
  BY <1>1, BlockParks
<1>3. jobs \in Seq(Job) /\ Range(jobs) \subseteq Job /\ OneEach(jobs)
  BY JobsInRange DEF DeviceInv
<1>4. ~ Waits(p)
  BY <1>2, WaitingIsParked
<1>5. /\ \A a \in Range(jobs) : a.pid # p
      /\ \A g \in Files : p \notin Range(lockWaiters[g])
  BY <1>4 DEF Waits, Reason
<1>6. LocksSound(Range(jobs), lockOwner, lockWaiters, state', current')
  BY <1>2, <1>3, ParkedKeepsLocks DEF DeviceInv
<1>7. /\ lockWaiters \in [Files -> Seq(Procs)] /\ \A g \in Files : Once(lockWaiters[g])
  BY <1>6 DEF LocksSound
<1>8. lockWaiters' = [lockWaiters EXCEPT ![f] = Append(@, p)]
  BY <1>1, <1>5
<1>9. /\ lockWaiters' \in [Files -> Seq(Procs)]
      /\ \A g \in Files : Once(lockWaiters'[g])
      /\ \A g \in Files : Range(lockWaiters'[g]) =
             Range(lockWaiters[g]) \cup (IF g = f THEN {p} ELSE {})
  <2>1. /\ Append(lockWaiters[f], p) \in Seq(Procs) /\ Once(Append(lockWaiters[f], p))
        /\ Range(Append(lockWaiters[f], p)) = Range(lockWaiters[f]) \cup {p}
    BY <1>5, <1>7, AppendSeq
  <2>2. \A g \in Files :
            lockWaiters'[g] = IF g = f THEN Append(lockWaiters[f], p) ELSE lockWaiters[g]
    BY <1>7, <1>8
  <2>3. lockWaiters' \in [Files -> Seq(Procs)]
    BY <1>7, <1>8, <2>1
  <2>4. QED
    BY <1>7, <2>1, <2>2, <2>3
<1>10. LocksSound(Range(jobs), lockOwner, lockWaiters', state', current')
  <2>1. \A g \in Files : \A w \in Range(lockWaiters[g]) :
            /\ lockOwner[g] \notin {None, w} /\ Parked(state', current', w) /\ w # p
            /\ \A k \in Files : w \in Range(lockWaiters[k]) => g = k
            /\ \A a \in Range(jobs) : a.pid # w
    BY <1>5, <1>6 DEF LocksSound
  <2>2. ASSUME NEW g \in Files, NEW w \in Range(lockWaiters'[g])
        PROVE  /\ lockOwner[g] \notin {None, w} /\ Parked(state', current', w)
               /\ \A k \in Files : w \in Range(lockWaiters'[k]) => g = k
               /\ \A a \in Range(jobs) : a.pid # w
    <3>1. CASE w \in Range(lockWaiters[g])
      <4>1. /\ lockOwner[g] \notin {None, w} /\ Parked(state', current', w) /\ w # p
            /\ \A k \in Files : w \in Range(lockWaiters[k]) => g = k
            /\ \A a \in Range(jobs) : a.pid # w
        BY <2>1, <3>1
      <4>2. \A k \in Files : w \in Range(lockWaiters'[k]) => w \in Range(lockWaiters[k])
        BY <1>9, <4>1
      <4>3. QED
        BY <4>1, <4>2
    <3>2. CASE w = p /\ g = f
      <4>1. \A k \in Files : p \in Range(lockWaiters'[k]) => k = f
        BY <1>5, <1>9
      <4>2. QED
        BY <1>1, <1>2, <1>5, <3>2, <4>1
    <3>3. QED
      BY <1>9, <3>1, <3>2
  <2>3. QED
    BY <1>6, <1>9, <2>2 DEF LocksSound
<1>11. \A q \in Procs : Waits(q)' <=> Waits(q) \/ q = p
  BY <1>1, <1>9 DEF Waits, Reason
<1>12. QED
  BY <1>1, <1>3, <1>10, <1>11 DEF DeviceInv

-----------------------------------------------------------------------------
(* The inductive invariant.  Of the files: what is locked or open exists,   *)
(* which is all that keeps Create from forgetting a lock or a descriptor.   *)
FilesInv ==
    /\ exists \in [Files -> BOOLEAN] /\ openCount \in [Files -> Nat]
    /\ fds \in [Openers -> [Files -> 0..MaxOpen]]
    /\ OpenCountMatchesFds
    /\ \A f \in Files : lockOwner[f] # None => exists[f]
    /\ \A f \in Files, p \in Openers : fds[p][f] > 0 => exists[f]

FileInv ==
    /\ KernelInv /\ DeviceInv /\ FilesInv
    /\ \A p \in Procs : state[p] = "BLOCKED" => Waits(p)

LEMMA KernelTypes2 ==
    ASSUME KernelInv
    PROVE  /\ state \in [Procs -> ProcessState] /\ current \in Procs \cup {None}
           /\ remaining \in [Procs -> Nat] /\ KInv(state, ready, current)
           /\ SliceOK(current, slice)
BY KernelInvSplit DEF KInv

(* The open count is at least the descriptors of each process.              *)
LEMMA OpenCountBound ==
    ASSUME FilesInv, NEW p \in Openers, NEW f \in Files
    PROVE  fds[p][f] <= openCount[f]
<1> DEFINE held == [q \in Openers |-> fds[q][f]]
<1>1. IsFiniteSet(Openers)
  BY KernelAssumption, FileIoAssumption, FS_Subset
<1>2. held \in [Openers -> Nat]
  BY FileIoAssumption DEF FilesInv
<1>3. \A q \in Openers : held[q] <= SumFunction(held)
  <2> HIDE DEF held
  <2>1. QED
    BY <1>1, <1>2, SumOfNats
<1>4. openCount[f] = SumFunction(held)
  BY DEF FilesInv, OpenCountMatchesFds
<1> HIDE DEF held
<1>5. held[p] <= openCount[f]
  BY <1>3, <1>4
<1>6. QED
  BY <1>5 DEF held

(* Changing the descriptors of p on f by d changes the sum for f by d, and  *)
(* no other.                                                                *)
LEMMA OpenCountChange ==
    ASSUME FilesInv, NEW p \in Openers, NEW f \in Files, NEW n \in 0..MaxOpen,
           fds' = [fds EXCEPT ![p][f] = n],
           openCount' = [openCount EXCEPT ![f] = @ + (n - fds[p][f])]
    PROVE  OpenCountMatchesFds'
<1>1. IsFiniteSet(Openers) /\ MaxOpen \in Nat
  BY KernelAssumption, FileIoAssumption, FS_Subset
<1>2. /\ fds \in [Openers -> [Files -> 0..MaxOpen]] /\ openCount \in [Files -> Nat]
      /\ \A g \in Files : openCount[g] = SumFunction([q \in Openers |-> fds[q][g]])
  BY DEF FilesInv, OpenCountMatchesFds
<1>3. \A q \in Openers : \A g \in Files :
          fds'[q][g] = IF q = p /\ g = f THEN n ELSE fds[q][g]
  BY <1>2
<1>4. ASSUME NEW g \in Files
      PROVE  openCount'[g] = SumFunction([q \in Openers |-> fds'[q][g]])
  <2>1. CASE g # f
    <3>1. [q \in Openers |-> fds'[q][g]] = [q \in Openers |-> fds[q][g]]
      BY <1>3, <2>1
    <3>2. openCount'[g] = openCount[g]
      BY <1>2, <2>1
    <3>3. QED
      BY <1>2, <3>1, <3>2
  <2>2. CASE g = f
    <3> DEFINE f1 == [q \in Openers |-> fds[q][g]]
               f2 == [q \in Openers |-> fds'[q][g]]
    <3>1. f1 \in [Openers -> Int] /\ f2 \in [Openers -> Int]
      BY <1>1, <1>2, <1>3
    <3>2. \A q \in Openers \ {p} : f1[q] = f2[q]
      BY <1>3
    <3>3. f1[p] = fds[p][f] /\ f2[p] = n
      BY <1>3, <2>2
    <3>4. openCount[g] = SumFunction(f1)
      BY <1>2
    <3> HIDE DEF f1, f2
    <3>5. SumFunction(f1) \in Int /\ SumFunction(f2) = SumFunction(f1) + (f2[p] - f1[p])
      BY <1>1, <3>1, <3>2, SumChange
    <3>6. openCount'[g] = openCount[g] + (n - fds[p][f])
      BY <1>2, <2>2
    <3>7. openCount'[g] = SumFunction(f2)
      BY <3>3, <3>4, <3>5, <3>6
    <3>8. QED
      BY <3>7 DEF f2
  <2>3. QED
    BY <2>1, <2>2
<1>5. QED
  BY <1>4 DEF OpenCountMatchesFds

(* The calls that neither block nor wake anybody.                           *)
LEMMA CreateInv ==
    ASSUME FileInv, NEW f \in Files, Create(f)
    PROVE  FileInv'
<1>1. /\ ~ exists[f] /\ exists' = [exists EXCEPT ![f] = TRUE]
      /\ openCount' = [openCount EXCEPT ![f] = 0]
      /\ lockOwner' = [lockOwner EXCEPT ![f] = None]
      /\ lockWaiters' = [lockWaiters EXCEPT ![f] = <<>>]
      /\ UNCHANGED <<kernelVars, fds, jobs>>
  BY DEF Create
<1>2. lockOwner[f] = None /\ \A p \in Openers : fds[p][f] = 0
  BY <1>1, FileIoAssumption DEF FileInv, FilesInv
<1>3. lockOwner' = lockOwner /\ lockWaiters' = lockWaiters
  <2>1. lockOwner \in [Files -> Procs \cup {None}] /\ lockWaiters \in [Files -> Seq(Procs)]
    BY DEF FileInv, DeviceInv, LocksSound
  <2>2. Range(lockWaiters[f]) = {}
    BY <1>2 DEF FileInv, DeviceInv, LocksSound
  <2>3. lockWaiters[f] = <<>>
    BY <2>1, <2>2, RangeOfQueue
  <2>4. QED
    BY <1>1, <1>2, <2>1, <2>3
<1>4. UNCHANGED <<state, current, ready, slice, remaining>>
  BY <1>1 DEF kernelVars
<1>5. KernelInv'
  BY <1>1, KernelNextInv DEF FileInv
<1>6. DeviceInv' /\ \A p \in Procs : Waits(p)' <=> Waits(p)
  BY <1>1, <1>3, <1>4, DeviceUntouched DEF FileInv
<1>7. openCount' = openCount
  <2> DEFINE held == [q \in Openers |-> fds[q][f]]
  <2>1. IsFiniteSet(Openers)
    BY KernelAssumption, FileIoAssumption, FS_Subset
  <2>2. held \in [Openers -> Nat] /\ \A q \in Openers : held[q] = 0
    BY <1>2
  <2>3. openCount[f] = SumFunction(held) /\ openCount \in [Files -> Nat]
    BY DEF FileInv, FilesInv, OpenCountMatchesFds
  <2> HIDE DEF held
  <2>4. openCount[f] = 0
    BY <2>1, <2>2, <2>3, SumOfNats
  <2>5. QED
    BY <1>1, <2>3, <2>4
<1>8. FilesInv'
  BY <1>1, <1>3, <1>7 DEF FileInv, FilesInv, OpenCountMatchesFds
<1>9. QED
  BY <1>4, <1>5, <1>6, <1>8 DEF FileInv

LEMMA OpenCloseDeleteInv ==
    ASSUME FileInv, NEW f \in Files, Delete(f) \/ \E p \in Openers : Open(p, f) \/ Close(p, f)
    PROVE  FileInv'
<1>1. UNCHANGED <<kernelVars, lockOwner, lockWaiters, jobs>>
  BY DEF Delete, Open, Close
<1>2. UNCHANGED <<state, current, ready, slice, remaining>>
  BY <1>1 DEF kernelVars
<1>3. KernelInv'
  BY <1>1, KernelNextInv DEF FileInv
<1>4. DeviceInv' /\ \A p \in Procs : Waits(p)' <=> Waits(p)
  BY <1>1, <1>2, DeviceUntouched DEF FileInv
<1>5. FilesInv
  BY DEF FileInv
<1>6. /\ exists \in [Files -> BOOLEAN] /\ openCount \in [Files -> Nat] /\ MaxOpen \in Nat
      /\ fds \in [Openers -> [Files -> 0..MaxOpen]]
  BY <1>5, FileIoAssumption DEF FilesInv
<1>7. ASSUME Delete(f) PROVE FilesInv'
  <2>1. /\ openCount[f] = 0 /\ lockOwner[f] = None
        /\ exists' = [exists EXCEPT ![f] = FALSE] /\ UNCHANGED <<openCount, fds>>
    BY <1>7 DEF Delete, Deletable
  <2>2. \A p \in Openers : ~ (fds[p][f] > 0)
    BY <1>5, <1>6, <2>1, OpenCountBound
  <2>3. QED
    BY <1>1, <1>5, <1>6, <2>1, <2>2 DEF FilesInv, OpenCountMatchesFds
<1>8. ASSUME NEW p \in Openers, Open(p, f) PROVE FilesInv'
  <2>1. /\ exists[f] /\ fds[p][f] < MaxOpen /\ fds' = [fds EXCEPT ![p][f] = @ + 1]
        /\ openCount' = [openCount EXCEPT ![f] = @ + 1] /\ exists' = exists
    BY <1>8 DEF Open
  <2> DEFINE n == fds[p][f] + 1
  <2>2. n \in 0..MaxOpen /\ n - fds[p][f] = 1 /\ fds' = [fds EXCEPT ![p][f] = n]
    BY <1>6, <2>1
  <2> HIDE DEF n
  <2>3. openCount' = [openCount EXCEPT ![f] = @ + (n - fds[p][f])]
    BY <2>1, <2>2
  <2>4. OpenCountMatchesFds'
    BY <1>5, <2>2, <2>3, OpenCountChange
  <2>5. \A q \in Openers : \A g \in Files :
            fds'[q][g] = IF q = p /\ g = f THEN n ELSE fds[q][g]
    BY <1>6, <2>2
  <2>6. fds' \in [Openers -> [Files -> 0..MaxOpen]] /\ openCount' \in [Files -> Nat]
    BY <1>6, <2>1, <2>2
  <2>7. QED
    BY <1>1, <1>5, <2>1, <2>4, <2>5, <2>6 DEF FilesInv
<1>9. ASSUME NEW p \in Openers, Close(p, f) PROVE FilesInv'
  <2>1. /\ fds[p][f] > 0 /\ fds' = [fds EXCEPT ![p][f] = @ - 1]
        /\ openCount' = [openCount EXCEPT ![f] = CountAfterClose(f)] /\ exists' = exists
    BY <1>9 DEF Close
  <2> DEFINE n == fds[p][f] - 1
  <2>2. /\ n \in 0..MaxOpen /\ n - fds[p][f] = -1 /\ fds' = [fds EXCEPT ![p][f] = n]
        /\ n < fds[p][f]
    BY <1>6, <2>1
  <2>3. exists[f] /\ openCount[f] > 0
    BY <1>5, <1>6, <2>1, OpenCountBound DEF FilesInv
  <2> HIDE DEF n
  <2>4. openCount' = [openCount EXCEPT ![f] = @ + (n - fds[p][f])]
    BY <1>6, <2>1, <2>2, <2>3 DEF CountAfterClose
  <2>5. OpenCountMatchesFds'
    BY <1>5, <2>2, <2>4, OpenCountChange
  <2>6. \A q \in Openers : \A g \in Files :
            fds'[q][g] = IF q = p /\ g = f THEN n ELSE fds[q][g]
    BY <1>6, <2>2
  <2>7. fds' \in [Openers -> [Files -> 0..MaxOpen]] /\ openCount' \in [Files -> Nat]
    BY <1>6, <2>1, <2>2, <2>3 DEF CountAfterClose
  <2>8. QED
    BY <1>1, <1>5, <2>1, <2>3, <2>5, <2>6, <2>7 DEF FilesInv
<1>10. FilesInv'
  BY <1>7, <1>8, <1>9
<1>11. QED
  BY <1>2, <1>3, <1>4, <1>10 DEF FileInv

(* Admission and termination leave every parked process parked, and block   *)
(* nobody.                                                                  *)
LEMMA AdmitTerminateInv ==
    ASSUME FileInv, NEW p \in Procs, FileAdmit(p) \/ FileTerminate(p)
    PROVE  FileInv'
<1>1. /\ UNCHANGED fileVars /\ current' = current
      /\ \/ state[p] = "NEW" /\ state' = [state EXCEPT ![p] = "READY"]
         \/ state' = [state EXCEPT ![p] = "TERMINATED"]
  BY DEF FileAdmit, FileTerminate, Admit, Terminate
<1>2. state \in [Procs -> ProcessState]
  BY KernelTypes2 DEF FileInv
<1>3. \A q \in Procs : /\ Parked(state, current, q) => Parked(state', current', q)
                       /\ state'[q] = "BLOCKED" => state[q] = "BLOCKED"
  BY <1>1, <1>2 DEF Parked
<1>4. KernelInv'
  BY KernelNextInv DEF FileInv, FileAdmit, FileTerminate, KernelNext
<1>5. UNCHANGED <<exists, lockOwner, lockWaiters, openCount, fds, jobs>>
  BY <1>1 DEF fileVars
<1>6. DeviceInv' /\ \A q \in Procs : Waits(q)' <=> Waits(q)
  BY <1>3, <1>5, DeviceUntouched DEF FileInv
<1>7. FilesInv'
  BY <1>5 DEF FileInv, FilesInv, OpenCountMatchesFds
<1>8. QED
  BY <1>3, <1>4, <1>6, <1>7 DEF FileInv

(* Blocking I/O, whether the caller gets the lock or waits for it.          *)
LEMMA StartIoInv ==
    ASSUME FileInv, NEW p \in Procs, NEW f \in Files, StartIo(p, f)
    PROVE  FileInv'
<1>1. /\ state[p] \in {"READY", "RUNNING"} /\ exists[f] /\ UNCHANGED <<exists, openCount, fds>>
      /\ (\E op \in Ops, t \in Latencies : QueueJob(p, f, op, t)) \/ AwaitLock(p, f)
  BY DEF StartIo
<1>2. state \in [Procs -> ProcessState] /\ DeviceInv
  BY KernelTypes2 DEF FileInv
<1>3. DeviceInv' /\ \A q \in Procs : Waits(q)' <=> Waits(q) \/ q = p
  BY <1>1, <1>2, QueueJobInv, AwaitLockInv
<1>4. BlockProcess(p)
  BY <1>1 DEF QueueJob, AwaitLock
<1>5. state' = [state EXCEPT ![p] = "BLOCKED"]
  BY <1>1, <1>2, <1>4, BlockParks
<1>6. KernelInv'
  BY <1>4, KernelNextInv DEF FileInv, KernelNext
<1>7. \A q \in Procs : state'[q] = "BLOCKED" => Waits(q)'
  BY <1>2, <1>3, <1>5 DEF FileInv
<1>8. FilesInv'
  <2>1. lockOwner \in [Files -> Procs \cup {None}]
    BY <1>2 DEF DeviceInv, LocksSound
  <2>2. \A g \in Files : lockOwner'[g] # None => lockOwner[g] # None \/ g = f
    BY <1>1, <2>1 DEF QueueJob, AwaitLock
  <2>3. \A g \in Files : lockOwner'[g] # None => exists'[g]
    BY <1>1, <2>2 DEF FileInv, FilesInv
  <2>4. QED
    BY <1>1, <2>3 DEF FileInv, FilesInv, OpenCountMatchesFds
<1>9. QED
  BY <1>3, <1>6, <1>7, <1>8 DEF FileInv

(* The jobs left are one for each caller.                                   *)
LEMMA OnceIsOneEach ==
    ASSUME NEW js \in Seq(Job), Once(js),
           \A a, b \in Range(js) : a.pid = b.pid => a = b
    PROVE  OneEach(js)
BY JobsInRange DEF OneEach, Once

(* A tick: the loop over the jobs, then the dispatch, which moves nobody    *)
(* who is parked and blocks nobody.                                         *)
LEMMA FileTickInv ==
    ASSUME FileInv, FileTick
    PROVE  FileInv'
<1>1. /\ KInv(state, ready, current) /\ SliceOK(current, slice)
      /\ current \in Procs \cup {None} /\ remaining \in [Procs -> Nat]
  BY KernelTypes2 DEF FileInv
<1>2. jobs \in Seq(Job) /\ OneEach(jobs) /\ Range(jobs) \subseteq Job
  BY JobsInRange DEF FileInv, DeviceInv
<1>3. LocksSound(Range(jobs), lockOwner, lockWaiters, state, current)
  BY DEF FileInv, DeviceInv
<1>4. \A i \in DOMAIN jobs : exists[jobs[i].path]
  <2>1. \A a \in Range(jobs) : a.pid # None /\ a.path \in Files
    BY <1>2, JobFields
  <2>2. \A a \in Range(jobs) : exists[a.path]
    <3>1. \A f \in Files : lockOwner[f] # None => exists[f]
      BY DEF FileInv, FilesInv
    <3>2. \A a \in Range(jobs) : lockOwner[a.path] = a.pid
      BY <1>3 DEF LocksSound
    <3>3. QED
      BY <2>1, <3>1, <3>2
  <2>3. QED
    BY <1>2, <2>2, JobsInRange
<1> DEFINE r == AfterIoTimers(state, ready)
           start == BeforeIoTimers(state, ready)
<1>5. /\ r.left \in Seq(Job) /\ Once(r.left) /\ TickInv(r, Range(r.left))
      /\ Progress(start, Range(jobs), r, Range(r.left)) /\ r.there = exists
  BY <1>1, <1>2, <1>3, <1>4, IoTimersInv
<1>6. start.own = lockOwner /\ start.wait = lockWaiters /\ start.cpu.st = state
  BY DEF BeforeIoTimers
<1>7. PICK eff \in [Procs -> Weights] : CpuStep(r.cpu.st, r.cpu.rq, eff, {})
  BY DEF FileTick
<1>8. /\ exists' = r.there /\ lockOwner' = r.own /\ lockWaiters' = r.wait /\ jobs' = r.left
      /\ UNCHANGED <<openCount, fds>>
  BY DEF FileTick, FilesBecome
<1> HIDE DEF r, start
<1>9. /\ KInv(r.cpu.st, r.cpu.rq, current) /\ Range(r.left) \subseteq Job
      /\ LocksSound(Range(r.left), r.own, r.wait, r.cpu.st, current)
  BY <1>5 DEF TickInv
<1>10. eff \in [Procs -> Int] /\ r.cpu.st \in [Procs -> ProcessState]
  BY <1>9, KernelAssumption DEF KInv
<1>11. KernelInv'
  BY <1>1, <1>7, <1>9, <1>10, CpuStepKeepsInv
<1>12. /\ \A p \in Procs : Parked(r.cpu.st, current, p) => Parked(state', current', p)
       /\ \A p \in Procs : state'[p] = "BLOCKED" => r.cpu.st[p] = "BLOCKED"
  BY <1>1, <1>7, <1>10, TickKeepsParked
<1>13. DeviceInv'
  <2>1. LocksSound(Range(r.left), r.own, r.wait, state', current')
    BY <1>9, <1>12, ParkedKeepsLocks
  <2>2. \A a, b \in Range(r.left) : a.pid = b.pid => a = b
    BY <1>9 DEF LocksSound
  <2>3. OneEach(r.left)
    BY <1>5, <2>2, OnceIsOneEach
  <2>4. QED
    BY <1>5, <1>8, <2>1, <2>3 DEF DeviceInv
<1>14. \A p \in Procs : state'[p] = "BLOCKED" => Waits(p)'
  <2>1. TAKE p \in Procs
  <2>2. HAVE state'[p] = "BLOCKED"
  <2>3. r.cpu.st[p] = "BLOCKED"
    BY <1>12, <2>2
  <2>4. state[p] = "BLOCKED" /\ (Reason(Range(jobs), lockWaiters, p) =>
                                     Reason(Range(r.left), r.wait, p))
    BY <1>5, <1>6, <2>3 DEF Progress
  <2>5. QED
    BY <1>8, <2>4 DEF FileInv, Waits
<1>15. FilesInv'
  <2>1. \A f \in Files : lockOwner'[f] # None => lockOwner[f] # None
    BY <1>5, <1>6, <1>8 DEF Progress
  <2>2. exists' = exists
    BY <1>5, <1>8
  <2>3. QED
    BY <1>8, <2>1, <2>2 DEF FileInv, FilesInv, OpenCountMatchesFds
<1>16. QED
  BY <1>11, <1>13, <1>14, <1>15 DEF FileInv

LEMMA FileInitInv == FileIoInit => FileInv
<1> SUFFICES ASSUME FileIoInit PROVE FileInv
  OBVIOUS
<1>1. KernelInv
  BY KernelInitInv DEF FileIoInit
<1>2. /\ exists = [f \in Files |-> FALSE] /\ lockOwner = [f \in Files |-> None]
      /\ lockWaiters = [f \in Files |-> <<>>] /\ openCount = [f \in Files |-> 0]
      /\ fds = [p \in Openers |-> [f \in Files |-> 0]] /\ jobs = <<>>
  BY DEF FileIoInit
<1>3. Range(jobs) = {} /\ \A f \in Files : Range(lockWaiters[f]) = {}
  BY <1>2 DEF Range
<1>4. DeviceInv
  <2>1. jobs \in Seq(Job) /\ OneEach(jobs)
    BY <1>2 DEF OneEach
  <2>2. lockWaiters \in [Files -> Seq(Procs)] /\ \A f \in Files : Once(lockWaiters[f])
    BY <1>2 DEF Once
  <2>3. QED
    BY <1>2, <1>3, <2>1, <2>2 DEF DeviceInv, LocksSound
<1>5. OpenCountMatchesFds
  <2>1. SUFFICES ASSUME NEW f \in Files
                 PROVE  openCount[f] = SumFunction([p \in Openers |-> fds[p][f]])
    BY DEF OpenCountMatchesFds
  <2> DEFINE held == [p \in Openers |-> fds[p][f]]
  <2>2. IsFiniteSet(Openers)
    BY KernelAssumption, FileIoAssumption, FS_Subset
  <2>3. held \in [Openers -> Nat] /\ \A p \in Openers : held[p] = 0
    BY <1>2
  <2> HIDE DEF held
  <2>4. SumFunction(held) = 0
    BY <2>2, <2>3, SumOfNats
  <2>5. QED
    BY <1>2, <2>4 DEF held
<1>6. FilesInv
  BY <1>2, <1>5, FileIoAssumption DEF FilesInv
<1>7. \A p \in Procs : state[p] # "BLOCKED"
  BY DEF FileIoInit, KernelInit
<1>8. QED
  BY <1>1, <1>4, <1>6, <1>7 DEF FileInv

(* Every call and every tick keeps the invariant.                           *)
LEMMA FileNextInv == FileInv /\ [FileIoNext]_fileIoVars => FileInv'
<1> SUFFICES ASSUME FileInv, [FileIoNext]_fileIoVars PROVE FileInv'
  OBVIOUS
<1>1. CASE UNCHANGED fileIoVars
  <2>1. /\ UNCHANGED <<state, ready, current, slice, remaining>>
        /\ UNCHANGED <<exists, lockOwner, lockWaiters, openCount, fds, jobs>>
    BY <1>1 DEF fileIoVars, kernelVars, fileVars
  <2>2. KernelInv'
    BY <2>1, KernelNextInv DEF FileInv, kernelVars
  <2>3. DeviceInv' /\ \A q \in Procs : Waits(q)' <=> Waits(q)
    BY <2>1, DeviceUntouched DEF FileInv
  <2>4. QED
    BY <2>1, <2>2, <2>3 DEF FileInv, FilesInv, OpenCountMatchesFds
<1>2. ASSUME NEW p \in Procs, FileAdmit(p) PROVE FileInv'
  BY <1>2, AdmitTerminateInv
<1>3. ASSUME NEW p \in Killable, FileTerminate(p) PROVE FileInv'
  BY <1>3, AdmitTerminateInv, FileIoAssumption
<1>4. ASSUME NEW f \in Files, Create(f) PROVE FileInv'
  BY <1>4, CreateInv
<1>5. ASSUME NEW f \in Files, Delete(f) PROVE FileInv'
  BY <1>5, OpenCloseDeleteInv
<1>6. ASSUME NEW p \in Openers, NEW f \in Files, Open(p, f) \/ Close(p, f) PROVE FileInv'
  BY <1>6, OpenCloseDeleteInv
<1>7. ASSUME NEW p \in Procs, NEW f \in Files, StartIo(p, f) PROVE FileInv'
  BY <1>7, StartIoInv
<1>8. CASE FileTick
  BY <1>8, FileTickInv
<1>9. QED
  BY <1>1, <1>2, <1>3, <1>4, <1>5, <1>6, <1>7, <1>8 DEF FileIoNext

-----------------------------------------------------------------------------
(* The invariant holds in every reachable state.                            *)
THEOREM FileInvariant == FileIoSpec => []FileInv
<1> QED BY FileInitInv, FileNextInv, PTL DEF FileIoSpec

LEMMA OpsOfJobs == Job = [pid : Procs, path : Files, op : Ops, ticks : Nat \ {0}]
BY DEF Job

(* The types of the files, locks, descriptors and jobs.                     *)
THEOREM FileTypes == FileIoSpec => []FileTypeOK
<1>1. FileInv => FileTypeOK
  BY OpsOfJobs DEF FileInv, DeviceInv, LocksSound, FilesInv, FileTypeOK
<1> QED BY <1>1, FileInvariant, PTL

(* The processes and the ready queue keep their invariant under blocking    *)
(* I/O and under the wake-ups of completed jobs and released locks.         *)
THEOREM FileIoKeepsKernel == FileIoSpec => []KernelInv
<1>1. FileInv => KernelInv
  BY DEF FileInv
<1> QED BY <1>1, FileInvariant, PTL

(* The same invariant, of the jobs and the waiters by their places.         *)
LEMMA DeviceInvHolds ==
    ASSUME DeviceInv
    PROVE  DeviceUnderLocks
<1>1. jobs \in Seq(Job) /\ OneEach(jobs) /\ lockWaiters \in [Files -> Seq(Procs)]
  BY DEF DeviceInv, LocksSound
<1>2. LocksSound(Range(jobs), lockOwner, lockWaiters, state, current)
  BY DEF DeviceInv
<1>3. \A i \in DOMAIN jobs : jobs[i] \in Range(jobs) /\ jobs[i] \in Job
  BY <1>1, JobsInRange
<1>4. \A f \in Files : \A i \in DOMAIN lockWaiters[f] :
          lockWaiters[f][i] \in Range(lockWaiters[f])
  BY <1>1, RangeOfQueue
<1>5. JobsHoldLocks
  BY <1>1, <1>2, <1>3 DEF LocksSound, OneEach, JobsHoldLocks, Parked
<1>6. WaitersOnHeldLocks
  BY <1>2, <1>3, <1>4 DEF LocksSound, Once, WaitersOnHeldLocks
<1>7. QED
  BY <1>5, <1>6 DEF DeviceUnderLocks

(* The device works for those who hold the lock, and nobody waits for a     *)
(* lock that is free, twice, in two places, or with a job of his own.       *)
THEOREM DeviceWorksUnderLocks == FileIoSpec => []DeviceUnderLocks
<1>1. FileInv => DeviceUnderLocks
  BY DeviceInvHolds DEF FileInv
<1> QED BY <1>1, FileInvariant, PTL

(* No wake-up is lost: who is BLOCKED has a job or waits for a lock.        *)
THEOREM NoWakeUpIsLost == FileIoSpec => []BlockedHasReason
<1>1. FileInv => BlockedHasReason
  <2> SUFFICES ASSUME FileInv, NEW p \in Procs, state[p] = "BLOCKED"
               PROVE  (\E i \in DOMAIN jobs : jobs[i].pid = p)
                      \/ \E f \in Files : p \in Range(lockWaiters[f])
    BY DEF BlockedHasReason
  <2>1. jobs \in Seq(Job) /\ Waits(p)
    BY DEF FileInv, DeviceInv
  <2>2. QED
    BY <2>1, JobsInRange DEF Waits, Reason
<1> QED BY <1>1, FileInvariant, PTL

(* A file that is open, locked, waited for or about to be transferred is    *)
(* there.                                                                   *)
THEOREM FilesInUseExist == FileIoSpec => []InUseExists
<1>1. FileInv => InUseExists
  <2> SUFFICES ASSUME FileInv, NEW f \in Files
               PROVE  \/ lockOwner[f] # None \/ lockWaiters[f] # <<>>
                      \/ \E p \in Openers : fds[p][f] > 0
                      \/ \E i \in DOMAIN jobs : jobs[i].path = f
                      => exists[f]
    BY DEF InUseExists
  <2>1. jobs \in Seq(Job) /\ lockWaiters \in [Files -> Seq(Procs)]
    BY DEF FileInv, DeviceInv, LocksSound
  <2>2. LocksSound(Range(jobs), lockOwner, lockWaiters, state, current)
    BY DEF FileInv, DeviceInv
  <2>3. /\ lockOwner[f] # None => exists[f]
        /\ \A p \in Openers : fds[p][f] > 0 => exists[f]
    BY DEF FileInv, FilesInv
  <2>4. lockWaiters[f] # <<>> => lockOwner[f] # None
    <3>1. HAVE lockWaiters[f] # <<>>
    <3>2. lockWaiters[f][1] \in Range(lockWaiters[f])
      BY <2>1, <3>1, RangeOfQueue
    <3>3. QED
      BY <2>2, <3>2 DEF LocksSound
  <2>5. \A i \in DOMAIN jobs : jobs[i].path = f => lockOwner[f] # None
    <3>1. \A a \in Range(jobs) : lockOwner[a.path] = a.pid /\ a.pid # None
      BY <2>1, <2>2, JobsInRange, JobFields DEF LocksSound
    <3>2. QED
      BY <2>1, <3>1, JobsInRange
  <2>6. QED
    BY <2>3, <2>4, <2>5
<1> QED BY <1>1, FileInvariant, PTL

(* The open count of the inode is the number of descriptors on it.          *)
THEOREM OpenCountIsDescriptors == FileIoSpec => []OpenCountMatchesFds
<1>1. FileInv => OpenCountMatchesFds
  BY DEF FileInv, FilesInv
<1> QED BY <1>1, FileInvariant, PTL

=============================================================================
