---------------------------- MODULE PagingProofs ----------------------------
(***************************************************************************)
(* Proofs about Paging: the frame table, the page tables, the free list    *)
(* and the load order always agree, and the fault jobs in flight are those *)
(* of missing pages of living processes, one for each page.                *)
(***************************************************************************)
EXTENDS Paging, KernelProofs, DataLemmas

Job == [page : Space, ticks : 1..FaultTicks]

MemTypes(m) ==
    /\ m = [frame |-> m.frame, free |-> m.free, order |-> m.order, table |-> m.table]
    /\ m.frame \in [Frames -> Space \cup {None}]
    /\ m.free \in Seq(Frames) /\ m.order \in Seq(Frames)
    /\ m.table \in [Space -> Frames \cup {None}]

(* What a memory satisfies between any two steps of a handler.              *)
MemInv(m) == MemTypes(m) /\ FramesMatchTables(m) /\ FramesAccountedFor(m)

(* The pages of a memory.                                                   *)
Resident(m) == {page \in Space : m.table[page] # None}

LEMMA NoRepeatsIsOnce == \A s : NoRepeats(s) <=> Once(s)
BY DEF NoRepeats, Once

LEMMA ConstantFacts ==
    /\ NumFrames \in Nat /\ None \notin Frames /\ None \notin Space
    /\ Frames = {f \in Nat : f < NumFrames}
    /\ FaultTicks \in Nat \ {0}
<1>1. TotalMemory \in Nat /\ PageSize \in Nat /\ PageSize > 0 /\ FaultTicks \in Nat \ {0}
  BY PagingAssumption
<1>2. NumFrames \in Nat
  BY <1>1 DEF NumFrames
<1>3. Pages \subseteq Nat
  BY DEF Pages
<1>4. Space \subseteq Procs \X Nat
  BY <1>3 DEF Space
<1>5. None \notin Frames /\ Frames = {f \in Nat : f < NumFrames}
  <2>1. None \notin Nat
    BY PagingAssumption
  <2>2. QED
    BY <1>2, <2>1 DEF Frames
<1>6. None \notin Space
  BY <1>4, PagingAssumption
<1>7. QED
  BY <1>1, <1>2, <1>5, <1>6

-----------------------------------------------------------------------------
(* Taking one frame out of an order without repetitions.                    *)
LEMMA RemoveFrameSeq ==
    ASSUME NEW S, NEW order \in Seq(S), NoRepeats(order), NEW f \in Range(order)
    PROVE  /\ RemoveFrame(order, f) \in Seq(S)
           /\ NoRepeats(RemoveFrame(order, f))
           /\ Range(RemoveFrame(order, f)) = Range(order) \ {f}
           /\ \A x, y : InOrder(order, x, y) /\ x # f /\ y # f =>
                  InOrder(RemoveFrame(order, f), x, y)
<1> DEFINE i == CHOOSE k \in DOMAIN order : order[k] = f
           n == Len(order)
           r == RemoveFrame(order, f)
           a == SubSeq(order, 1, i - 1)
           b == SubSeq(order, i + 1, n)
<1>1. i \in 1..n /\ order[i] = f /\ n \in Nat /\ DOMAIN order = 1..n
  <2>1. \E k \in DOMAIN order : order[k] = f
    BY DEF Range
  <2>2. QED
    BY <2>1
<1> HIDE DEF i
<1>2. r = a \o b
  BY DEF RemoveFrame, RemoveAt, i
<1>3. a \in Seq(S) /\ Len(a) = i - 1 /\ \A k \in 1..(i - 1) : a[k] = order[k]
  <2>1. 1 \in Int /\ i - 1 \in Int /\ \A k \in 1..(i - 1) : order[k] \in S
    BY <1>1
  <2>2. QED
    BY <1>1, <2>1, SubSeqProperties
<1>4. b \in Seq(S) /\ Len(b) = n - i /\ \A k \in 1..(n - i) : b[k] = order[i + k]
  <2>1. i + 1 \in Int /\ n \in Int /\ \A k \in (i + 1)..n : order[k] \in S
    BY <1>1
  <2>2. /\ b \in Seq(S) /\ Len(b) = IF i + 1 <= n THEN (n - (i + 1)) + 1 ELSE 0
        /\ \A k \in 1..((n - (i + 1)) + 1) : b[k] = order[((i + 1) + k) - 1]
    BY <2>1, SubSeqProperties
  <2> HIDE DEF b
  <2>3. Len(b) = n - i
    <3>1. Len(b) = IF i + 1 <= n THEN (n - (i + 1)) + 1 ELSE 0
      BY <2>2
    <3>2. (IF i + 1 <= n THEN (n - (i + 1)) + 1 ELSE 0) = n - i
      <4> HIDE DEF n
      <4>1. i \in 1..n /\ n \in Nat
        BY <1>1
      <4>2. QED
        BY <4>1
    <3>3. QED
      BY <3>1, <3>2
  <2>4. ASSUME NEW k \in 1..(n - i) PROVE b[k] = order[i + k]
    <3>1. k \in 1..((n - (i + 1)) + 1) /\ ((i + 1) + k) - 1 = i + k
      BY <1>1
    <3>2. QED
      BY <2>2, <3>1
  <2>5. QED
    BY <2>2, <2>3, <2>4
<1> HIDE DEF a, b
<1>5. r \in Seq(S) /\ Len(r) = n - 1
  <2>1. a \o b \in Seq(S) /\ Len(a \o b) = Len(a) + Len(b)
    BY <1>3, <1>4
  <2>2. (i - 1) + (n - i) = n - 1
    BY <1>1
  <2>3. QED
    BY <1>2, <1>3, <1>4, <2>1, <2>2
<1>6. \A k \in 1..(n - 1) : r[k] = IF k <= i - 1 THEN order[k] ELSE order[k + 1]
  <2> TAKE k \in 1..(n - 1)
  <2>1. CASE k <= i - 1
    <3>1. r[k] = a[k]
      BY <1>1, <1>2, <1>3, <1>4, <2>1
    <3>2. QED
      BY <3>1, <1>3, <1>1, <2>1
  <2>2. CASE ~ (k <= i - 1)
    <3>1. r[k] = b[k - (i - 1)]
      BY <1>1, <1>2, <1>3, <1>4, <2>2
    <3>2. (k - (i - 1)) \in 1..(n - i) /\ i + (k - (i - 1)) = k + 1
      BY <1>1, <2>2
    <3>3. QED
      BY <3>1, <3>2, <1>4, <2>2
  <2>3. QED
    BY <2>1, <2>2
<1> HIDE DEF r
<1>7. DOMAIN r = 1..(n - 1)
  BY <1>5, <1>1
<1>8. NoRepeats(r)
  <2> SUFFICES ASSUME NEW k \in 1..(n - 1), NEW l \in 1..(n - 1), r[k] = r[l]
               PROVE  k = l
    BY <1>7 DEF NoRepeats
  <2> DEFINE at(x) == IF x <= i - 1 THEN x ELSE x + 1
  <2>1. at(k) \in 1..n /\ at(l) \in 1..n
    BY <1>1
  <2>2. order[at(k)] = order[at(l)]
    BY <1>6
  <2>3. at(k) = at(l)
    BY <2>1, <2>2, <1>1 DEF NoRepeats
  <2>4. QED
    BY <2>3, <1>1
<1>9. Range(r) = Range(order) \ {f}
  <2>1. ASSUME NEW x \in Range(r)
        PROVE  x \in Range(order) \ {f}
    <3>1. PICK k \in 1..(n - 1) : x = r[k]
      BY <1>7 DEF Range
    <3>2. PICK j \in 1..n : x = order[j] /\ j # i
      BY <3>1, <1>6, <1>1
    <3>3. QED
      BY <3>2, <1>1 DEF Range, NoRepeats
  <2>2. ASSUME NEW x \in Range(order) \ {f}
        PROVE  x \in Range(r)
    <3>1. PICK j \in 1..n : x = order[j] /\ j # i
      BY <1>1 DEF Range
    <3>2. CASE j < i
      <4>1. j \in 1..(n - 1) /\ r[j] = x
        BY <3>1, <3>2, <1>6, <1>1
      <4>2. QED
        BY <4>1, <1>7 DEF Range
    <3>3. CASE j > i
      <4>1. j - 1 \in 1..(n - 1) /\ ~ (j - 1 <= i - 1) /\ (j - 1) + 1 = j
        BY <3>1, <3>3, <1>1
      <4>2. r[j - 1] = x
        BY <4>1, <3>1, <1>6
      <4>3. QED
        BY <4>1, <4>2, <1>7 DEF Range
    <3>4. QED
      BY <3>1, <3>2, <3>3, <1>1
  <2>3. QED
    BY <2>1, <2>2
<1>10. ASSUME NEW x, NEW y, InOrder(order, x, y), x # f, y # f PROVE InOrder(r, x, y)
  <2>1. PICK k, l \in 1..n : k < l /\ order[k] = x /\ order[l] = y
    BY <1>1, <1>10 DEF InOrder
  <2> DEFINE at(j) == IF j < i THEN j ELSE j - 1
  <2>2. k # i /\ l # i
    BY <1>1, <1>10, <2>1
  <2>3. at(k) \in 1..(n - 1) /\ at(l) \in 1..(n - 1) /\ at(k) < at(l)
    BY <1>1, <2>1, <2>2
  <2>4. r[at(k)] = order[k] /\ r[at(l)] = order[l]
    <3>1. ASSUME NEW j \in 1..n, j # i PROVE r[at(j)] = order[j]
      <4>1. CASE j < i
        <5>1. j \in 1..(n - 1) /\ j <= i - 1
          BY <1>1, <4>1
        <5>2. QED
          BY <1>6, <4>1, <5>1
      <4>2. CASE j > i
        <5>1. j - 1 \in 1..(n - 1) /\ ~ (j - 1 <= i - 1) /\ (j - 1) + 1 = j /\ ~ (j < i)
          BY <1>1, <4>2
        <5>2. r[j - 1] = order[(j - 1) + 1]
          BY <1>6, <5>1
        <5>3. QED
          BY <5>1, <5>2
      <4>3. QED
        BY <1>1, <3>1, <4>1, <4>2
    <3>2. QED
      BY <2>1, <2>2, <3>1
  <2>5. QED
    BY <1>7, <2>1, <2>3, <2>4 DEF InOrder
<1>11. QED
  BY <1>5, <1>8, <1>9, <1>10 DEF r

LEMMA AppendKeepsInOrder ==
    ASSUME NEW S, NEW s \in Seq(S), NEW z \in S, NEW x, NEW y, InOrder(s, x, y)
    PROVE  InOrder(Append(s, z), x, y)
<1>1. PICK k, l \in DOMAIN s : k < l /\ s[k] = x /\ s[l] = y
  BY DEF InOrder
<1>2. /\ k \in DOMAIN Append(s, z) /\ Append(s, z)[k] = s[k]
      /\ l \in DOMAIN Append(s, z) /\ Append(s, z)[l] = s[l]
  BY <1>1
<1>3. QED
  BY <1>1, <1>2 DEF InOrder

-----------------------------------------------------------------------------
(* A frame changes hands: what it held is unmapped and nothing else.        *)
LEMMA ReleaseFrameInv ==
    ASSUME NEW m, MemInv(m), NEW f \in Frames, m.frame[f] # None
    PROVE  /\ MemInv(ReleaseFrame(m, f))
           /\ ReleaseFrame(m, f).free # <<>>
           /\ Resident(ReleaseFrame(m, f)) = Resident(m) \ {m.frame[f]}
           /\ ReleaseFrame(m, f).frame = [m.frame EXCEPT ![f] = None]
           /\ \A x, y : InOrder(m.order, x, y) /\ x # f /\ y # f =>
                  InOrder(ReleaseFrame(m, f).order, x, y)
<1> DEFINE r == ReleaseFrame(m, f)
           held == m.frame[f]
<1>1. held \in Space /\ m.table[held] = f
  BY DEF MemInv, MemTypes, FramesMatchTables
<1>2. f \in Range(m.order) /\ f \notin Range(m.free)
  BY DEF MemInv, FramesAccountedFor
<1>3. /\ r.frame = [m.frame EXCEPT ![f] = None]
      /\ r.free = Append(m.free, f)
      /\ r.order = RemoveFrame(m.order, f)
      /\ r.table = [m.table EXCEPT ![held] = None]
      /\ r = [frame |-> r.frame, free |-> r.free, order |-> r.order, table |-> r.table]
  BY DEF ReleaseFrame
<1> HIDE DEF r
<1>4. /\ m.frame \in [Frames -> Space \cup {None}] /\ m.table \in [Space -> Frames \cup {None}]
      /\ m.free \in Seq(Frames) /\ m.order \in Seq(Frames)
      /\ NoRepeats(m.free) /\ NoRepeats(m.order)
      /\ Range(m.free) = {g \in Frames : m.frame[g] = None}
      /\ Range(m.order) = {g \in Frames : m.frame[g] # None}
      /\ \A page \in Space, g \in Frames : m.table[page] = g <=> m.frame[g] = page
  BY DEF MemInv, MemTypes, FramesMatchTables, FramesAccountedFor
<1>5. None \notin Frames /\ None \notin Space
  BY ConstantFacts
<1>6. /\ r.free \in Seq(Frames) /\ r.free # <<>> /\ NoRepeats(r.free)
      /\ Range(r.free) = Range(m.free) \cup {f}
  BY <1>2, <1>3, <1>4, AppendSeq, NoRepeatsIsOnce
<1>7. /\ r.order \in Seq(Frames) /\ NoRepeats(r.order)
      /\ Range(r.order) = Range(m.order) \ {f}
      /\ \A x, y : InOrder(m.order, x, y) /\ x # f /\ y # f => InOrder(r.order, x, y)
  BY <1>2, <1>3, <1>4, RemoveFrameSeq
<1>8. MemTypes(r)
  BY <1>3, <1>4, <1>6, <1>7 DEF MemTypes
<1>9. FramesMatchTables(r)
  <2> SUFFICES ASSUME NEW page \in Space, NEW g \in Frames
               PROVE  r.table[page] = g <=> r.frame[g] = page
    BY DEF FramesMatchTables
  <2>1. r.table[page] = IF page = held THEN None ELSE m.table[page]
    BY <1>3, <1>4
  <2>2. r.frame[g] = IF g = f THEN None ELSE m.frame[g]
    BY <1>3, <1>4
  <2>3. QED
    BY <2>1, <2>2, <1>1, <1>4, <1>5
<1>10. FramesAccountedFor(r)
  <2>1. \A g \in Frames : r.frame[g] = IF g = f THEN None ELSE m.frame[g]
    BY <1>3, <1>4
  <2>2. Range(r.free) = {g \in Frames : r.frame[g] = None}
    BY <2>1, <1>4, <1>6
  <2>3. Range(r.order) = {g \in Frames : r.frame[g] # None}
    BY <2>1, <1>4, <1>7
  <2>4. QED
    BY <2>2, <2>3, <1>6, <1>7 DEF FramesAccountedFor
<1>11. Resident(r) = Resident(m) \ {held}
  <2>1. \A page \in Space : r.table[page] = IF page = held THEN None ELSE m.table[page]
    BY <1>3, <1>4
  <2>2. QED
    BY <2>1 DEF Resident
<1>12. QED
  BY <1>3, <1>6, <1>7, <1>8, <1>9, <1>10, <1>11 DEF MemInv, r

LEMMA FillFrameInv ==
    ASSUME NEW m, MemInv(m), m.free # <<>>, NEW page \in Space, m.table[page] = None
    PROVE  /\ MemInv(FillFrame(m, page))
           /\ Resident(FillFrame(m, page)) = Resident(m) \cup {page}
           /\ FillFrame(m, page).frame = [m.frame EXCEPT ![Head(m.free)] = page]
           /\ FillFrame(m, page).free = Tail(m.free)
           /\ \A x, y : InOrder(m.order, x, y) => InOrder(FillFrame(m, page).order, x, y)
<1> DEFINE f == Head(m.free)
           r == FillFrame(m, page)
<1>1. /\ m.frame \in [Frames -> Space \cup {None}] /\ m.table \in [Space -> Frames \cup {None}]
      /\ m.free \in Seq(Frames) /\ m.order \in Seq(Frames)
      /\ NoRepeats(m.free) /\ NoRepeats(m.order)
      /\ Range(m.free) = {g \in Frames : m.frame[g] = None}
      /\ Range(m.order) = {g \in Frames : m.frame[g] # None}
      /\ \A q \in Space, g \in Frames : m.table[q] = g <=> m.frame[g] = q
  BY DEF MemInv, MemTypes, FramesMatchTables, FramesAccountedFor
<1>2. /\ f \in Frames /\ f \in Range(m.free) /\ Tail(m.free) \in Seq(Frames)
      /\ NoRepeats(Tail(m.free)) /\ Range(Tail(m.free)) = Range(m.free) \ {f}
  BY <1>1, TailSeq, NoRepeatsIsOnce
<1>3. /\ r.frame = [m.frame EXCEPT ![f] = page]
      /\ r.free = Tail(m.free)
      /\ r.order = Append(m.order, f)
      /\ r.table = [m.table EXCEPT ![page] = f]
      /\ r = [frame |-> r.frame, free |-> r.free, order |-> r.order, table |-> r.table]
  BY DEF FillFrame
<1> HIDE DEF f, r
<1>4. None \notin Frames /\ None \notin Space
  BY ConstantFacts
<1>5. m.frame[f] = None /\ f \notin Range(m.order)
  BY <1>1, <1>2
<1>6. /\ r.order \in Seq(Frames) /\ NoRepeats(r.order)
      /\ Range(r.order) = Range(m.order) \cup {f}
  BY <1>1, <1>2, <1>3, <1>5, AppendSeq, NoRepeatsIsOnce
<1>7. MemTypes(r)
  BY <1>1, <1>2, <1>3, <1>6 DEF MemTypes
<1>8. /\ \A q \in Space : r.table[q] = IF q = page THEN f ELSE m.table[q]
      /\ \A g \in Frames : r.frame[g] = IF g = f THEN page ELSE m.frame[g]
  BY <1>1, <1>3
<1>9. FramesMatchTables(r)
  <2> SUFFICES ASSUME NEW q \in Space, NEW g \in Frames
               PROVE  r.table[q] = g <=> r.frame[g] = q
    BY DEF FramesMatchTables
  <2>1. r.table[q] = IF q = page THEN f ELSE m.table[q]
    BY <1>8
  <2>2. r.frame[g] = IF g = f THEN page ELSE m.frame[g]
    BY <1>8
  <2>3. m.table[q] = g <=> m.frame[g] = q
    BY <1>1
  <2>4. (m.frame[g] = page => FALSE) /\ (m.table[q] = f => FALSE)
    BY <1>1, <1>2, <1>4, <1>5
  <2>5. QED
    BY <2>1, <2>2, <2>3, <2>4
<1>10. FramesAccountedFor(r)
  <2>1. Range(r.free) = {g \in Frames : r.frame[g] = None}
    BY <1>8, <1>1, <1>2, <1>3, <1>4
  <2>2. Range(r.order) = {g \in Frames : r.frame[g] # None}
    BY <1>8, <1>1, <1>2, <1>6, <1>4
  <2>3. NoRepeats(r.free)
    BY <1>2, <1>3
  <2>4. QED
    BY <2>1, <2>2, <2>3, <1>6 DEF FramesAccountedFor
<1>11. Resident(r) = Resident(m) \cup {page}
  BY <1>8, <1>2, <1>4 DEF Resident
<1>12. \A x, y : InOrder(m.order, x, y) => InOrder(r.order, x, y)
  BY <1>1, <1>2, <1>3, AppendKeepsInOrder
<1>13. QED
  BY <1>3, <1>7, <1>9, <1>10, <1>11, <1>12 DEF MemInv, r, f

(* From the memory m to the memory r replacement was first in, first out: a *)
(* frame in use that still holds its page is still loaded before those that *)
(* were loaded after it, and they hold theirs.                              *)
FirstOut(m, r) ==
    \A f, g \in Frames : InOrder(m.order, f, g) /\ r.frame[f] = m.frame[f] =>
        r.frame[g] = m.frame[g] /\ InOrder(r.order, f, g)

(* A load makes its page resident and gives up at most one page, the oldest *)
(* one, and none unless all frames are in use before and afterwards.        *)
LEMMA LoadInv ==
    ASSUME NEW m, MemInv(m), NumFrames # 0, NEW page \in Space, m.table[page] = None
    PROVE  /\ MemInv(Load(m, page))
           /\ Resident(Load(m, page)) \subseteq Resident(m) \cup {page}
           /\ Resident(Load(m, page)) = Resident(m) \cup {page} \/ Load(m, page).free = <<>>
           /\ m.free = <<>> => Load(m, page).free = <<>>
           /\ \A f \in Frames : Load(m, page).frame[f] \in {m.frame[f], page}
           /\ FirstOut(m, Load(m, page))
<1>1. /\ m.frame \in [Frames -> Space \cup {None}] /\ m.table \in [Space -> Frames \cup {None}]
      /\ m.free \in Seq(Frames) /\ m.order \in Seq(Frames)
      /\ NoRepeats(m.order) /\ Range(m.order) = {g \in Frames : m.frame[g] # None}
      /\ Range(m.free) = {g \in Frames : m.frame[g] = None}
      /\ None \notin Space /\ None \notin Frames
      /\ \A g \in Frames : m.frame[g] # page
  BY ConstantFacts DEF MemInv, MemTypes, FramesAccountedFor, FramesMatchTables
<1>2. \A f, g \in Frames : InOrder(m.order, f, g) => m.frame[f] # None /\ m.frame[g] # None
  BY <1>1 DEF InOrder, Range
<1>3. CASE m.free # <<>>
  <2> DEFINE h == Head(m.free)
             r == Load(m, page)
  <2>1. r = FillFrame(m, page)
    BY <1>3 DEF Load
  <2>2. h \in Frames /\ m.frame[h] = None
    BY <1>1, <1>3, TailSeq
  <2> HIDE DEF r
  <2>3. /\ MemInv(r) /\ Resident(r) = Resident(m) \cup {page}
        /\ r.frame = [m.frame EXCEPT ![h] = page]
        /\ \A x, y : InOrder(m.order, x, y) => InOrder(r.order, x, y)
    BY <1>3, <2>1, FillFrameInv
  <2> HIDE DEF h
  <2>4. \A f \in Frames : r.frame[f] = IF f = h THEN page ELSE m.frame[f]
    BY <1>1, <2>3
  <2>5. FirstOut(m, r)
    BY <1>2, <2>2, <2>3, <2>4 DEF FirstOut
  <2>6. QED
    BY <1>3, <2>3, <2>4, <2>5 DEF r
<1>4. CASE m.free = <<>>
  <2> DEFINE f == Head(m.order)
             e == ReleaseFrame(m, f)
             r == Load(m, page)
  <2>1. m.order # <<>>
    <3>1. 0 \in Frames
      BY ConstantFacts
    <3>2. Range(m.free) = {}
      BY <1>4 DEF Range
    <3>3. 0 \in Range(m.order)
      BY <1>1, <3>1, <3>2
    <3>4. QED
      BY <3>3 DEF Range
  <2>2. f \in Frames /\ f \in Range(m.order)
    BY <1>1, <2>1, TailSeq
  <2>3. m.frame[f] # None
    BY <1>1, <2>2
  <2>4. r = FillFrame(e, page) /\ e.free = Append(<<>>, f)
    BY <1>4 DEF Load, EvictOldest, ReleaseFrame
  <2>5. /\ MemInv(e) /\ e.free # <<>> /\ Resident(e) \subseteq Resident(m)
        /\ e.frame = [m.frame EXCEPT ![f] = None]
        /\ \A x, y : InOrder(m.order, x, y) /\ x # f /\ y # f => InOrder(e.order, x, y)
    <3>1. /\ MemInv(ReleaseFrame(m, f)) /\ ReleaseFrame(m, f).free # <<>>
          /\ Resident(ReleaseFrame(m, f)) = Resident(m) \ {m.frame[f]}
          /\ ReleaseFrame(m, f).frame = [m.frame EXCEPT ![f] = None]
          /\ \A x, y : InOrder(m.order, x, y) /\ x # f /\ y # f =>
                 InOrder(ReleaseFrame(m, f).order, x, y)
      BY <2>2, <2>3, ReleaseFrameInv
    <3> HIDE DEF f
    <3>2. QED
      BY <3>1 DEF e
  <2>6. \A g, k \in Frames : InOrder(m.order, g, k) => k # f
    <3>1. TAKE g, k \in Frames
    <3>2. HAVE InOrder(m.order, g, k)
    <3>3. PICK i, j \in DOMAIN m.order : i < j /\ m.order[i] = g /\ m.order[j] = k
      BY <3>2 DEF InOrder
    <3>4. 1 \in DOMAIN m.order /\ j # 1 /\ f = m.order[1]
      BY <1>1, <2>1, <3>3
    <3>5. QED
      BY <1>1, <3>3, <3>4 DEF NoRepeats
  <2> HIDE DEF e, f, r
  <2>7. e.table[page] = None
    BY <2>5 DEF Resident
  <2>8. Head(e.free) = f /\ Tail(e.free) = <<>>
    BY <2>4
  <2>9. /\ MemInv(r) /\ Resident(r) = Resident(e) \cup {page}
        /\ r.frame = [e.frame EXCEPT ![f] = page] /\ r.free = <<>>
        /\ \A x, y : InOrder(e.order, x, y) => InOrder(r.order, x, y)
    <3>1. /\ MemInv(FillFrame(e, page)) /\ Resident(FillFrame(e, page)) = Resident(e) \cup {page}
          /\ FillFrame(e, page).frame = [e.frame EXCEPT ![Head(e.free)] = page]
          /\ FillFrame(e, page).free = Tail(e.free)
          /\ \A x, y : InOrder(e.order, x, y) => InOrder(FillFrame(e, page).order, x, y)
      BY <2>5, <2>7, FillFrameInv
    <3>2. QED
      BY <2>4, <2>8, <3>1
  <2>10. \A g \in Frames : r.frame[g] = IF g = f THEN page ELSE m.frame[g]
    BY <1>1, <2>2, <2>5, <2>9
  <2>11. FirstOut(m, r)
    BY <1>1, <2>2, <2>5, <2>6, <2>9, <2>10 DEF FirstOut
  <2>12. QED
    BY <2>5, <2>9, <2>10, <2>11 DEF r
<1>5. QED
  BY <1>3, <1>4

-----------------------------------------------------------------------------
(* The loops are recursive functions on an interval.  That such a function  *)
(* exists, and what holds of all its values, follows by way of the least    *)
(* number for which it would fail.                                          *)

(* The loop of free over the frames.                                        *)
SweepRuns(g, m, p, n) == g = [k \in 0..n |-> IF k = 0 THEN m ELSE TakeBack(g[k - 1], p, k - 1)]

LEMMA SweepExists ==
    ASSUME NEW m, NEW p
    PROVE  \E g : SweepRuns(g, m, p, NumFrames)
<1> DEFINE Bad == {i \in Nat : ~ \E g : SweepRuns(g, m, p, i)}
<1> SUFFICES ASSUME Bad # {} PROVE FALSE
  BY ConstantFacts
<1>1. PICK i \in Bad : \A j \in Bad : i <= j
  <2>1. Bad \subseteq Nat
    OBVIOUS
  <2> HIDE DEF Bad
  <2>2. QED
    BY <2>1, LeastNat
<1>2. i # 0
  <2>1. SweepRuns([k \in 0..0 |-> m], m, p, 0)
    BY DEF SweepRuns
  <2>2. QED
    BY <2>1
<1>3. PICK g : SweepRuns(g, m, p, i - 1)
  <2>1. i - 1 \in Nat /\ i - 1 \notin Bad
    BY <1>1, <1>2
  <2>2. QED
    BY <2>1
<1>4. SweepRuns([k \in 0..i |-> IF k = i THEN TakeBack(g[i - 1], p, i - 1) ELSE g[k]], m, p, i)
  BY <1>2, <1>3 DEF SweepRuns
<1>5. QED
  BY <1>4

LEMMA SweepUnfold ==
    ASSUME NEW m, NEW p
    PROVE  \E g : SweepRuns(g, m, p, NumFrames) /\ FreeFrames(m, p) = g[NumFrames]
<1> DEFINE f[k \in 0..NumFrames] == IF k = 0 THEN m ELSE TakeBack(f[k - 1], p, k - 1)
<1>1. \E g : g = [k \in 0..NumFrames |-> IF k = 0 THEN m ELSE TakeBack(g[k - 1], p, k - 1)]
  <2>1. \E g : SweepRuns(g, m, p, NumFrames)
    BY SweepExists
  <2>2. QED
    BY <2>1 DEF SweepRuns
<1>2. f = [k \in 0..NumFrames |-> IF k = 0 THEN m ELSE TakeBack(f[k - 1], p, k - 1)]
  BY <1>1, Zenon
<1>3. SweepRuns(f, m, p, NumFrames)
  BY <1>2 DEF SweepRuns
<1>4. FreeFrames(m, p) = f[NumFrames]
  BY DEF FreeFrames
<1>5. QED
  BY <1>3, <1>4

(* The loop of free over the fault jobs.                                    *)
KeepRuns(g, js, p, n) == g = [k \in 0..n |-> IF k = 0 THEN <<>> ELSE Keep(g[k - 1], p, js[k])]

LEMMA KeepExists ==
    ASSUME NEW js, NEW p, Len(js) \in Nat
    PROVE  \E g : KeepRuns(g, js, p, Len(js))
<1> DEFINE Bad == {i \in Nat : ~ \E g : KeepRuns(g, js, p, i)}
<1> SUFFICES ASSUME Bad # {} PROVE FALSE
  BY ConstantFacts
<1>1. PICK i \in Bad : \A j \in Bad : i <= j
  <2>1. Bad \subseteq Nat
    OBVIOUS
  <2> HIDE DEF Bad
  <2>2. QED
    BY <2>1, LeastNat
<1>2. i # 0
  <2>1. KeepRuns([k \in 0..0 |-> <<>>], js, p, 0)
    BY DEF KeepRuns
  <2>2. QED
    BY <2>1
<1>3. PICK g : KeepRuns(g, js, p, i - 1)
  <2>1. i - 1 \in Nat /\ i - 1 \notin Bad
    BY <1>1, <1>2
  <2>2. QED
    BY <2>1
<1>4. KeepRuns([k \in 0..i |-> IF k = i THEN Keep(g[i - 1], p, js[i]) ELSE g[k]], js, p, i)
  BY <1>2, <1>3 DEF KeepRuns
<1>5. QED
  BY <1>4

LEMMA KeepUnfold ==
    ASSUME NEW js, NEW p, Len(js) \in Nat
    PROVE  \E g : KeepRuns(g, js, p, Len(js)) /\ DropJobs(js, p) = g[Len(js)]
<1> DEFINE f[k \in 0..Len(js)] == IF k = 0 THEN <<>> ELSE Keep(f[k - 1], p, js[k])
<1>1. \E g : g = [k \in 0..Len(js) |-> IF k = 0 THEN <<>> ELSE Keep(g[k - 1], p, js[k])]
  <2>1. \E g : KeepRuns(g, js, p, Len(js))
    BY KeepExists
  <2>2. QED
    BY <2>1 DEF KeepRuns
<1>2. f = [k \in 0..Len(js) |-> IF k = 0 THEN <<>> ELSE Keep(f[k - 1], p, js[k])]
  BY <1>1, Zenon
<1>3. KeepRuns(f, js, p, Len(js))
  BY <1>2 DEF KeepRuns
<1>4. DropJobs(js, p) = f[Len(js)]
  BY DEF DropJobs
<1>5. QED
  BY <1>3, <1>4

(* The loop of advance_fault_timers.                                        *)
TimerRuns(g, n) == g = [k \in 0..n |-> IF k = 0 THEN BeforeFaultTimers ELSE CountDown(g[k - 1], jobs[k])]

LEMMA TimerExists ==
    ASSUME Len(jobs) \in Nat
    PROVE  \E g : TimerRuns(g, Len(jobs))
<1> DEFINE Bad == {i \in Nat : ~ \E g : TimerRuns(g, i)}
<1> SUFFICES ASSUME Bad # {} PROVE FALSE
  BY ConstantFacts
<1>1. PICK i \in Bad : \A j \in Bad : i <= j
  <2>1. Bad \subseteq Nat
    OBVIOUS
  <2> HIDE DEF Bad
  <2>2. QED
    BY <2>1, LeastNat
<1>2. i # 0
  <2>1. TimerRuns([k \in 0..0 |-> BeforeFaultTimers], 0)
    BY DEF TimerRuns
  <2>2. QED
    BY <2>1
<1>3. PICK g : TimerRuns(g, i - 1)
  <2>1. i - 1 \in Nat /\ i - 1 \notin Bad
    BY <1>1, <1>2
  <2>2. QED
    BY <2>1
<1>4. TimerRuns([k \in 0..i |-> IF k = i THEN CountDown(g[i - 1], jobs[i]) ELSE g[k]], i)
  BY <1>2, <1>3 DEF TimerRuns
<1>5. QED
  BY <1>4

LEMMA TimerUnfold ==
    ASSUME Len(jobs) \in Nat
    PROVE  \E g : TimerRuns(g, Len(jobs)) /\ AfterFaultTimers = g[Len(jobs)]
<1> DEFINE f[k \in 0..Len(jobs)] == IF k = 0 THEN BeforeFaultTimers ELSE CountDown(f[k - 1], jobs[k])
<1>1. \E g : g = [k \in 0..Len(jobs) |-> IF k = 0 THEN BeforeFaultTimers ELSE CountDown(g[k - 1], jobs[k])]
  BY TimerExists DEF TimerRuns
<1>2. f = [k \in 0..Len(jobs) |-> IF k = 0 THEN BeforeFaultTimers ELSE CountDown(f[k - 1], jobs[k])]
  BY <1>1, Zenon
<1>3. TimerRuns(f, Len(jobs))
  BY <1>2 DEF TimerRuns
<1>4. AfterFaultTimers = f[Len(jobs)]
  BY DEF AfterFaultTimers
<1>5. QED
  BY <1>3, <1>4

-----------------------------------------------------------------------------
(* What the loops establish.                                                *)
LEMMA TakeBackInv ==
    ASSUME NEW m, MemInv(m), NEW p, NEW f \in Frames
    PROVE  /\ MemInv(TakeBack(m, p, f))
           /\ Resident(TakeBack(m, p, f)) \subseteq Resident(m)
           /\ \A h \in Frames : TakeBack(m, p, f).frame[h] \in {None, m.frame[h]}
           /\ TakeBack(m, p, f).frame[f] = None \/ Owner(TakeBack(m, p, f).frame[f]) # p
           /\ \A h \in Frames : m.frame[h] # None /\ Owner(m.frame[h]) # p =>
                  TakeBack(m, p, f).frame[h] = m.frame[h]
<1>1. CASE m.frame[f] # None /\ Owner(m.frame[f]) = p
  <2>1. TakeBack(m, p, f) = ReleaseFrame(m, f)
    BY <1>1 DEF TakeBack
  <2>2. /\ MemInv(ReleaseFrame(m, f))
        /\ Resident(ReleaseFrame(m, f)) = Resident(m) \ {m.frame[f]}
        /\ ReleaseFrame(m, f).frame = [m.frame EXCEPT ![f] = None]
    BY <1>1, ReleaseFrameInv
  <2>3. m.frame \in [Frames -> Space \cup {None}]
    BY DEF MemInv, MemTypes
  <2>4. QED
    BY <1>1, <2>1, <2>2, <2>3
<1>2. CASE ~ (m.frame[f] # None /\ Owner(m.frame[f]) = p)
  BY <1>2 DEF TakeBack
<1>3. QED
  BY <1>1, <1>2

LEMMA FreeFramesInv ==
    ASSUME NEW m, MemInv(m), NEW p
    PROVE  /\ MemInv(FreeFrames(m, p))
           /\ Resident(FreeFrames(m, p)) = {page \in Resident(m) : Owner(page) # p}
           /\ \A h \in Frames : FreeFrames(m, p).frame[h] =
                  IF m.frame[h] # None /\ Owner(m.frame[h]) # p THEN m.frame[h] ELSE None
<1>1. PICK g : SweepRuns(g, m, p, NumFrames) /\ FreeFrames(m, p) = g[NumFrames]
  BY SweepUnfold
<1>2. \A n \in 0..NumFrames : g[n] = IF n = 0 THEN m ELSE TakeBack(g[n - 1], p, n - 1)
  BY <1>1 DEF SweepRuns
<1>3. NumFrames \in Nat /\ Frames = {f \in Nat : f < NumFrames}
  BY ConstantFacts
<1> DEFINE Fine(n) == /\ MemInv(g[n]) /\ Resident(g[n]) \subseteq Resident(m)
                      /\ \A f \in Frames : f < n =>
                             g[n].frame[f] = None \/ Owner(g[n].frame[f]) # p
                      /\ \A f \in Frames :
                             /\ g[n].frame[f] \in {None, m.frame[f]}
                             /\ m.frame[f] # None /\ Owner(m.frame[f]) # p =>
                                    g[n].frame[f] = m.frame[f]
           Bad == {n \in 0..NumFrames : ~ Fine(n)}
<1>4. Fine(0)
  BY <1>2, <1>3
<1>5. ASSUME NEW n \in 0..NumFrames, n # 0, Fine(n - 1)
      PROVE  Fine(n)
  <2> DEFINE b == g[n - 1]
  <2>1. n - 1 \in Frames /\ g[n] = TakeBack(b, p, n - 1)
    BY <1>2, <1>3, <1>5
  <2>2. MemInv(b) /\ Resident(b) \subseteq Resident(m)
    BY <1>5
  <2>3. \A f \in Frames : f < n - 1 => b.frame[f] = None \/ Owner(b.frame[f]) # p
    BY <1>5
  <2>6. \A f \in Frames : /\ b.frame[f] \in {None, m.frame[f]}
                          /\ m.frame[f] # None /\ Owner(m.frame[f]) # p =>
                                 b.frame[f] = m.frame[f]
    BY <1>5
  <2> HIDE DEF b
  <2>4. /\ MemInv(TakeBack(b, p, n - 1))
        /\ Resident(TakeBack(b, p, n - 1)) \subseteq Resident(b)
        /\ \A h \in Frames : TakeBack(b, p, n - 1).frame[h] \in {None, b.frame[h]}
        /\ TakeBack(b, p, n - 1).frame[n - 1] = None
             \/ Owner(TakeBack(b, p, n - 1).frame[n - 1]) # p
        /\ \A h \in Frames : b.frame[h] # None /\ Owner(b.frame[h]) # p =>
               TakeBack(b, p, n - 1).frame[h] = b.frame[h]
    BY <2>1, <2>2, TakeBackInv
  <2>5. ASSUME NEW f \in Frames, f < n
        PROVE  g[n].frame[f] = None \/ Owner(g[n].frame[f]) # p
    <3>1. f < n - 1 \/ f = n - 1
      BY <2>5, <1>3
    <3>2. QED
      BY <3>1, <2>1, <2>3, <2>4
  <2>7. \A f \in Frames : /\ g[n].frame[f] \in {None, m.frame[f]}
                          /\ m.frame[f] # None /\ Owner(m.frame[f]) # p =>
                                 g[n].frame[f] = m.frame[f]
    <3> TAKE f \in Frames
    <3>1. g[n].frame[f] \in {None, b.frame[f]}
      BY <2>1, <2>4
    <3>2. b.frame[f] # None /\ Owner(b.frame[f]) # p => g[n].frame[f] = b.frame[f]
      BY <2>1, <2>4
    <3>3. QED
      BY <2>6, <3>1, <3>2
  <2>8. MemInv(g[n]) /\ Resident(g[n]) \subseteq Resident(m)
    BY <2>1, <2>2, <2>4
  <2>9. QED
    BY <2>5, <2>7, <2>8
<1>6. Bad = {}
  <2> SUFFICES ASSUME Bad # {} PROVE FALSE
    OBVIOUS
  <2>1. PICK n \in Bad : \A k \in Bad : n <= k
    <3>1. Bad \subseteq Nat
      BY <1>3
    <3> HIDE DEF Bad
    <3>2. QED
      BY <3>1, LeastNat
  <2> HIDE DEF Fine
  <2>2. n # 0 /\ n \in 0..NumFrames
    BY <1>4, <2>1
  <2>3. n - 1 \in 0..NumFrames /\ n - 1 \notin Bad
    BY <2>1, <2>2, <1>3
  <2>4. Fine(n)
    BY <2>2, <2>3, <1>5
  <2>5. QED
    BY <2>1, <2>4
<1> DEFINE r == FreeFrames(m, p)
<1>7. /\ MemInv(r) /\ Resident(r) \subseteq Resident(m)
      /\ \A f \in Frames : r.frame[f] = None \/ Owner(r.frame[f]) # p
      /\ \A f \in Frames : /\ r.frame[f] \in {None, m.frame[f]}
                           /\ m.frame[f] # None /\ Owner(m.frame[f]) # p =>
                                  r.frame[f] = m.frame[f]
  <2>1. Fine(NumFrames)
    BY <1>6, <1>3
  <2>2. QED
    BY <2>1, <1>1, <1>3
<1> HIDE DEF r
<1>8. ASSUME NEW page \in Resident(r) PROVE Owner(page) # p
  <2>1. r.table[page] \in Frames /\ r.frame[r.table[page]] = page
    BY <1>7 DEF MemInv, MemTypes, FramesMatchTables, Resident
  <2>2. page # None
    BY ConstantFacts DEF Resident
  <2>3. QED
    BY <2>1, <2>2, <1>7
<1>9. ASSUME NEW page \in Resident(m), Owner(page) # p PROVE page \in Resident(r)
  <2>1. m.table[page] \in Frames /\ m.frame[m.table[page]] = page /\ page \in Space
    BY DEF MemInv, MemTypes, FramesMatchTables, Resident
  <2>2. page # None
    BY <2>1, ConstantFacts
  <2>3. r.frame[m.table[page]] = page
    BY <1>7, <1>9, <2>1, <2>2
  <2>4. r.table[page] = m.table[page]
    BY <1>7, <2>1, <2>3 DEF MemInv, FramesMatchTables
  <2>5. QED
    BY <2>1, <2>4, ConstantFacts DEF Resident
<1>10. \A h \in Frames : r.frame[h] =
           IF m.frame[h] # None /\ Owner(m.frame[h]) # p THEN m.frame[h] ELSE None
  BY <1>7
<1>11. QED
  BY <1>7, <1>8, <1>9, <1>10 DEF r

(* The pages for which jobs are in flight, each at most once.               *)
PagesIn(js) == {js[i].page : i \in DOMAIN js}

OnePerPage(js) == \A i, j \in DOMAIN js : js[i].page = js[j].page => i = j

LEMMA AppendJob ==
    ASSUME NEW js \in Seq(Job), NEW job \in Job
    PROVE  /\ Append(js, job) \in Seq(Job)
           /\ PagesIn(Append(js, job)) = PagesIn(js) \cup {job.page}
           /\ OnePerPage(js) /\ job.page \notin PagesIn(js) => OnePerPage(Append(js, job))
<1> DEFINE t == Append(js, job)
<1>1. /\ t \in Seq(Job) /\ Len(js) \in Nat /\ DOMAIN js = 1..Len(js)
      /\ DOMAIN t = 1..(Len(js) + 1) /\ t[Len(js) + 1] = job
      /\ \A k \in 1..Len(js) : t[k] = js[k]
  OBVIOUS
<1> HIDE DEF t
<1>2. PagesIn(t) = PagesIn(js) \cup {job.page}
  <2>1. \A q \in PagesIn(t) : q \in PagesIn(js) \cup {job.page}
    BY <1>1 DEF PagesIn
  <2>2. \A q \in PagesIn(js) : q \in PagesIn(t)
    BY <1>1 DEF PagesIn
  <2>3. job.page \in PagesIn(t)
    <3>1. Len(js) + 1 \in DOMAIN t
      BY <1>1
    <3>2. QED
      BY <3>1, <1>1 DEF PagesIn
  <2>4. QED
    BY <2>1, <2>2, <2>3
<1>3. ASSUME OnePerPage(js), job.page \notin PagesIn(js)
      PROVE  OnePerPage(t)
  <2>1. \A k \in 1..Len(js) : t[k].page # job.page
    BY <1>1, <1>3 DEF PagesIn
  <2>2. QED
    BY <1>1, <1>3, <2>1 DEF OnePerPage
<1>4. QED
  BY <1>1, <1>2, <1>3 DEF t

LEMMA DropJobsInv ==
    ASSUME NEW js \in Seq(Job), OnePerPage(js), NEW p
    PROVE  /\ DropJobs(js, p) \in Seq(Job) /\ OnePerPage(DropJobs(js, p))
           /\ PagesIn(DropJobs(js, p)) = {page \in PagesIn(js) : Owner(page) # p}
<1>1. Len(js) \in Nat /\ DOMAIN js = 1..Len(js) /\ \A k \in 1..Len(js) : js[k] \in Job
  OBVIOUS
<1>2. PICK g : KeepRuns(g, js, p, Len(js)) /\ DropJobs(js, p) = g[Len(js)]
  BY <1>1, KeepUnfold
<1>3. \A n \in 0..Len(js) : g[n] = IF n = 0 THEN <<>> ELSE Keep(g[n - 1], p, js[n])
  BY <1>2 DEF KeepRuns
<1> DEFINE Seen(n) == {js[k].page : k \in 1..n}
           Fine(n) == /\ g[n] \in Seq(Job) /\ OnePerPage(g[n])
                      /\ PagesIn(g[n]) = {page \in Seen(n) : Owner(page) # p}
           Bad == {n \in 0..Len(js) : ~ Fine(n)}
<1>4. Fine(0)
  <2>1. g[0] = <<>> /\ <<>> \in Seq(Job) /\ DOMAIN <<>> = {}
    BY <1>1, <1>3
  <2>2. OnePerPage(g[0]) /\ PagesIn(g[0]) = {}
    BY <2>1 DEF OnePerPage, PagesIn
  <2>3. QED
    BY <2>1, <2>2
<1>5. ASSUME NEW n \in 0..Len(js), n # 0, Fine(n - 1)
      PROVE  Fine(n)
  <2> DEFINE b == g[n - 1]
  <2>1. n \in 1..Len(js) /\ js[n] \in Job /\ g[n] = Keep(b, p, js[n])
    BY <1>1, <1>3, <1>5
  <2>2. /\ b \in Seq(Job) /\ OnePerPage(b)
        /\ PagesIn(b) = {page \in Seen(n - 1) : Owner(page) # p}
    BY <1>5
  <2> HIDE DEF b
  <2>3. Seen(n) = Seen(n - 1) \cup {js[n].page}
    BY <2>1
  <2>4. js[n].page \notin Seen(n - 1)
    BY <2>1, <1>1 DEF OnePerPage
  <2>5. CASE Owner(js[n].page) = p
    BY <2>1, <2>2, <2>3, <2>5 DEF Keep
  <2>6. CASE Owner(js[n].page) # p
    <3>1. g[n] = Append(b, js[n])
      BY <2>1, <2>6 DEF Keep
    <3>2. js[n].page \notin PagesIn(b)
      BY <2>2, <2>4
    <3>3. /\ Append(b, js[n]) \in Seq(Job) /\ OnePerPage(Append(b, js[n]))
          /\ PagesIn(Append(b, js[n])) = PagesIn(b) \cup {js[n].page}
      BY <2>1, <2>2, <3>2, AppendJob
    <3>4. QED
      BY <3>1, <3>3, <2>2, <2>3, <2>6
  <2>7. QED
    BY <2>5, <2>6
<1>6. Bad = {}
  <2> SUFFICES ASSUME Bad # {} PROVE FALSE
    OBVIOUS
  <2>1. PICK n \in Bad : \A k \in Bad : n <= k
    <3>1. Bad \subseteq Nat
      BY <1>1
    <3> HIDE DEF Bad
    <3>2. QED
      BY <3>1, LeastNat
  <2> HIDE DEF Fine
  <2>2. n # 0 /\ n \in 0..Len(js)
    BY <1>4, <2>1
  <2>3. n - 1 \in 0..Len(js) /\ n - 1 \notin Bad
    BY <2>1, <2>2, <1>1
  <2>4. Fine(n)
    BY <2>2, <2>3, <1>5
  <2>5. QED
    BY <2>1, <2>4
<1>7. Fine(Len(js))
  <2> HIDE DEF Fine
  <2>1. Len(js) \in 0..Len(js)
    BY <1>1
  <2>2. QED
    BY <1>6, <2>1
<1>8. Seen(Len(js)) = PagesIn(js)
  BY <1>1 DEF PagesIn
<1>9. QED
  BY <1>2, <1>7, <1>8

(* The inductive invariant: no page is both resident and on its way, and    *)
(* both are of processes with a reservation.                                *)
PagingInv ==
    /\ MemInv(mem)
    /\ jobs \in Seq(Job) /\ OnePerPage(jobs)
    /\ Resident(mem) \cap PagesIn(jobs) = {}
    /\ reserved \in [Procs -> Nat \cup {None}]
    /\ \A page \in Resident(mem) \cup PagesIn(jobs) : reserved[Owner(page)] # None

(* The same of a tick in progress.                                          *)
Progress(s) ==
    /\ s = [mem |-> s.mem, left |-> s.left, st |-> s.st, rq |-> s.rq]
    /\ MemInv(s.mem) /\ s.left \in Seq(Job) /\ OnePerPage(s.left)
    /\ Resident(s.mem) \cap PagesIn(s.left) = {}

(* Counting a job down keeps it, and the memory; completing it loads its    *)
(* page, and keeps the other jobs.                                          *)
Loaded(m, r, page) ==
    /\ Resident(r) \subseteq Resident(m) \cup {page}
    /\ Resident(r) = Resident(m) \cup {page} \/ r.free = <<>>
    /\ m.free = <<>> => r.free = <<>>
    /\ \A f \in Frames : r.frame[f] \in {m.frame[f], page}
    /\ FirstOut(m, r)

LEMMA CountDownInv ==
    ASSUME NEW s, Progress(s), NEW job \in Job, job.page \notin Resident(s.mem) \cup PagesIn(s.left)
    PROVE  /\ Progress(CountDown(s, job))
           /\ IF job.ticks > 1
              THEN /\ CountDown(s, job).mem = s.mem
                   /\ PagesIn(CountDown(s, job).left) = PagesIn(s.left) \cup {job.page}
              ELSE /\ CountDown(s, job).left = s.left
                   /\ Loaded(s.mem, CountDown(s, job).mem, job.page)
<1> DEFINE r == CountDown(s, job)
<1>1. job.page \in Space /\ job.ticks \in 1..FaultTicks /\ FaultTicks \in Nat
  BY ConstantFacts DEF Job
<1>2. CASE job.ticks > 1
  <2> DEFINE less == [job EXCEPT !.ticks = @ - 1]
  <2>1. less \in Job /\ less.page = job.page
    BY <1>1, <1>2 DEF Job
  <2>2. r = [s EXCEPT !.left = Append(@, less)]
    BY <1>2 DEF CountDown
  <2> HIDE DEF less, r
  <2>3. r = [mem |-> s.mem, left |-> Append(s.left, less), st |-> s.st, rq |-> s.rq]
    BY <2>2 DEF Progress
  <2>4. /\ r.mem = s.mem /\ r.left = Append(s.left, less)
        /\ r = [mem |-> r.mem, left |-> r.left, st |-> r.st, rq |-> r.rq]
    BY <2>3
  <2>5. /\ r.left \in Seq(Job) /\ OnePerPage(r.left)
        /\ PagesIn(r.left) = PagesIn(s.left) \cup {job.page}
    BY <2>1, <2>4, AppendJob DEF Progress
  <2>6. Progress(r)
    BY <2>4, <2>5 DEF Progress
  <2>7. QED
    BY <1>2, <2>4, <2>5, <2>6 DEF r
<1>3. CASE ~ (job.ticks > 1)
  <2>1. r = CompleteLoad(s, job.page)
    BY <1>3 DEF CountDown
  <2> HIDE DEF r
  <2>2. CASE NumFrames = 0
    <3>1. r = s
      BY <2>1, <2>2 DEF CompleteLoad
    <3>2. s.mem.free = <<>>
      <4>1. Frames = {} /\ s.mem.free \in Seq(Frames)
        BY <2>2, ConstantFacts DEF Progress, MemInv, MemTypes
      <4>2. QED
        BY <4>1
    <3>3. Loaded(s.mem, s.mem, job.page)
      BY <3>2 DEF Loaded, FirstOut
    <3>4. QED
      BY <1>3, <3>1, <3>3 DEF r
  <2>3. CASE NumFrames # 0
    <3>1. /\ r.mem = Load(s.mem, job.page) /\ r.left = s.left
          /\ r = [mem |-> r.mem, left |-> r.left, st |-> r.st, rq |-> r.rq]
      BY <2>1, <2>3 DEF CompleteLoad, Progress
    <3>2. s.mem.table[job.page] = None
      BY <1>1 DEF Resident
    <3>3. MemInv(Load(s.mem, job.page)) /\ Loaded(s.mem, Load(s.mem, job.page), job.page)
      BY <1>1, <2>3, <3>2, LoadInv DEF Progress, Loaded
    <3>4. Resident(r.mem) \cap PagesIn(r.left) = {}
      BY <3>1, <3>3 DEF Progress, Loaded
    <3>5. Progress(r)
      BY <3>1, <3>3, <3>4 DEF Progress
    <3>6. QED
      BY <1>3, <3>1, <3>3, <3>5 DEF r
  <2>4. QED
    BY <2>2, <2>3
<1>4. QED
  BY <1>2, <1>3

(* The jobs a tick completes, and what it has done of them after n jobs.    *)
Due(n) == {jobs[k].page : k \in {i \in 1..n : ~ (jobs[i].ticks > 1)}}

TimersDone(s, n) ==
    /\ Progress(s)
    /\ PagesIn(s.left) = {jobs[k].page : k \in 1..n} \ Due(n)
    /\ Resident(s.mem) \subseteq Resident(mem) \cup Due(n)
    /\ Resident(s.mem) = Resident(mem) \cup Due(n) \/ s.mem.free = <<>>
    /\ FirstOut(mem, s.mem)

LEMMA FaultTimersDone ==
    ASSUME PagingInv
    PROVE  TimersDone(AfterFaultTimers, Len(jobs))
<1>1. /\ jobs \in Seq(Job) /\ OnePerPage(jobs) /\ Len(jobs) \in Nat /\ DOMAIN jobs = 1..Len(jobs)
      /\ \A k \in 1..Len(jobs) : jobs[k] \in Job
  BY DEF PagingInv
<1>2. PICK g : TimerRuns(g, Len(jobs)) /\ AfterFaultTimers = g[Len(jobs)]
  BY <1>1, TimerUnfold
<1>3. \A n \in 0..Len(jobs) :
          g[n] = IF n = 0 THEN BeforeFaultTimers ELSE CountDown(g[n - 1], jobs[n])
  BY <1>2 DEF TimerRuns
<1> DEFINE P == {n \in 0..Len(jobs) : TimersDone(g[n], n)}
<1>4. 0 \in P
  <2>1. g[0] = [mem |-> mem, left |-> <<>>, st |-> state, rq |-> ready]
    BY <1>1, <1>3 DEF BeforeFaultTimers
  <2>2. <<>> \in Seq(Job) /\ DOMAIN <<>> = {}
    OBVIOUS
  <2>3. OnePerPage(<<>>) /\ PagesIn(<<>>) = {} /\ Due(0) = {}
    BY <2>2 DEF OnePerPage, PagesIn, Due
  <2>4. FirstOut(mem, mem)
    BY DEF FirstOut
  <2>5. Progress(g[0])
    BY <2>1, <2>2, <2>3 DEF Progress, PagingInv
  <2>6. QED
    BY <1>1, <2>1, <2>3, <2>4, <2>5 DEF TimersDone
<1>5. ASSUME NEW n \in 1..Len(jobs), n - 1 \in P
      PROVE  n \in P
  <2> DEFINE b == g[n - 1]
             job == jobs[n]
             r == g[n]
             Seen(k) == {jobs[i].page : i \in 1..k}
  <2>1. job \in Job /\ r = CountDown(b, job)
    BY <1>1, <1>3
  <2>2. TimersDone(b, n - 1)
    BY <1>5
  <2> HIDE DEF b, r
  <2>3. Seen(n) = Seen(n - 1) \cup {job.page} /\ job.page \notin Seen(n - 1)
    BY <1>1 DEF OnePerPage
  <2>4. Due(n - 1) \subseteq Seen(n - 1)
    BY DEF Due
  <2>5. Due(n) = IF job.ticks > 1 THEN Due(n - 1) ELSE Due(n - 1) \cup {job.page}
    BY <1>1 DEF Due
  <2>6. job.page \notin Resident(mem)
    BY <1>1 DEF PagesIn, PagingInv
  <2> HIDE DEF job, Seen
  <2>7. /\ Progress(b) /\ PagesIn(b.left) = Seen(n - 1) \ Due(n - 1)
        /\ Resident(b.mem) \subseteq Resident(mem) \cup Due(n - 1)
        /\ Resident(b.mem) = Resident(mem) \cup Due(n - 1) \/ b.mem.free = <<>>
        /\ FirstOut(mem, b.mem)
    BY <2>2 DEF TimersDone, Seen
  <2>8. job.page \notin Resident(b.mem) \cup PagesIn(b.left)
    BY <2>3, <2>4, <2>6, <2>7
  <2>9. /\ Progress(r)
        /\ IF job.ticks > 1
           THEN r.mem = b.mem /\ PagesIn(r.left) = PagesIn(b.left) \cup {job.page}
           ELSE r.left = b.left /\ Loaded(b.mem, r.mem, job.page)
    BY <2>1, <2>7, <2>8, CountDownInv
  <2>10. PagesIn(r.left) = Seen(n) \ Due(n)
    BY <2>3, <2>4, <2>5, <2>7, <2>9
  <2>11. CASE job.ticks > 1
    BY <1>1, <2>5, <2>7, <2>9, <2>10, <2>11 DEF TimersDone, Seen, r
  <2>12. CASE ~ (job.ticks > 1)
    <3>1. Loaded(b.mem, r.mem, job.page) /\ Due(n) = Due(n - 1) \cup {job.page}
      BY <2>5, <2>9, <2>12
    <3>2. /\ Resident(r.mem) \subseteq Resident(mem) \cup Due(n)
          /\ Resident(r.mem) = Resident(mem) \cup Due(n) \/ r.mem.free = <<>>
      BY <2>7, <3>1 DEF Loaded
    <3>3. \A f, h \in Frames : InOrder(mem.order, f, h) => mem.frame[f] # job.page
      <4>1. \A f \in Frames : mem.frame[f] # job.page
        <5>1. job.page \in Space /\ mem.table[job.page] = None
          BY <2>1, <2>6 DEF Job, Resident
        <5>2. QED
          BY <5>1, ConstantFacts DEF PagingInv, MemInv, FramesMatchTables
      <4>2. QED
        BY <4>1
    <3>4. FirstOut(mem, r.mem)
      <4> SUFFICES ASSUME NEW f \in Frames, NEW h \in Frames, InOrder(mem.order, f, h),
                          r.mem.frame[f] = mem.frame[f]
                   PROVE  r.mem.frame[h] = mem.frame[h] /\ InOrder(r.mem.order, f, h)
        BY DEF FirstOut
      <4>1. r.mem.frame[f] = b.mem.frame[f] /\ b.mem.frame[f] = mem.frame[f]
        BY <3>1, <3>3 DEF Loaded
      <4>2. b.mem.frame[h] = mem.frame[h] /\ InOrder(b.mem.order, f, h)
        BY <2>7, <4>1 DEF FirstOut
      <4>3. QED
        BY <3>1, <4>1, <4>2 DEF Loaded, FirstOut
    <3>5. QED
      BY <1>1, <2>9, <2>10, <3>2, <3>4 DEF TimersDone, Seen, r
  <2>13. QED
    BY <2>11, <2>12
<1>6. 0..Len(jobs) \subseteq P
  <2> HIDE DEF P
  <2>1. QED
    BY <1>1, <1>4, <1>5, UpTo
<1>7. QED
  BY <1>1, <1>2, <1>6

LEMMA FaultTimersInv ==
    ASSUME PagingInv
    PROVE  /\ Progress(AfterFaultTimers)
           /\ Resident(AfterFaultTimers.mem) \cup PagesIn(AfterFaultTimers.left)
                \subseteq Resident(mem) \cup PagesIn(jobs)
<1>1. jobs \in Seq(Job)
  BY DEF PagingInv
<1>2. {jobs[k].page : k \in 1..Len(jobs)} = PagesIn(jobs) /\ Due(Len(jobs)) \subseteq PagesIn(jobs)
  BY <1>1 DEF PagesIn, Due
<1>3. QED
  BY <1>2, FaultTimersDone DEF TimersDone

-----------------------------------------------------------------------------
(* The faults of a tick.                                                    *)
LEMMA EmptySpace ==
    ASSUME NEW p \in Procs, reserved[p] = None
    PROVE  LogicalPages(p) = {}
<1>1. PageSize \in Nat /\ PageSize > 0
  BY PagingAssumption
<1>2. (0 + (PageSize - 1)) \div PageSize = 0
  BY <1>1
<1>3. PageCount(Bytes(p)) = 0
  BY <1>2 DEF PageCount, Bytes
<1>4. QED
  BY <1>3 DEF LogicalPages

LEMMA PicksAreDistinct ==
    ASSUME NEW S \in SUBSET Procs, NEW rq, NEW eff, NEW picks \in PickOrders(S, rq, eff)
    PROVE  /\ Cardinality(S) \in Nat /\ picks \in [1..Cardinality(S) -> S]
           /\ NoRepeats(picks)
<1>1. IsFiniteSet(S)
  BY KernelAssumption, FS_Subset
<1>2. Cardinality(S) \in Nat
  BY <1>1, FS_CardinalityType
<1>3. picks \in [1..Cardinality(S) -> S] /\ Range(picks) = S
  BY DEF PickOrders
<1>4. picks \in Surjection(1..Cardinality(S), S)
  BY <1>3 DEF Surjection, Range
<1>5. IsFiniteSet(1..Cardinality(S)) /\ Cardinality(1..Cardinality(S)) = Cardinality(S)
  BY <1>2, FS_Interval
<1>6. picks \in Injection(1..Cardinality(S), S)
  BY <1>4, <1>5, FS_SurjSameCardinalityImpliesInj
<1>7. QED
  BY <1>2, <1>3, <1>6 DEF Injection, IsInjective, NoRepeats

LEMMA NewJobsInv ==
    ASSUME NEW s, Progress(s), NEW touch \in Touches, NEW rq, NEW eff,
           NEW faulted \in SUBSET FaultsIfPicked(s.mem, touch),
           NEW picks \in PickOrders(NewFaults(s.left, touch, faulted), rq, eff)
    PROVE  LET js == s.left \o JobsFor(picks, touch)
           IN  /\ js \in Seq(Job) /\ OnePerPage(js)
               /\ Resident(s.mem) \cap PagesIn(js) = {}
               /\ \A page \in PagesIn(js) : page \in PagesIn(s.left) \/ reserved[Owner(page)] # None
               /\ PagesIn(js) = PagesIn(s.left) \cup {<<p, touch[p]>> : p \in faulted}
<1> DEFINE new == JobsFor(picks, touch)
           js == s.left \o new
           S == NewFaults(s.left, touch, faulted)
           n == Cardinality(S)
<1>1. S \subseteq faulted /\ faulted \subseteq Procs
  BY DEF NewFaults, FaultsIfPicked
<1>2. /\ n \in Nat /\ picks \in [1..n -> S] /\ NoRepeats(picks) /\ DOMAIN picks = 1..n
      /\ \A p \in S : \E i \in 1..n : picks[i] = p
  <2>1. n \in Nat /\ picks \in [1..n -> S] /\ NoRepeats(picks)
    BY <1>1, PicksAreDistinct
  <2>2. Range(picks) = S
    BY DEF PickOrders
  <2>3. QED
    BY <2>1, <2>2 DEF Range
<1>3. touch \in [Procs -> Pages]
  BY DEF Touches
<1>4. \A p \in S : /\ <<p, touch[p]>> \in Space /\ s.mem.table[<<p, touch[p]>>] = None
                    /\ <<p, touch[p]>> \notin PagesIn(s.left)
                    /\ reserved[p] # None
  <2> TAKE p \in S
  <2>1. p \in FaultsIfPicked(s.mem, touch) /\ p \in Procs
    BY <1>1
  <2>2. s.mem.table[<<p, touch[p]>>] = None /\ LogicalPages(p) # {}
    BY <2>1 DEF FaultsIfPicked
  <2>3. <<p, touch[p]>> \in Space
    BY <2>1, <1>3 DEF Space
  <2>4. <<p, touch[p]>> \notin PagesIn(s.left)
    BY DEF NewFaults, IsFaulting, PagesIn
  <2>5. reserved[p] # None
    BY <2>1, <2>2, EmptySpace
  <2>6. QED
    BY <2>2, <2>3, <2>4, <2>5
<1> HIDE DEF n, S
<1>5. /\ new = [i \in 1..n |-> [page |-> <<picks[i], touch[picks[i]]>>, ticks |-> FaultTicks]]
      /\ \A i \in 1..n : /\ picks[i] \in S
                         /\ new[i] = [page |-> <<picks[i], touch[picks[i]]>>, ticks |-> FaultTicks]
                         /\ new[i].page = <<picks[i], touch[picks[i]]>>
  BY <1>2 DEF JobsFor
<1>6. \A i \in 1..n : new[i] \in Job
  BY <1>4, <1>5, ConstantFacts DEF Job
<1>7. new \in Seq(Job) /\ Len(new) = n
  BY <1>2, <1>5, <1>6
<1>8. \A i, j \in 1..n : new[i].page = new[j].page => i = j
  <2> SUFFICES ASSUME NEW i \in 1..n, NEW j \in 1..n, new[i].page = new[j].page
               PROVE  i = j
    OBVIOUS
  <2>1. picks[i] = picks[j]
    BY <1>5
  <2>2. QED
    BY <2>1, <1>2 DEF NoRepeats
<1>9. \A i \in 1..n : /\ new[i].page \notin Resident(s.mem) \cup PagesIn(s.left)
                       /\ reserved[Owner(new[i].page)] # None
  BY <1>4, <1>5 DEF Resident, Owner
<1> HIDE DEF new
<1> DEFINE m == Len(s.left)
<1>10. /\ s.left \in Seq(Job) /\ OnePerPage(s.left) /\ m \in Nat /\ DOMAIN s.left = 1..m
       /\ Resident(s.mem) \cap PagesIn(s.left) = {}
  BY DEF Progress
<1>11. /\ js \in Seq(Job) /\ Len(js) = m + n
       /\ \A i \in 1..(m + n) : js[i] = IF i <= m THEN s.left[i] ELSE new[i - m]
  <2> HIDE DEF js
  <2>1. /\ s.left \o new \in Seq(Job) /\ Len(s.left \o new) = Len(s.left) + Len(new)
        /\ \A i \in 1..(Len(s.left) + Len(new)) :
               (s.left \o new)[i] = IF i <= Len(s.left) THEN s.left[i] ELSE new[i - Len(s.left)]
    BY <1>7, <1>10, ConcatProperties
  <2>2. QED
    BY <2>1, <1>7 DEF js
<1> HIDE DEF js, m
<1>12. DOMAIN js = 1..(m + n)
  BY <1>11
<1>13. \A i \in 1..(m + n) :
           \/ i \in 1..m /\ js[i] = s.left[i] /\ js[i].page \in PagesIn(s.left)
           \/ i > m /\ (i - m) \in 1..n /\ js[i] = new[i - m] /\ js[i].page \notin PagesIn(s.left)
  <2> TAKE i \in 1..(m + n)
  <2>1. CASE i <= m
    <3>1. i \in 1..m
      BY <2>1, <1>10
    <3>2. js[i] = s.left[i]
      BY <2>1, <1>11
    <3>3. js[i].page \in PagesIn(s.left)
      BY <3>1, <3>2, <1>10 DEF PagesIn
    <3>4. QED
      BY <3>1, <3>2, <3>3
  <2>2. CASE ~ (i <= m)
    <3>1. i > m /\ (i - m) \in 1..n
      BY <2>2, <1>2, <1>10
    <3>2. js[i] = new[i - m]
      BY <2>2, <1>11
    <3>3. new[i - m].page \notin PagesIn(s.left)
      BY <3>1, <1>9
    <3>4. QED
      BY <3>1, <3>2, <3>3
  <2>3. QED
    BY <2>1, <2>2
<1>14. OnePerPage(js)
  <2> SUFFICES ASSUME NEW i \in 1..(m + n), NEW j \in 1..(m + n), js[i].page = js[j].page
               PROVE  i = j
    BY <1>12 DEF OnePerPage
  <2>1. CASE js[i].page \in PagesIn(s.left)
    BY <2>1, <1>10, <1>13 DEF OnePerPage
  <2>2. CASE js[i].page \notin PagesIn(s.left)
    <3>1. (i - m) \in 1..n /\ (j - m) \in 1..n /\ new[i - m].page = new[j - m].page
      BY <2>2, <1>13
    <3>2. i - m = j - m
      BY <3>1, <1>8
    <3>3. QED
      BY <3>2, <1>2, <1>10
  <2>3. QED
    BY <2>1, <2>2
<1>15. ASSUME NEW page \in PagesIn(js)
       PROVE  /\ page \notin Resident(s.mem)
              /\ page \in PagesIn(s.left) \/ reserved[Owner(page)] # None
  <2>1. PICK i \in 1..(m + n) : page = js[i].page
    BY <1>12 DEF PagesIn
  <2>2. QED
    BY <2>1, <1>13, <1>9, <1>10
<1>16. PagesIn(js) = PagesIn(s.left) \cup {<<p, touch[p]>> : p \in faulted}
  <2>1. PagesIn(s.left) \subseteq PagesIn(js)
    <3>1. \A i \in 1..m : i \in 1..(m + n) /\ js[i] = s.left[i]
      BY <1>2, <1>10, <1>11
    <3>2. QED
      BY <1>10, <1>12, <3>1 DEF PagesIn
  <2>2. ASSUME NEW p \in faulted PROVE <<p, touch[p]>> \in PagesIn(js)
    <3>1. CASE p \in S
      <4>1. PICK i \in 1..n : picks[i] = p
        BY <1>2, <3>1
      <4>2. (m + i) \in 1..(m + n) /\ js[m + i] = new[i]
        BY <1>2, <1>10, <1>11
      <4>3. QED
        BY <1>5, <1>12, <4>1, <4>2 DEF PagesIn
    <3>2. CASE p \notin S
      BY <2>1, <3>2 DEF S, NewFaults, IsFaulting, PagesIn
    <3>3. QED
      BY <3>1, <3>2
  <2>3. ASSUME NEW page \in PagesIn(js), page \notin PagesIn(s.left)
        PROVE  \E p \in faulted : page = <<p, touch[p]>>
    <3>1. PICK i \in 1..(m + n) : page = js[i].page
      BY <1>12 DEF PagesIn
    <3>2. (i - m) \in 1..n /\ js[i] = new[i - m]
      BY <2>3, <3>1, <1>13
    <3>3. QED
      BY <1>1, <1>5, <3>1, <3>2
  <2>4. QED
    BY <2>1, <2>2, <2>3
<1>17. QED
  BY <1>11, <1>14, <1>15, <1>16 DEF js, new

-----------------------------------------------------------------------------
(* The steps.                                                               *)
LEMMA FreeMemoryInv ==
    ASSUME NEW p \in Procs, NEW m, NEW js, FreeMemory(p, m, js),
           MemInv(m), js \in Seq(Job), OnePerPage(js), Resident(m) \cap PagesIn(js) = {},
           reserved \in [Procs -> Nat \cup {None}],
           \A page \in Resident(m) \cup PagesIn(js) : reserved[Owner(page)] # None
    PROVE  PagingInv'
<1>1. /\ mem' = FreeFrames(m, p) /\ jobs' = DropJobs(js, p)
      /\ reserved' = [reserved EXCEPT ![p] = None]
  BY DEF FreeMemory
<1>2. /\ MemInv(mem')
      /\ Resident(mem') \subseteq {page \in Resident(m) : Owner(page) # p}
  BY <1>1, FreeFramesInv
<1>3. /\ jobs' \in Seq(Job) /\ OnePerPage(jobs')
      /\ PagesIn(jobs') \subseteq {page \in PagesIn(js) : Owner(page) # p}
  BY <1>1, DropJobsInv
<1>4. reserved' \in [Procs -> Nat \cup {None}]
  BY <1>1
<1>5. ASSUME NEW page \in Resident(mem') \cup PagesIn(jobs')
      PROVE  reserved'[Owner(page)] # None
  BY <1>1, <1>2, <1>3
<1>6. QED
  BY <1>2, <1>3, <1>4, <1>5 DEF PagingInv

LEMMA AllocateInv ==
    ASSUME PagingInv, NEW p \in Procs, NEW amount \in Amounts[p], Allocate(p, amount)
    PROVE  PagingInv'
<1>1. amount \in Nat /\ amount # None
  BY PagingAssumption
<1>2. mem' = mem /\ jobs' = jobs /\ reserved' = [reserved EXCEPT ![p] = amount]
  BY DEF Allocate
<1>3. QED
  BY <1>1, <1>2 DEF PagingInv

(* A dispatch from s adds the jobs of the new faults, and frees the memory  *)
(* of the process that completes, if one does.                              *)
NewlyFaulted(s, touch) ==
    {p \in FaultsIfPicked(s.mem, touch) : s.st[p] # "BLOCKED" /\ state'[p] = "BLOCKED"}

LEMMA DispatchSteps ==
    ASSUME NEW s, Progress(s), NEW touch \in Touches, NEW eff, DispatchPaged(s, touch, eff),
           \A page \in Resident(s.mem) \cup PagesIn(s.left) : reserved[Owner(page)] # None
    PROVE  \E js \in Seq(Job) :
               /\ OnePerPage(js) /\ Resident(s.mem) \cap PagesIn(js) = {}
               /\ PagesIn(js) = PagesIn(s.left) \cup {<<p, touch[p]>> : p \in NewlyFaulted(s, touch)}
               /\ \A page \in Resident(s.mem) \cup PagesIn(js) : reserved[Owner(page)] # None
               /\ \/ mem' = s.mem /\ jobs' = js /\ UNCHANGED <<reserved, used>>
                  \/ \E p \in Completed(s.st) : FreeMemory(p, s.mem, js)
<1> DEFINE faulted == NewlyFaulted(s, touch)
<1>1. PICK picks \in PickOrders(NewFaults(s.left, touch, faulted), s.rq, eff) :
          \/ /\ mem' = s.mem /\ jobs' = s.left \o JobsFor(picks, touch)
             /\ UNCHANGED <<reserved, used>>
          \/ \E p \in Completed(s.st) : FreeMemory(p, s.mem, s.left \o JobsFor(picks, touch))
  BY DEF DispatchPaged, NewlyFaulted
<1>2. faulted \in SUBSET FaultsIfPicked(s.mem, touch)
  BY DEF NewlyFaulted
<1> HIDE DEF faulted
<1> DEFINE js == s.left \o JobsFor(picks, touch)
<1>3. /\ js \in Seq(Job) /\ OnePerPage(js) /\ Resident(s.mem) \cap PagesIn(js) = {}
      /\ \A page \in PagesIn(js) : page \in PagesIn(s.left) \/ reserved[Owner(page)] # None
      /\ PagesIn(js) = PagesIn(s.left) \cup {<<p, touch[p]>> : p \in faulted}
  BY <1>1, <1>2, NewJobsInv
<1>4. \/ mem' = s.mem /\ jobs' = js /\ UNCHANGED <<reserved, used>>
      \/ \E p \in Completed(s.st) : FreeMemory(p, s.mem, js)
  BY <1>1
<1> HIDE DEF js
<1>5. \A page \in Resident(s.mem) \cup PagesIn(js) : reserved[Owner(page)] # None
  BY <1>3
<1>6. QED
  BY <1>3, <1>4, <1>5 DEF faulted

LEMMA DispatchPagedInv ==
    ASSUME NEW s, Progress(s), NEW touch \in Touches, NEW eff, DispatchPaged(s, touch, eff),
           \A page \in Resident(s.mem) \cup PagesIn(s.left) : reserved[Owner(page)] # None,
           reserved \in [Procs -> Nat \cup {None}]
    PROVE  PagingInv'
<1>1. PICK js \in Seq(Job) :
          /\ OnePerPage(js) /\ Resident(s.mem) \cap PagesIn(js) = {}
          /\ \A page \in Resident(s.mem) \cup PagesIn(js) : reserved[Owner(page)] # None
          /\ \/ mem' = s.mem /\ jobs' = js /\ UNCHANGED <<reserved, used>>
             \/ \E p \in Procs : FreeMemory(p, s.mem, js)
  BY DispatchSteps DEF Completed
<1>2. MemInv(s.mem)
  BY DEF Progress
<1>3. CASE mem' = s.mem /\ jobs' = js /\ UNCHANGED <<reserved, used>>
  BY <1>1, <1>2, <1>3 DEF PagingInv
<1>4. ASSUME NEW p \in Procs, FreeMemory(p, s.mem, js) PROVE PagingInv'
  BY <1>1, <1>2, <1>4, FreeMemoryInv
<1>5. QED
  BY <1>1, <1>3, <1>4

(* A tick counts the jobs down and dispatches from there.                   *)
LEMMA TickSteps ==
    ASSUME PagingInv, PagingTick
    PROVE  \E js \in Seq(Job) : LET s == AfterFaultTimers IN
               /\ OnePerPage(js) /\ Resident(s.mem) \cap PagesIn(js) = {}
               /\ PagesIn(s.left) \subseteq PagesIn(js)
               /\ \A page \in Resident(s.mem) \cup PagesIn(js) : reserved[Owner(page)] # None
               /\ \/ mem' = s.mem /\ jobs' = js /\ UNCHANGED <<reserved, used>>
                  \/ \E p \in Procs : FreeMemory(p, s.mem, js)
<1> DEFINE s == AfterFaultTimers
<1>1. /\ Progress(s)
      /\ Resident(s.mem) \cup PagesIn(s.left) \subseteq Resident(mem) \cup PagesIn(jobs)
  BY FaultTimersInv
<1>2. PICK touch \in Touches, eff \in [Procs -> Weights] : DispatchPaged(s, touch, eff)
  BY DEF PagingTick
<1>3. \A page \in Resident(s.mem) \cup PagesIn(s.left) : reserved[Owner(page)] # None
  BY <1>1 DEF PagingInv
<1> HIDE DEF s
<1>4. QED
  BY <1>1, <1>2, <1>3, DispatchSteps DEF s, Completed

LEMMA TickInv ==
    ASSUME PagingInv, PagingTick
    PROVE  PagingInv'
<1> DEFINE s == AfterFaultTimers
<1>1. /\ Progress(s)
      /\ Resident(s.mem) \cup PagesIn(s.left) \subseteq Resident(mem) \cup PagesIn(jobs)
  BY FaultTimersInv
<1>2. PICK touch \in Touches, eff \in [Procs -> Weights] : DispatchPaged(s, touch, eff)
  BY DEF PagingTick
<1>3. /\ \A page \in Resident(s.mem) \cup PagesIn(s.left) : reserved[Owner(page)] # None
      /\ reserved \in [Procs -> Nat \cup {None}]
  BY <1>1 DEF PagingInv
<1> HIDE DEF s
<1>4. QED
  BY <1>1, <1>2, <1>3, DispatchPagedInv

LEMMA MemoryUntouched ==
    ASSUME PagingInv, UNCHANGED memoryVars
    PROVE  PagingInv'
BY DEF memoryVars, PagingInv, Resident

LEMMA StepKeepsPagingInv ==
    ASSUME PagingInv, [PagingNext]_pagingVars
    PROVE  PagingInv'
<1>1. CASE UNCHANGED memoryVars
  BY <1>1, MemoryUntouched
<1>2. ASSUME NEW p \in Procs, NEW amount \in Amounts[p], Allocate(p, amount) PROVE PagingInv'
  BY <1>2, AllocateInv
<1>3. ASSUME NEW p \in Procs, ScriptFrees(p) PROVE PagingInv'
  <2>1. FreeMemory(p, mem, jobs)
    BY <1>3 DEF ScriptFrees
  <2>2. QED
    BY <2>1, FreeMemoryInv DEF PagingInv
<1>4. CASE PagingTick
  BY <1>4, TickInv
<1>5. QED
  BY <1>1, <1>2, <1>3, <1>4 DEF PagingNext, pagingVars

LEMMA InitPagingInv ==
    ASSUME PagingInit
    PROVE  PagingInv
<1> DEFINE frees == [i \in 1..NumFrames |-> i - 1]
<1>1. NumFrames \in Nat
  BY ConstantFacts
<1>2. frees \in Seq(Frames) /\ DOMAIN frees = 1..NumFrames /\ \A i \in 1..NumFrames : frees[i] = i - 1
  BY <1>1 DEF Frames
<1>3. NoRepeats(frees)
  BY <1>1, <1>2 DEF NoRepeats
<1>4. Range(frees) = Frames
  <2>1. \A f \in Range(frees) : f \in Frames
    BY <1>1, <1>2 DEF Range, Frames
  <2>2. ASSUME NEW f \in Frames PROVE f \in Range(frees)
    <3>1. f + 1 \in 1..NumFrames /\ (f + 1) - 1 = f
      BY <1>1 DEF Frames
    <3>2. QED
      BY <3>1, <1>2 DEF Range
  <2>3. QED
    BY <2>1, <2>2
<1>5. mem = [frame |-> [f \in Frames |-> None], free |-> frees, order |-> <<>>,
             table |-> [page \in Space |-> None]]
  BY DEF PagingInit, NoMemoryInUse
<1> HIDE DEF frees
<1>6. <<>> \in Seq(Frames) /\ <<>> \in Seq(Job) /\ DOMAIN <<>> = {}
  OBVIOUS
<1>7. NoRepeats(<<>>) /\ Range(<<>>) = {} /\ OnePerPage(<<>>) /\ PagesIn(<<>>) = {}
  BY <1>6 DEF NoRepeats, Range, OnePerPage, PagesIn
<1>8. MemTypes(mem)
  BY <1>2, <1>5, <1>6 DEF MemTypes
<1>9. FramesMatchTables(mem)
  BY <1>5, ConstantFacts DEF FramesMatchTables
<1>10. FramesAccountedFor(mem)
  BY <1>3, <1>4, <1>5, <1>7 DEF FramesAccountedFor
<1>11. Resident(mem) = {}
  BY <1>5 DEF Resident
<1>12. jobs = <<>> /\ reserved \in [Procs -> Nat \cup {None}]
  BY DEF PagingInit
<1>13. QED
  BY <1>6, <1>7, <1>8, <1>9, <1>10, <1>11, <1>12 DEF PagingInv, MemInv

(* The inductive invariant holds of every memory size, whatever the script  *)
(* reserves and kills and whatever else blocks and wakes the processes.     *)
THEOREM PagingInvariant == PagingSpec => []PagingInv
<1>1. PagingInit => PagingInv
  BY InitPagingInv
<1>2. PagingInv /\ [PagingNext]_pagingVars => PagingInv'
  BY StepKeepsPagingInv
<1>3. QED
  BY <1>1, <1>2, PTL DEF PagingSpec

(* Frame table, page tables, free list and load order always agree: a page  *)
(* is in at most one frame, and no frame is lost or handed out twice.       *)
THEOREM FrameSafety == PagingSpec => []FrameBookkeeping
<1>1. PagingInv => FrameBookkeeping
  BY DEF PagingInv, MemInv, FrameBookkeeping
<1>2. QED
  BY <1>1, PagingInvariant, PTL

(* Fault jobs are in flight for missing pages only, one for each page, and  *)
(* none survives the process it was started for.                            *)
THEOREM FaultJobsAreSound == PagingSpec => []FaultJobsSound
<1>1. ASSUME PagingInv PROVE FaultJobsSound
  <2>1. /\ mem.table \in [Space -> Frames \cup {None}]
        /\ jobs \in Seq(Job) /\ OnePerPage(jobs)
        /\ Resident(mem) \cap PagesIn(jobs) = {}
        /\ \A page \in Resident(mem) \cup PagesIn(jobs) : reserved[Owner(page)] # None
    BY <1>1 DEF PagingInv, MemInv, MemTypes
  <2>2. \A i \in DOMAIN jobs : jobs[i].page \in PagesIn(jobs) /\ jobs[i].page \in Space
    <3>1. \A i \in DOMAIN jobs : jobs[i] \in Job
      BY <2>1
    <3>2. QED
      BY <3>1 DEF PagesIn, Job
  <2>3. \A i \in DOMAIN jobs : mem.table[jobs[i].page] = None
    BY <2>1, <2>2 DEF Resident
  <2>4. \A i, j \in DOMAIN jobs : jobs[i].page = jobs[j].page => i = j
    BY <2>1 DEF OnePerPage
  <2>5. ASSUME NEW p \in Procs, reserved[p] = None
        PROVE  /\ \A i \in DOMAIN jobs : Owner(jobs[i].page) # p
               /\ \A page \in {p} \X Pages : mem.table[page] = None
    <3>1. \A i \in DOMAIN jobs : Owner(jobs[i].page) # p
      BY <2>1, <2>2, <2>5
    <3>2. \A page \in {p} \X Pages : page \in Space /\ Owner(page) = p
      BY DEF Space, Owner
    <3>3. QED
      BY <3>1, <3>2, <2>1, <2>5 DEF Resident
  <2>6. QED
    BY <2>3, <2>4, <2>5 DEF FaultJobsSound
<1>2. QED
  BY <1>1, PagingInvariant, PTL

-----------------------------------------------------------------------------
(* The bytes: what is in use is what is reserved.                           *)
BytesOf(r) == [p \in Procs |-> IF r[p] = None THEN 0 ELSE r[p]]

BytesInv ==
    /\ reserved \in [Procs -> Nat \cup {None}]
    /\ used = SumFunction(BytesOf(reserved)) /\ used <= TotalMemory

(* A new entry of one process changes the sum by the difference.            *)
LEMMA EntryChanges ==
    ASSUME NEW r \in [Procs -> Nat \cup {None}], NEW p \in Procs, NEW entry \in Nat \cup {None}
    PROVE  LET n == [r EXCEPT ![p] = entry] IN
           /\ n \in [Procs -> Nat \cup {None}]
           /\ BytesOf(r)[p] \in Nat /\ BytesOf(n)[p] = IF entry = None THEN 0 ELSE entry
           /\ SumFunction(BytesOf(r)) \in Nat /\ BytesOf(r)[p] <= SumFunction(BytesOf(r))
           /\ SumFunction(BytesOf(n)) =
                  SumFunction(BytesOf(r)) + (BytesOf(n)[p] - BytesOf(r)[p])
<1> DEFINE n == [r EXCEPT ![p] = entry]
           b == BytesOf(r)
           c == BytesOf(n)
<1>1. IsFiniteSet(Procs)
  BY KernelAssumption
<1>2. /\ n \in [Procs -> Nat \cup {None}] /\ n[p] = entry
      /\ \A x \in Procs \ {p} : n[x] = r[x]
  OBVIOUS
<1> HIDE DEF n
<1>3. b \in [Procs -> Nat] /\ \A x \in Procs : b[x] = IF r[x] = None THEN 0 ELSE r[x]
  BY DEF BytesOf
<1>4. c \in [Procs -> Nat] /\ \A x \in Procs : c[x] = IF n[x] = None THEN 0 ELSE n[x]
  BY <1>2 DEF BytesOf
<1> HIDE DEF b, c
<1>5. SumFunction(b) \in Nat /\ b[p] <= SumFunction(b)
  BY <1>1, <1>3, SumOfNats
<1>6. SumFunction(c) = SumFunction(b) + (c[p] - b[p])
  <2>1. b \in [Procs -> Int] /\ c \in [Procs -> Int] /\ \A x \in Procs \ {p} : b[x] = c[x]
    BY <1>2, <1>3, <1>4
  <2>2. QED
    BY <1>1, <2>1, SumChange
<1>7. b[p] \in Nat /\ c[p] = IF entry = None THEN 0 ELSE entry
  BY <1>2, <1>3, <1>4
<1>8. QED
  BY <1>2, <1>5, <1>6, <1>7 DEF n, b, c

LEMMA BytesIsEntry == \A p \in Procs : Bytes(p) = BytesOf(reserved)[p]
BY DEF Bytes, BytesOf

LEMMA FreeKeepsBytes ==
    ASSUME BytesInv, NEW p \in Procs, NEW m, NEW js, FreeMemory(p, m, js)
    PROVE  BytesInv'
<1>1. /\ used' = IF used >= Bytes(p) THEN used - Bytes(p) ELSE 0
      /\ reserved' = [reserved EXCEPT ![p] = None]
  BY DEF FreeMemory
<1>2. /\ reserved \in [Procs -> Nat \cup {None}] /\ TotalMemory \in Nat
      /\ used = SumFunction(BytesOf(reserved)) /\ used <= TotalMemory
  BY PagingAssumption DEF BytesInv
<1>3. /\ reserved' \in [Procs -> Nat \cup {None}]
      /\ BytesOf(reserved)[p] \in Nat /\ BytesOf(reserved')[p] = 0
      /\ SumFunction(BytesOf(reserved)) \in Nat
      /\ BytesOf(reserved)[p] <= SumFunction(BytesOf(reserved))
      /\ SumFunction(BytesOf(reserved')) =
             SumFunction(BytesOf(reserved)) + (BytesOf(reserved')[p] - BytesOf(reserved)[p])
  BY <1>1, <1>2, EntryChanges
<1>4. used' = used - BytesOf(reserved)[p]
  BY <1>1, <1>2, <1>3, BytesIsEntry
<1>5. used' = SumFunction(BytesOf(reserved')) /\ used' <= TotalMemory
  BY <1>2, <1>3, <1>4
<1>6. QED
  BY <1>3, <1>5 DEF BytesInv

LEMMA AllocateKeepsBytes ==
    ASSUME BytesInv, NEW p \in Procs, NEW amount \in Amounts[p], Allocate(p, amount)
    PROVE  BytesInv'
<1>1. /\ used + (amount - Bytes(p)) <= TotalMemory
      /\ used' = used + (amount - Bytes(p))
      /\ reserved' = [reserved EXCEPT ![p] = amount]
  BY DEF Allocate, Increase
<1>2. amount \in Nat \cup {None} /\ amount # None
  BY PagingAssumption
<1>3. reserved \in [Procs -> Nat \cup {None}] /\ used = SumFunction(BytesOf(reserved))
  BY DEF BytesInv
<1>4. /\ reserved' \in [Procs -> Nat \cup {None}] /\ BytesOf(reserved')[p] = amount
      /\ SumFunction(BytesOf(reserved')) =
             SumFunction(BytesOf(reserved)) + (BytesOf(reserved')[p] - BytesOf(reserved)[p])
  <2>1. reserved \in [Procs -> Nat \cup {None}]
    BY <1>3
  <2>2. amount \in Nat \cup {None}
    BY <1>2
  <2>3. LET n == [reserved EXCEPT ![p] = amount] IN
        /\ n \in [Procs -> Nat \cup {None}]
        /\ BytesOf(n)[p] = IF amount = None THEN 0 ELSE amount
        /\ SumFunction(BytesOf(n)) =
               SumFunction(BytesOf(reserved)) + (BytesOf(n)[p] - BytesOf(reserved)[p])
    BY <2>1, <2>2, EntryChanges
  <2>4. QED
    BY <2>3, <1>1, <1>2
<1>5. /\ used + (amount - BytesOf(reserved)[p]) <= TotalMemory
      /\ used' = used + (amount - BytesOf(reserved)[p])
  BY <1>1, BytesIsEntry
<1>6. QED
  BY <1>3, <1>4, <1>5 DEF BytesInv

LEMMA StepKeepsBytes ==
    ASSUME PagingInv, BytesInv, [PagingNext]_pagingVars
    PROVE  BytesInv'
<1>1. CASE UNCHANGED memoryVars
  BY <1>1 DEF memoryVars, BytesInv
<1>2. ASSUME NEW p \in Procs, NEW amount \in Amounts[p], Allocate(p, amount) PROVE BytesInv'
  BY <1>2, AllocateKeepsBytes
<1>3. ASSUME NEW p \in Procs, ScriptFrees(p) PROVE BytesInv'
  BY <1>3, FreeKeepsBytes DEF ScriptFrees
<1>4. CASE PagingTick
  <2>1. \/ UNCHANGED <<reserved, used>>
        \/ \E p \in Procs, js \in Seq(Job) : FreeMemory(p, AfterFaultTimers.mem, js)
    BY <1>4, TickSteps
  <2>2. CASE UNCHANGED <<reserved, used>>
    BY <2>2 DEF BytesInv
  <2>3. QED
    BY <2>1, <2>2, FreeKeepsBytes
<1>5. QED
  BY <1>1, <1>2, <1>3, <1>4 DEF PagingNext, pagingVars

(* The types; the bytes in use are always those reserved, and never more    *)
(* than there are.                                                          *)
THEOREM PagingTypes == PagingSpec => []PagingTypeOK
<1>1. PagingInit => BytesInv
  <2> SUFFICES ASSUME PagingInit PROVE BytesInv
    OBVIOUS
  <2> DEFINE b == BytesOf(reserved)
  <2>1. /\ reserved \in [Procs -> Nat \cup {None}]
        /\ used = 0 /\ TotalMemory \in Nat /\ IsFiniteSet(Procs)
    BY KernelAssumption, PagingAssumption DEF PagingInit
  <2>2. b \in [Procs -> Nat] /\ \A p \in Procs : b[p] = 0
    BY DEF PagingInit, BytesOf
  <2> HIDE DEF b
  <2>3. SumFunction(b) = 0
    BY <2>1, <2>2, SumOfNats
  <2>4. QED
    BY <2>1, <2>3 DEF BytesInv, b
<1>2. PagingInv /\ BytesInv /\ [PagingNext]_pagingVars => BytesInv'
  BY StepKeepsBytes
<1>3. PagingInv /\ BytesInv => PagingTypeOK
  <2> SUFFICES ASSUME PagingInv, BytesInv PROVE PagingTypeOK
    OBVIOUS
  <2> DEFINE b == BytesOf(reserved)
  <2>1. /\ IsFiniteSet(Procs) /\ TotalMemory \in Nat
        /\ reserved \in [Procs -> Nat \cup {None}]
    BY KernelAssumption, PagingAssumption DEF BytesInv
  <2>2. /\ b \in [Procs -> Nat]
        /\ \A p \in Procs : reserved[p] = None \/ reserved[p] = b[p]
    BY <2>1 DEF BytesOf
  <2>3. used = SumFunction(b) /\ used <= TotalMemory
    BY DEF BytesInv
  <2>4. [p \in Procs |-> Bytes(p)] = b
    BY DEF Bytes, BytesOf
  <2> HIDE DEF b
  <2>5. SumFunction(b) \in Nat /\ \A p \in Procs : b[p] <= SumFunction(b)
    BY <2>1, <2>2, SumOfNats
  <2>6. \A p \in Procs : reserved[p] \in 0..TotalMemory \cup {None}
    BY <2>1, <2>2, <2>3, <2>5
  <2>7. reserved \in [Procs -> 0..TotalMemory \cup {None}]
    BY <2>1, <2>6
  <2>8. used = SumFunction([p \in Procs |-> Bytes(p)]) /\ used <= TotalMemory
    BY <2>3, <2>4
  <2>9. QED
    BY <2>7, <2>8 DEF PagingTypeOK, MemoryTypes, PagingInv, MemInv, MemTypes, Job
<1>4. QED
  BY <1>1, <1>2, <1>3, PagingInvariant, PTL DEF PagingSpec

-----------------------------------------------------------------------------
(* First in, first out.  A frame loses its page if it holds another, or     *)
(* none, afterwards.                                                        *)
LEMMA LosesIfReplaced ==
    ASSUME MemInv(mem), MemInv(mem'), NEW f \in Frames
    PROVE  LosesPage(f) <=> mem.frame[f] # None /\ mem'.frame[f] # mem.frame[f]
<1>1. mem.frame[f] # None => mem.frame[f] \in Space
  BY DEF MemInv, MemTypes
<1>2. QED
  BY <1>1 DEF MemInv, FramesMatchTables, LosesPage

(* Whatever the memory m was got to by loads, and whether or not what p had *)
(* of it was freed then, the pages lost are the oldest.                     *)
LEMMA OldestAreLost ==
    ASSUME PagingInv, PagingInv', NEW m, MemInv(m), FirstOut(mem, m),
           \/ mem' = m
           \/ \E p \in Procs, js \in Seq(Job) : FreeMemory(p, m, js),
           NEW f \in Frames, NEW g \in Frames, InOrder(mem.order, f, g), Evicted(g)
    PROVE  LosesPage(f)
<1>1. MemInv(mem) /\ MemInv(mem') /\ reserved \in [Procs -> Nat \cup {None}]
  BY DEF PagingInv
<1>2. mem.frame[f] # None
  BY <1>1 DEF MemInv, FramesAccountedFor, InOrder, Range
<1>3. mem.frame[g] # None /\ mem'.frame[g] # mem.frame[g] /\ reserved'[Owner(mem.frame[g])] # None
  BY <1>1, LosesIfReplaced DEF Evicted
<1>4. m.frame[f] = mem.frame[f] => m.frame[g] = mem.frame[g]
  BY DEF FirstOut
<1>5. CASE mem' = m
  BY <1>1, <1>2, <1>3, <1>4, <1>5, LosesIfReplaced
<1>6. ASSUME NEW p \in Procs, NEW js, FreeMemory(p, m, js) PROVE LosesPage(f)
  <2>1. mem' = FreeFrames(m, p) /\ reserved'[p] = None
    BY <1>1, <1>6 DEF FreeMemory
  <2>2. \A h \in Frames : mem'.frame[h] =
            IF m.frame[h] # None /\ Owner(m.frame[h]) # p THEN m.frame[h] ELSE None
    BY <2>1, FreeFramesInv
  <2>3. Owner(mem.frame[g]) # p
    BY <1>3, <2>1
  <2>4. m.frame[g] # mem.frame[g]
    BY <1>3, <2>2, <2>3
  <2>5. mem'.frame[f] # mem.frame[f]
    BY <1>2, <1>4, <2>2, <2>4
  <2>6. QED
    BY <1>1, <1>2, <2>5, LosesIfReplaced
<1>7. QED
  BY <1>5, <1>6

(* When a page of a process that is still there loses its frame, all pages  *)
(* loaded before it have lost theirs.                                       *)
THEOREM OldestPageGoesFirst == PagingSpec => OldestFirst
<1> DEFINE First == \A f, g \in Frames : InOrder(mem.order, f, g) /\ Evicted(g) => LosesPage(f)
<1>1. ASSUME PagingInv, [PagingNext]_pagingVars PROVE First
  <2> SUFFICES ASSUME NEW f \in Frames, NEW g \in Frames, InOrder(mem.order, f, g), Evicted(g)
               PROVE  LosesPage(f)
    OBVIOUS
  <2>1. PagingInv' /\ MemInv(mem)
    BY <1>1, StepKeepsPagingInv DEF PagingInv
  <2>2. FirstOut(mem, mem)
    BY DEF FirstOut
  <2>3. CASE mem' = mem
    BY <1>1, <2>1, <2>2, <2>3, OldestAreLost
  <2>4. ASSUME NEW p \in Procs, ScriptFrees(p) PROVE LosesPage(f)
    <3>1. FreeMemory(p, mem, jobs) /\ jobs \in Seq(Job)
      BY <1>1, <2>4 DEF ScriptFrees, PagingInv
    <3>2. QED
      BY <1>1, <2>1, <2>2, <3>1, OldestAreLost
  <2>5. CASE PagingTick
    <3> DEFINE m == AfterFaultTimers.mem
    <3>1. MemInv(m) /\ FirstOut(mem, m)
      BY <1>1, FaultTimersDone DEF TimersDone, Progress
    <3>2. mem' = m \/ \E p \in Procs, js \in Seq(Job) : FreeMemory(p, m, js)
      BY <1>1, <2>5, TickSteps
    <3> HIDE DEF m
    <3>3. QED
      BY <1>1, <2>1, <3>1, <3>2, OldestAreLost
  <2>6. QED
    BY <1>1, <2>3, <2>4, <2>5 DEF PagingNext, pagingVars, memoryVars, Allocate
<1>2. QED
  BY <1>1, PagingInvariant, PTL DEF PagingSpec, OldestFirst

-----------------------------------------------------------------------------
(* Demand paging.  There are as many resident pages as frames in use.       *)
LEMMA SpaceIsFinite == IsFiniteSet(Space)
<1>1. PageCount(TotalMemory) \in Int
  BY PagingAssumption DEF PageCount
<1>2. IsFiniteSet(Pages)
  BY <1>1, FS_Interval DEF Pages
<1>3. QED
  BY <1>2, KernelAssumption, FS_Product DEF Space

LEMMA ResidentCount ==
    ASSUME NEW m, MemInv(m)
    PROVE  /\ IsFiniteSet(Resident(m)) /\ Cardinality(Resident(m)) <= NumFrames
           /\ m.free = <<>> => Cardinality(Resident(m)) = NumFrames
<1> DEFINE at == [page \in Resident(m) |-> m.table[page]]
<1>1. /\ m.table \in [Space -> Frames \cup {None}] /\ m.frame \in [Frames -> Space \cup {None}]
      /\ \A page \in Space, f \in Frames : m.table[page] = f <=> m.frame[f] = page
      /\ Range(m.free) = {f \in Frames : m.frame[f] = None}
  BY DEF MemInv, MemTypes, FramesMatchTables, FramesAccountedFor
<1>2. NumFrames \in Nat /\ None \notin Frames /\ None \notin Space
  BY ConstantFacts
<1>3. IsFiniteSet(Frames) /\ Cardinality(Frames) = NumFrames
  BY <1>2, FS_Interval DEF Frames
<1>4. Resident(m) \subseteq Space /\ \A page \in Resident(m) : m.table[page] \in Frames
  BY <1>1 DEF Resident
<1>5. at \in Injection(Resident(m), Frames)
  BY <1>1, <1>4 DEF Injection, IsInjective
<1>6. ASSUME m.free = <<>> PROVE at \in Surjection(Resident(m), Frames)
  <2>1. Range(m.free) = {}
    BY <1>6 DEF Range
  <2>2. \A f \in Frames : m.frame[f] \in Space /\ m.table[m.frame[f]] = f
    BY <1>1, <2>1
  <2>3. \A f \in Frames : m.frame[f] \in Resident(m)
    BY <1>2, <2>2 DEF Resident
  <2>4. QED
    BY <1>4, <2>2, <2>3 DEF Surjection
<1> HIDE DEF at
<1>7. QED
  BY <1>3, <1>5, <1>6, FS_Injection

(* The operators the abstract specification takes from the library.         *)
LEMMA DemandOperators ==
    ASSUME NEW S
    PROVE  Demand!Fitting(S) = IF Cardinality(S) <= NumFrames THEN {S} ELSE kSubset(NumFrames, S)
<1>1. \A T : Demand!Cardinality(T) = Cardinality(T)
  BY DEF Demand!Cardinality, Cardinality
<1>2. Demand!kSubset(NumFrames, S) = kSubset(NumFrames, S)
  BY <1>1 DEF Demand!kSubset, kSubset
<1>3. QED
  BY <1>1, <1>2 DEF Demand!Fitting

LEMMA KeptPagesFit ==
    ASSUME NEW m, MemInv(m), NEW S, S \subseteq Space, Resident(m) \subseteq S,
           Resident(m) = S \/ m.free = <<>>
    PROVE  Resident(m) \in Demand!Fitting(S)
<1>1. IsFiniteSet(S)
  BY SpaceIsFinite, FS_Subset
<1>2. /\ IsFiniteSet(Resident(m)) /\ Cardinality(Resident(m)) <= NumFrames
      /\ m.free = <<>> => Cardinality(Resident(m)) = NumFrames
  BY ResidentCount
<1>3. /\ Cardinality(S) \in Nat /\ Cardinality(Resident(m)) \in Nat /\ NumFrames \in Nat
      /\ Cardinality(Resident(m)) <= Cardinality(S)
      /\ Cardinality(S) = Cardinality(Resident(m)) => S = Resident(m)
  BY <1>1, <1>2, FS_Subset, FS_CardinalityType, ConstantFacts
<1>4. CASE Cardinality(S) <= NumFrames
  <2>1. Resident(m) = S
    BY <1>2, <1>3, <1>4
  <2>2. QED
    BY <1>4, <2>1, DemandOperators
<1>5. CASE ~ (Cardinality(S) <= NumFrames)
  <2>1. Cardinality(Resident(m)) = NumFrames
    BY <1>2, <1>5
  <2>2. Resident(m) \in kSubset(NumFrames, S)
    BY <2>1 DEF kSubset
  <2>3. QED
    BY <1>5, <2>2, DemandOperators
<1>6. QED
  BY <1>4, <1>5

LEMMA PagesAreInSpace ==
    ASSUME NEW m, NEW js \in Seq(Job)
    PROVE  Resident(m) \subseteq Space /\ PagesIn(js) \subseteq Space
<1>1. \A i \in DOMAIN js : js[i] \in Job
  OBVIOUS
<1>2. QED
  BY <1>1 DEF Job, PagesIn, Resident

(* The memory m got to by the loads of `served`, jobs js that include those *)
(* still wanted, and perhaps a process that ends.                           *)
LEMMA ServeStep ==
    ASSUME PagingInv, PagingInv', NEW m, MemInv(m), NEW js \in Seq(Job), OnePerPage(js),
           NEW served \in SUBSET PagesIn(jobs),
           Resident(m) \subseteq Resident(mem) \cup served,
           Resident(m) = Resident(mem) \cup served \/ m.free = <<>>,
           PagesIn(jobs) \ served \subseteq PagesIn(js),
           \/ mem' = m /\ jobs' = js
           \/ \E p \in Procs : FreeMemory(p, m, js)
    PROVE  Demand!DemandNext
<1>1. /\ Resident(mem) \subseteq Space /\ PagesIn(jobs) \subseteq Space
      /\ Resident(mem') \subseteq Space /\ PagesIn(jobs') \subseteq Space
      /\ Resident(m) \subseteq Space /\ PagesIn(js) \subseteq Space
      /\ Resident(mem') \cap PagesIn(jobs') = {}
  BY PagesAreInSpace DEF PagingInv, Resident
<1>2. Resident(m) \in Demand!Fitting(Resident(mem) \cup served)
  BY <1>1, KeptPagesFit
<1>3. Demand!Space = Space /\ \A S : Demand!PagesOf(S) = S \X Pages
  BY DEF Demand!Space, Space, Demand!PagesOf
<1>4. ASSUME NEW ended \in {{}} \cup {{p} : p \in Procs},
             Resident(mem') = Resident(m) \ (ended \X Pages),
             PagesIn(jobs') = PagesIn(js) \ (ended \X Pages)
      PROVE  Demand!Serve(served)
  <2> DEFINE old == Resident(mem)
             new == Resident(mem')
             want == PagesIn(jobs)
             want2 == PagesIn(jobs')
             gone == ended \X Pages
  <2>1. /\ Resident(m) \in Demand!Fitting(old \cup served)
        /\ new = Resident(m) \ gone
        /\ want2 \in SUBSET (Space \ (new \cup gone))
        /\ want \ (served \cup gone) \subseteq want2
    BY <1>1, <1>2, <1>4
  <2>2. \E kept \in Demand!Fitting(old \cup served), e \in {{}} \cup {{p} : p \in Procs} :
            /\ new = kept \ Demand!PagesOf(e)
            /\ want2 \in SUBSET (Demand!Space \ (new \cup Demand!PagesOf(e)))
            /\ want \ (served \cup Demand!PagesOf(e)) \subseteq want2
    <3> HIDE DEF old, new, want, want2
    <3>1. Demand!PagesOf(ended) = gone
      BY <1>3
    <3> HIDE DEF gone
    <3>2. QED
      BY <1>3, <2>1, <3>1
  <2>3. QED
    BY <2>2 DEF Demand!Serve, Resident, PagesIn
<1>5. CASE mem' = m /\ jobs' = js
  <2>1. Demand!Serve(served)
    <3>1. {} \X Pages = {}
      OBVIOUS
    <3>2. /\ Resident(mem') = Resident(m) \ ({} \X Pages)
          /\ PagesIn(jobs') = PagesIn(js) \ ({} \X Pages)
      BY <1>5, <3>1
    <3>3. QED
      BY <1>4, <3>2
  <2>2. QED
    BY <2>1 DEF Demand!DemandNext, PagesIn
<1>6. ASSUME NEW p \in Procs, FreeMemory(p, m, js) PROVE Demand!DemandNext
  <2>1. mem' = FreeFrames(m, p) /\ jobs' = DropJobs(js, p)
    BY <1>6 DEF FreeMemory
  <2>2. /\ Resident(mem') = {page \in Resident(m) : Owner(page) # p}
        /\ PagesIn(jobs') = {page \in PagesIn(js) : Owner(page) # p}
    BY <2>1, FreeFramesInv, DropJobsInv
  <2>3. \A page \in Space : Owner(page) = p <=> page \in {p} \X Pages
    BY DEF Space, Owner
  <2>4. /\ Resident(mem') = Resident(m) \ ({p} \X Pages)
        /\ PagesIn(jobs') = PagesIn(js) \ ({p} \X Pages)
    BY <1>1, <2>2, <2>3
  <2>5. Demand!Serve(served)
    <3> DEFINE ended == {p}
    <3>1. ended \in {{}} \cup {{q} : q \in Procs}
      OBVIOUS
    <3>2. /\ Resident(mem') = Resident(m) \ (ended \X Pages)
          /\ PagesIn(jobs') = PagesIn(js) \ (ended \X Pages)
      BY <2>4
    <3> HIDE DEF ended
    <3>3. QED
      BY <1>4, <3>1, <3>2
  <2>6. QED
    BY <2>5 DEF Demand!DemandNext, PagesIn
<1>7. QED
  BY <1>5, <1>6

(* The frames, the tables and the jobs implement the safety part of demand  *)
(* paging: what becomes resident was asked for, and pages are given up only *)
(* when the frames do not suffice, and no more than that.                   *)
THEOREM PagingRefinesDemand ==
    PagingSpec => Demand!DemandInit /\ [][Demand!DemandNext]_(Demand!pagingState)
<1>1. PagingInit => Demand!DemandInit
  BY DEF PagingInit, NoMemoryInUse, Demand!DemandInit
<1>2. ASSUME PagingInv, [PagingNext]_pagingVars
      PROVE  [Demand!DemandNext]_(Demand!pagingState)
  <2>1. PagingInv' /\ MemInv(mem) /\ jobs \in Seq(Job) /\ OnePerPage(jobs)
    BY <1>2, StepKeepsPagingInv DEF PagingInv
  <2>2. CASE UNCHANGED <<mem, jobs>>
    BY <2>2 DEF Demand!pagingState
  <2>3. ASSUME NEW p \in Procs, ScriptFrees(p) PROVE Demand!DemandNext
    <3>1. FreeMemory(p, mem, jobs)
      BY <2>3 DEF ScriptFrees
    <3>2. /\ {} \in SUBSET PagesIn(jobs) /\ Resident(mem) = Resident(mem) \cup {}
          /\ PagesIn(jobs) \ {} = PagesIn(jobs)
      OBVIOUS
    <3>3. QED
      BY <1>2, <2>1, <3>1, <3>2, ServeStep
  <2>4. CASE PagingTick
    <3> DEFINE s == AfterFaultTimers
               served == Due(Len(jobs))
    <3>1. TimersDone(s, Len(jobs))
      BY <1>2, FaultTimersDone
    <3>2. {jobs[k].page : k \in 1..Len(jobs)} = PagesIn(jobs)
      BY <2>1 DEF PagesIn
    <3>3. served \in SUBSET PagesIn(jobs)
      BY <3>2 DEF Due
    <3>4. PICK js \in Seq(Job) :
              /\ OnePerPage(js) /\ PagesIn(s.left) \subseteq PagesIn(js)
              /\ \/ mem' = s.mem /\ jobs' = js /\ UNCHANGED <<reserved, used>>
                 \/ \E p \in Procs : FreeMemory(p, s.mem, js)
      BY <1>2, <2>4, TickSteps
    <3> HIDE DEF s, served
    <3>5. /\ MemInv(s.mem) /\ PagesIn(s.left) = PagesIn(jobs) \ served
          /\ Resident(s.mem) \subseteq Resident(mem) \cup served
          /\ Resident(s.mem) = Resident(mem) \cup served \/ s.mem.free = <<>>
      BY <3>1, <3>2 DEF TimersDone, Progress, served
    <3>6. Demand!DemandNext
      BY <1>2, <2>1, <3>3, <3>4, <3>5, ServeStep
    <3>7. QED
      BY <3>6
  <2>5. QED
    BY <1>2, <2>2, <2>3, <2>4 DEF PagingNext, pagingVars, memoryVars, Allocate
<1>3. QED
  BY <1>1, <1>2, PagingInvariant, PTL DEF PagingSpec

-----------------------------------------------------------------------------
(* The kernel under the memory manager: the fault timers wake processes in  *)
(* the middle of a tick, before it dispatches, and the invariant of the     *)
(* kernel survives every order of completions, faults and dispatches.       *)

(* What a tick in progress leaves to the dispatch.                          *)
Queued(s) ==
    /\ s = [mem |-> s.mem, left |-> s.left, st |-> s.st, rq |-> s.rq]
    /\ KInv(s.st, s.rq, current)

(* A job that is due wakes the owner of its page, if that is BLOCKED, and   *)
(* otherwise leaves the queue alone.                                        *)
LEMMA CountDownKeepsQueue ==
    ASSUME NEW s, Queued(s), NEW job \in Job
    PROVE  Queued(CountDown(s, job))
<1> DEFINE r == CountDown(s, job)
           p == Owner(job.page)
<1>1. p \in Procs
  BY DEF Job, Space, Owner
<1>2. CASE job.ticks > 1
  BY <1>2 DEF CountDown, Queued
<1>3. CASE ~ (job.ticks > 1) /\ NumFrames = 0
  BY <1>3 DEF CountDown, CompleteLoad
<1>4. CASE ~ (job.ticks > 1) /\ NumFrames # 0
  <2>1. r = [mem |-> Load(s.mem, job.page), left |-> s.left, st |-> WakeState(s.st, p),
             rq |-> IF s.st[p] = "BLOCKED" THEN WakeQueue(s.st, s.rq, p) ELSE s.rq]
    BY <1>4 DEF CountDown, CompleteLoad, Queued
  <2> HIDE DEF r
  <2>2. /\ r.st = WakeState(s.st, p)
        /\ r.rq = IF s.st[p] = "BLOCKED" THEN WakeQueue(s.st, s.rq, p) ELSE s.rq
        /\ r = [mem |-> r.mem, left |-> r.left, st |-> r.st, rq |-> r.rq]
    BY <2>1
  <2>3. CASE s.st[p] = "BLOCKED"
    <3>1. KInv(WakeState(s.st, p), WakeQueue(s.st, s.rq, p), current)
      BY <1>1, WakeKeepsKInv DEF Queued
    <3>2. QED
      BY <2>2, <2>3, <3>1 DEF Queued, r
  <2>4. CASE s.st[p] # "BLOCKED"
    <3>1. WakeState(s.st, p) = s.st
      BY <2>4 DEF WakeState
    <3>2. QED
      BY <2>2, <2>4, <3>1 DEF Queued, r
  <2>5. QED
    BY <2>3, <2>4
<1>5. QED
  BY <1>2, <1>3, <1>4

(* So do all the jobs of a tick, one after the other.                       *)
LEMMA FaultTimersKeepQueue ==
    ASSUME KInv(state, ready, current), jobs \in Seq(Job)
    PROVE  Queued(AfterFaultTimers)
<1>1. Len(jobs) \in Nat /\ \A k \in 1..Len(jobs) : jobs[k] \in Job
  OBVIOUS
<1>2. PICK g : TimerRuns(g, Len(jobs)) /\ AfterFaultTimers = g[Len(jobs)]
  BY <1>1, TimerUnfold
<1>3. \A n \in 0..Len(jobs) :
          g[n] = IF n = 0 THEN BeforeFaultTimers ELSE CountDown(g[n - 1], jobs[n])
  BY <1>2 DEF TimerRuns
<1> DEFINE Bad == {n \in 0..Len(jobs) : ~ Queued(g[n])}
<1>4. Queued(g[0])
  <2>1. g[0] = [mem |-> mem, left |-> <<>>, st |-> state, rq |-> ready]
    BY <1>1, <1>3 DEF BeforeFaultTimers
  <2>2. QED
    BY <2>1 DEF Queued
<1>5. ASSUME NEW n \in 0..Len(jobs), n # 0, Queued(g[n - 1])
      PROVE  Queued(g[n])
  <2>1. jobs[n] \in Job /\ g[n] = CountDown(g[n - 1], jobs[n])
    BY <1>1, <1>3, <1>5
  <2>2. QED
    BY <2>1, <1>5, CountDownKeepsQueue
<1>6. Bad = {}
  <2> SUFFICES ASSUME Bad # {} PROVE FALSE
    OBVIOUS
  <2>1. PICK n \in Bad : \A k \in Bad : n <= k
    <3>1. Bad \subseteq Nat
      BY <1>1
    <3> HIDE DEF Bad
    <3>2. QED
      BY <3>1, LeastNat
  <2>2. n # 0 /\ n \in 0..Len(jobs)
    BY <1>4, <2>1
  <2>3. n - 1 \in 0..Len(jobs) /\ n - 1 \notin Bad
    BY <2>1, <2>2, <1>1
  <2>4. Queued(g[n])
    BY <2>2, <2>3, <1>5
  <2>5. QED
    BY <2>1, <2>4
<1>7. QED
  <2>1. Len(jobs) \in 0..Len(jobs)
    BY <1>1
  <2>2. QED
    BY <2>1, <1>2, <1>6

(* The jobs that complete, in whatever order, wake the owners of their      *)
(* pages and nobody else.                                                   *)
WokenBy(n) == {p \in Procs : NumFrames # 0 /\ state[p] = "BLOCKED" /\ p \in {Owner(page) : page \in Due(n)}}

LEMMA FaultTimersWake ==
    ASSUME KInv(state, ready, current), jobs \in Seq(Job)
    PROVE  AfterFaultTimers.st =
               [p \in Procs |-> IF p \in WokenBy(Len(jobs)) THEN "READY" ELSE state[p]]
<1> DEFINE Woken(n) == [p \in Procs |-> IF p \in WokenBy(n) THEN "READY" ELSE state[p]]
<1>1. Len(jobs) \in Nat /\ \A k \in 1..Len(jobs) : jobs[k] \in Job
  OBVIOUS
<1>2. PICK g : TimerRuns(g, Len(jobs)) /\ AfterFaultTimers = g[Len(jobs)]
  BY <1>1, TimerUnfold
<1>3. \A n \in 0..Len(jobs) :
          g[n] = IF n = 0 THEN BeforeFaultTimers ELSE CountDown(g[n - 1], jobs[n])
  BY <1>2 DEF TimerRuns
<1> DEFINE P == {n \in 0..Len(jobs) : Queued(g[n]) /\ g[n].st = Woken(n)}
<1>4. 0 \in P
  <2>1. g[0] = [mem |-> mem, left |-> <<>>, st |-> state, rq |-> ready]
    BY <1>1, <1>3 DEF BeforeFaultTimers
  <2>2. WokenBy(0) = {}
    BY DEF WokenBy, Due
  <2>3. state = Woken(0)
    BY <2>2 DEF KInv
  <2>4. QED
    BY <1>1, <2>1, <2>3 DEF Queued
<1>5. ASSUME NEW n \in 1..Len(jobs), n - 1 \in P PROVE n \in P
  <2> DEFINE b == g[n - 1]
             job == jobs[n]
             p == Owner(job.page)
  <2>1. job \in Job /\ g[n] = CountDown(b, job) /\ Queued(b) /\ b.st = Woken(n - 1)
    BY <1>1, <1>3, <1>5
  <2>2. p \in Procs
    BY <2>1 DEF Job, Space, Owner
  <2>3. Due(n) = IF job.ticks > 1 THEN Due(n - 1) ELSE Due(n - 1) \cup {job.page}
    BY <1>1 DEF Due
  <2> HIDE DEF b, job
  <2>4. Queued(g[n])
    BY <2>1, CountDownKeepsQueue
  <2>5. CASE job.ticks > 1 \/ NumFrames = 0
    <3>1. g[n].st = b.st
      BY <2>1, <2>5 DEF CountDown, CompleteLoad, Queued
    <3>2. WokenBy(n) = WokenBy(n - 1)
      BY <2>3, <2>5 DEF WokenBy
    <3>3. QED
      BY <2>1, <2>4, <3>1, <3>2
  <2>6. CASE ~ (job.ticks > 1) /\ NumFrames # 0
    <3>1. g[n].st = WakeState(b.st, p)
      BY <2>1, <2>6 DEF CountDown, CompleteLoad, Queued
    <3>2. WokenBy(n) = IF state[p] = "BLOCKED" THEN WokenBy(n - 1) \cup {p} ELSE WokenBy(n - 1)
      BY <2>2, <2>3, <2>6 DEF WokenBy
    <3> HIDE DEF p
    <3>3. WakeState(Woken(n - 1), p) = Woken(n)
      <4>1. WakeState(Woken(n - 1), p) \in [Procs -> {"READY"} \cup {state[q] : q \in Procs}]
        BY DEF WakeState
      <4>2. \A q \in Procs : WakeState(Woken(n - 1), p)[q] = Woken(n)[q]
        BY <2>2, <3>2 DEF WakeState
      <4>3. QED
        BY <4>1, <4>2
    <3>4. QED
      BY <2>1, <2>4, <3>1, <3>3
  <2>7. QED
    BY <2>5, <2>6
<1>6. 0..Len(jobs) \subseteq P
  <2> HIDE DEF P
  <2>1. QED
    BY <1>1, <1>4, <1>5, UpTo
<1>7. QED
  BY <1>1, <1>2, <1>6

(* A step of the memory manager or its environment keeps the invariant of   *)
(* the kernel; outside the tick it is a step of the kernel or none.         *)
LEMMA StepKeepsKernelInv ==
    ASSUME KernelInv, PagingInv, [PagingNext]_pagingVars
    PROVE  KernelInv'
<1>1. CASE UNCHANGED kernelVars
  BY <1>1, KernelNextInv
<1>2. CASE KernelNext
  BY <1>2, KernelNextInv
<1>3. CASE PagingTick
  <2> DEFINE s == AfterFaultTimers
  <2>1. /\ KInv(state, ready, current) /\ SliceOK(current, slice)
        /\ current \in Procs \cup {None} /\ remaining \in [Procs -> Nat]
    BY KernelInvSplit
  <2>2. Queued(s)
    BY <2>1, FaultTimersKeepQueue DEF PagingInv
  <2>3. PICK touch \in Touches, eff \in [Procs -> Weights] : DispatchPaged(s, touch, eff)
    BY <1>3 DEF PagingTick
  <2> HIDE DEF s
  <2>4. CpuStep(s.st, s.rq, eff, FaultsIfPicked(s.mem, touch))
    BY <2>3 DEF DispatchPaged
  <2>5. eff \in [Procs -> Int]
    BY KernelAssumption
  <2>6. KInv(s.st, s.rq, current)
    BY <2>2 DEF Queued
  <2>7. QED
    BY <2>1, <2>4, <2>5, <2>6, CpuStepKeepsInv
<1>4. CASE \E p \in Procs : \E amount \in Amounts[p] : Allocate(p, amount)
  BY <1>1, <1>4 DEF Allocate
<1>5. CASE \E p \in Procs : ScriptFrees(p)
  BY <1>1, <1>5 DEF ScriptFrees
<1>6. Killable \subseteq Procs /\ Meddled \subseteq Procs
  BY PagingAssumption
<1>7. QED
  BY <1>1, <1>2, <1>3, <1>4, <1>5, <1>6 DEF PagingNext, KernelNext, pagingVars

(* Page faults block processes in the middle of a dispatch and fault jobs   *)
(* wake them in the middle of a tick, whatever else wakes and blocks them:  *)
(* still no READY process is off the queue, none is in it twice, and the    *)
(* CPU has one process at a time.                                           *)
THEOREM PagingKeepsKernel ==
    PagingSpec => [](TypeOK /\ ReadyNeverLost /\ QueuedOnce /\ CpuIsExclusive)
<1>1. PagingInit => KernelInv
  BY KernelInitInv DEF PagingInit
<1>2. KernelInv /\ PagingInv /\ [PagingNext]_pagingVars => KernelInv'
  BY StepKeepsKernelInv
<1>3. KernelInv => TypeOK /\ ReadyNeverLost /\ QueuedOnce /\ CpuIsExclusive
  BY DEF KernelInv
<1>4. QED
  BY <1>1, <1>2, <1>3, PagingInvariant, PTL DEF PagingSpec

=============================================================================
