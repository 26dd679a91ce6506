----------------------------- MODULE DataLemmas -----------------------------
(***************************************************************************)
(* Facts about the data the models are built from, which the proofs of     *)
(* several components cite: least numbers, queues without repetitions,     *)
(* sums over finite sets, and greatest elements.                           *)
(***************************************************************************)
EXTENDS Integers, Sequences, FiniteSets, Functions, FiniteSetsExt,
        FiniteSetTheorems, SequenceTheorems, WellFoundedInduction, TLAPS

(* No element is in the sequence twice.                                     *)
Once(s) == \A i, j \in DOMAIN s : s[i] = s[j] => i = j

LEMMA LeastNat ==
    ASSUME NEW T, T \subseteq Nat, T # {}
    PROVE  \E x \in T : \A y \in T : x <= y
<1>1. IsWellFoundedOn({ss \in Nat \X Nat : ss[1] < ss[2]}, Nat)
  BY NatLessThanWellFounded DEF OpToRel
<1>2. PICK x \in T : \A y \in T : <<y, x>> \notin {ss \in Nat \X Nat : ss[1] < ss[2]}
  BY <1>1, WFMin
<1>3. ASSUME NEW y \in T PROVE x <= y
  <2>1. <<y, x>> \in Nat \X Nat
    OBVIOUS
  <2>2. ~ (<<y, x>>[1] < <<y, x>>[2])
    BY <1>2, <2>1
  <2>3. QED
    BY <2>2
<1>4. QED
  BY <1>3

(* What holds of 0 and is passed on holds up to k; P is the set of the      *)
(* numbers it holds of.                                                     *)
LEMMA UpTo ==
    ASSUME NEW k \in Nat, NEW P, 0 \in P,
           \A n \in 1..k : n - 1 \in P => n \in P
    PROVE  0..k \subseteq P
<1> DEFINE Bad == (0..k) \ P
<1>1. Bad \subseteq Nat
  OBVIOUS
<1>2. Bad = {}
  <2> SUFFICES ASSUME Bad # {} PROVE FALSE
    OBVIOUS
  <2>1. PICK n \in Bad : \A i \in Bad : n <= i
    <3> HIDE DEF Bad
    <3>1. QED
      BY <1>1, LeastNat
  <2>2. n \in 1..k /\ n - 1 \in 0..k /\ n - 1 \notin Bad
    BY <1>1, <2>1
  <2>3. QED
    BY <2>1, <2>2
<1>3. QED
  BY <1>2

(* What holds of the empty set and is passed on from a set without the      *)
(* element that CHOOSE picks to the set itself holds of all subsets of S.   *)
Pick(T) == CHOOSE x \in T : TRUE

LEMMA AllSubsets ==
    ASSUME NEW S, IsFiniteSet(S), NEW P, {} \in P,
           \A T \in SUBSET S : T # {} /\ T \ {Pick(T)} \in P => T \in P
    PROVE  SUBSET S \subseteq P
<1> DEFINE Q == {n \in Nat : \A T \in SUBSET S : Cardinality(T) = n => T \in P}
<1>1. 0 \in Q
  BY FS_EmptySet, FS_Subset
<1>2. ASSUME NEW n \in 1..Cardinality(S), n - 1 \in Q
      PROVE  n \in Q
  <2>1. Cardinality(S) \in Nat
    BY FS_CardinalityType
  <2> SUFFICES ASSUME NEW T \in SUBSET S, Cardinality(T) = n PROVE T \in P
    BY <2>1
  <2>2. IsFiniteSet(T) /\ T # {}
    BY <2>1, FS_Subset, FS_EmptySet
  <2>3. Pick(T) \in T
    BY <2>2 DEF Pick
  <2>4. Cardinality(T \ {Pick(T)}) = n - 1
    BY <2>2, <2>3, FS_RemoveElement
  <2>5. T \ {Pick(T)} \in P
    BY <1>2, <2>4
  <2>6. QED
    BY <2>2, <2>5
<1>3. Cardinality(S) \in Nat
  BY FS_CardinalityType
<1>4. 0..Cardinality(S) \subseteq Q
  <2> HIDE DEF Q
  <2>1. QED
    BY <1>1, <1>2, <1>3, UpTo
<1>5. ASSUME NEW T \in SUBSET S PROVE T \in P
  <2>1. Cardinality(T) \in 0..Cardinality(S)
    BY <1>3, FS_Subset, FS_CardinalityType
  <2>2. QED
    BY <1>4, <2>1
<1>6. QED
  BY <1>5

-----------------------------------------------------------------------------
(* Queues.                                                                  *)
LEMMA AppendSeq ==
    ASSUME NEW S, NEW s \in Seq(S), NEW x \in S
    PROVE  /\ Append(s, x) \in Seq(S) /\ Append(s, x) # <<>>
           /\ Range(Append(s, x)) = Range(s) \cup {x}
           /\ Once(s) /\ x \notin Range(s) => Once(Append(s, x))
<1>1. /\ Append(s, x) \in Seq(S) /\ Len(Append(s, x)) = Len(s) + 1
      /\ \A k \in 1..Len(s) : Append(s, x)[k] = s[k]
      /\ Append(s, x)[Len(s) + 1] = x
      /\ DOMAIN Append(s, x) = 1..(Len(s) + 1) /\ DOMAIN s = 1..Len(s) /\ Len(s) \in Nat
  OBVIOUS
<1> DEFINE t == Append(s, x)
<1> HIDE DEF t
<1>2. Range(t) = Range(s) \cup {x}
  <2>1. \A y \in Range(t) : y \in Range(s) \cup {x}
    BY <1>1 DEF Range, t
  <2>2. \A y \in Range(s) : y \in Range(t)
    BY <1>1 DEF Range, t
  <2>3. x \in Range(t)
    BY <1>1 DEF Range, t
  <2>4. QED
    BY <2>1, <2>2, <2>3
<1>3. ASSUME Once(s), x \notin Range(s)
      PROVE  Once(t)
  <2>1. \A k \in 1..Len(s) : s[k] # x
    BY <1>1, <1>3 DEF Range
  <2>2. QED
    BY <1>1, <1>3, <2>1 DEF Once, t
<1>4. QED
  BY <1>1, <1>2, <1>3 DEF t

LEMMA TailSeq ==
    ASSUME NEW S, NEW s \in Seq(S), s # <<>>
    PROVE  /\ Head(s) \in S /\ Head(s) \in Range(s) /\ Tail(s) \in Seq(S)
           /\ Range(Tail(s)) \subseteq Range(s)
           /\ Once(s) => Once(Tail(s)) /\ Range(Tail(s)) = Range(s) \ {Head(s)}
<1>1. /\ Len(s) \in Nat /\ Len(s) > 0 /\ DOMAIN s = 1..Len(s) /\ Head(s) = s[1]
      /\ Tail(s) \in Seq(S) /\ Len(Tail(s)) = Len(s) - 1
      /\ \A k \in 1..(Len(s) - 1) : Tail(s)[k] = s[k + 1]
      /\ DOMAIN Tail(s) = 1..(Len(s) - 1)
  OBVIOUS
<1> DEFINE t == Tail(s)
<1> HIDE DEF t
<1>2. Head(s) \in S /\ Head(s) \in Range(s)
  BY <1>1 DEF Range
<1>3. ASSUME NEW x \in Range(t)
      PROVE  x \in Range(s) /\ (Once(s) => x # Head(s))
  <2>1. PICK k \in 1..(Len(s) - 1) : x = s[k + 1]
    BY <1>1 DEF Range, t
  <2>2. QED
    BY <2>1, <1>1 DEF Range, Once
<1>4. ASSUME Once(s)
      PROVE  Once(t) /\ Range(t) = Range(s) \ {Head(s)}
  <2>1. Once(t)
    BY <1>1, <1>4 DEF Once, t
  <2>2. ASSUME NEW x \in Range(s) \ {Head(s)} PROVE x \in Range(t)
    <3>1. PICK k \in 1..Len(s) : x = s[k] /\ k # 1
      BY <1>1 DEF Range
    <3>2. k - 1 \in 1..(Len(s) - 1) /\ t[k - 1] = x
      BY <3>1, <1>1 DEF t
    <3>3. QED
      BY <3>2, <1>1 DEF Range, t
  <2>3. QED
    BY <2>1, <2>2, <1>3, <1>4
<1>5. QED
  BY <1>1, <1>2, <1>3, <1>4 DEF t

-----------------------------------------------------------------------------
(* Sums.  SumFunction folds a function over the subsets of its domain; the  *)
(* fold is a function g on them that satisfies the equation below.          *)
SumRuns(g, f, D) ==
    g = [T \in D |-> IF T = {} THEN 0 ELSE f[Pick(T)] + g[T \ {Pick(T)}]]

LEMMA SumExists ==
    ASSUME NEW S, IsFiniteSet(S), NEW f
    PROVE  \E g : SumRuns(g, f, SUBSET S)
<1> DEFINE Small(n) == {T \in SUBSET S : Cardinality(T) <= n}
           P == {n \in Nat : \E g : SumRuns(g, f, Small(n))}
<1>1. \A T \in SUBSET S : IsFiniteSet(T) /\ Cardinality(T) \in Nat /\ Cardinality(T) <= Cardinality(S)
  BY FS_Subset, FS_CardinalityType
<1>2. 0 \in P
  <2>1. Small(0) = {{}}
    BY <1>1, FS_EmptySet
  <2>2. SumRuns([T \in {{}} |-> 0], f, {{}})
    BY DEF SumRuns
  <2>3. QED
    BY <2>1, <2>2
<1>3. ASSUME NEW n \in 1..Cardinality(S), n - 1 \in P
      PROVE  n \in P
  <2>0. Cardinality(S) \in Nat /\ n \in Nat
    BY FS_CardinalityType
  <2>1. PICK h : SumRuns(h, f, Small(n - 1))
    BY <1>3
  <2> DEFINE g == [T \in Small(n) |-> IF T = {} THEN 0 ELSE f[Pick(T)] + h[T \ {Pick(T)}]]
  <2>2. Small(n - 1) \subseteq Small(n)
    BY <1>1, <2>0
  <2>3. \A T \in Small(n - 1) : g[T] = h[T]
    BY <2>1, <2>2 DEF SumRuns
  <2>4. \A T \in Small(n) : T # {} => T \ {Pick(T)} \in Small(n - 1)
    <3>1. \A T \in Small(n) : T # {} => Pick(T) \in T
      BY DEF Pick
    <3>2. QED
      BY <3>1, <1>1, <2>0, FS_RemoveElement
  <2>5. SumRuns(g, f, Small(n))
    <3> HIDE DEF Small
    <3>1. \A T \in Small(n) : T # {} => h[T \ {Pick(T)}] = g[T \ {Pick(T)}]
      BY <2>3, <2>4
    <3>2. QED
      BY <3>1 DEF SumRuns
  <2>6. QED
    <3> HIDE DEF g
    <3>1. QED
      BY <2>0, <2>5
<1>4. Cardinality(S) \in Nat /\ Cardinality(S) \in 0..Cardinality(S)
  BY FS_CardinalityType
<1>5. 0..Cardinality(S) \subseteq P
  <2> HIDE DEF P
  <2>1. QED
    BY <1>2, <1>3, <1>4, UpTo
<1>6. Small(Cardinality(S)) = SUBSET S
  BY <1>1
<1>7. QED
  BY <1>4, <1>5, <1>6

(* The equation, of the subsets one by one.                                 *)
SumOver(g, f, S) ==
    /\ g[{}] = 0
    /\ \A T \in SUBSET S : T # {} => Pick(T) \in T /\ g[T] = f[Pick(T)] + g[T \ {Pick(T)}]
    /\ SumFunction(f) = g[S]

LEMMA SumUnfold ==
    ASSUME NEW S, IsFiniteSet(S), NEW f, DOMAIN f = S
    PROVE  \E g : SumOver(g, f, S)
<1> DEFINE g == CHOOSE h : SumRuns(h, f, SUBSET S)
<1>1. SumRuns(g, f, SUBSET S)
  BY SumExists
<1>2. SumFunction(f) = g[S]
  BY DEF SumFunction, SumFunctionOnSet, FoldFunctionOnSet, MapThenFoldSet, SumRuns, Pick
<1> HIDE DEF g
<1>3. /\ g[{}] = 0
      /\ \A T \in SUBSET S : T # {} => g[T] = f[Pick(T)] + g[T \ {Pick(T)}]
  BY <1>1 DEF SumRuns
<1>4. \A T \in SUBSET S : T # {} => Pick(T) \in T
  BY DEF Pick
<1>5. QED
  BY <1>2, <1>3, <1>4 DEF SumOver

(* Sums of integers are integers, and larger values have larger sums.       *)
LEMMA SumMonotone ==
    ASSUME NEW S, IsFiniteSet(S), NEW f1 \in [S -> Int], NEW f2 \in [S -> Int],
           \A x \in S : f1[x] <= f2[x]
    PROVE  /\ SumFunction(f1) \in Int /\ SumFunction(f2) \in Int
           /\ SumFunction(f1) <= SumFunction(f2)
<1>1. DOMAIN f1 = S /\ DOMAIN f2 = S
  OBVIOUS
<1>2. PICK g1 : SumOver(g1, f1, S)
  BY <1>1, SumUnfold
<1>3. PICK g2 : SumOver(g2, f2, S)
  BY <1>1, SumUnfold
<1> DEFINE P == {T \in SUBSET S : g1[T] \in Int /\ g2[T] \in Int /\ g1[T] <= g2[T]}
<1>4. {} \in P
  BY <1>2, <1>3 DEF SumOver
<1>5. ASSUME NEW T \in SUBSET S, T # {}, T \ {Pick(T)} \in P
      PROVE  T \in P
  <2>1. /\ Pick(T) \in S
        /\ g1[T] = f1[Pick(T)] + g1[T \ {Pick(T)}]
        /\ g2[T] = f2[Pick(T)] + g2[T \ {Pick(T)}]
    BY <1>2, <1>3, <1>5 DEF SumOver
  <2>2. QED
    BY <2>1, <1>5
<1>6. SUBSET S \subseteq P
  <2> HIDE DEF P
  <2>1. QED
    BY <1>4, <1>5, AllSubsets
<1>7. QED
  BY <1>2, <1>3, <1>6 DEF SumOver

(* When one value changes, the sum changes by as much.                      *)
LEMMA SumChange ==
    ASSUME NEW S, IsFiniteSet(S), NEW f1 \in [S -> Int], NEW f2 \in [S -> Int], NEW p \in S,
           \A x \in S \ {p} : f1[x] = f2[x]
    PROVE  /\ SumFunction(f1) \in Int
           /\ SumFunction(f2) = SumFunction(f1) + (f2[p] - f1[p])
<1>1. DOMAIN f1 = S /\ DOMAIN f2 = S
  OBVIOUS
<1>2. PICK g1 : SumOver(g1, f1, S)
  BY <1>1, SumUnfold
<1>3. PICK g2 : SumOver(g2, f2, S)
  BY <1>1, SumUnfold
<1> DEFINE P == {T \in SUBSET S :
                    /\ g1[T] \in Int
                    /\ g2[T] = g1[T] + (IF p \in T THEN f2[p] - f1[p] ELSE 0)}
<1>4. {} \in P
  BY <1>2, <1>3 DEF SumOver
<1>5. ASSUME NEW T \in SUBSET S, T # {}, T \ {Pick(T)} \in P
      PROVE  T \in P
  <2>1. /\ Pick(T) \in T
        /\ g1[T] = f1[Pick(T)] + g1[T \ {Pick(T)}]
        /\ g2[T] = f2[Pick(T)] + g2[T \ {Pick(T)}]
    BY <1>2, <1>3, <1>5 DEF SumOver
  <2>2. f1[Pick(T)] \in Int /\ f2[Pick(T)] \in Int
    BY <2>1
  <2>3. CASE Pick(T) = p
    BY <2>1, <2>2, <2>3, <1>5
  <2>4. CASE Pick(T) # p
    <3>1. f1[Pick(T)] = f2[Pick(T)] /\ (p \in T <=> p \in T \ {Pick(T)})
      BY <2>1, <2>4
    <3>2. QED
      BY <2>1, <2>2, <3>1, <1>5
  <2>5. QED
    BY <2>3, <2>4
<1>6. SUBSET S \subseteq P
  <2> HIDE DEF P
  <2>1. QED
    BY <1>4, <1>5, AllSubsets
<1>7. S \in P
  BY <1>6
<1>8. QED
  BY <1>2, <1>3, <1>7 DEF SumOver

(* Natural numbers add up to at least each of them, zeros to zero.          *)
LEMMA SumOfNats ==
    ASSUME NEW S, IsFiniteSet(S), NEW f \in [S -> Nat]
    PROVE  /\ SumFunction(f) \in Nat
           /\ \A x \in S : f[x] <= SumFunction(f)
           /\ (\A x \in S : f[x] = 0) => SumFunction(f) = 0
<1>1. DOMAIN f = S
  OBVIOUS
<1>2. PICK g : SumOver(g, f, S)
  BY <1>1, SumUnfold
<1> DEFINE P == {T \in SUBSET S :
                    /\ g[T] \in Nat /\ \A x \in T : f[x] <= g[T]
                    /\ (\A x \in S : f[x] = 0) => g[T] = 0}
<1>3. {} \in P
  BY <1>2 DEF SumOver
<1>4. ASSUME NEW T \in SUBSET S, T # {}, T \ {Pick(T)} \in P
      PROVE  T \in P
  <2>1. Pick(T) \in T /\ g[T] = f[Pick(T)] + g[T \ {Pick(T)}]
    BY <1>2, <1>4 DEF SumOver
  <2>2. f[Pick(T)] \in Nat /\ \A x \in T : f[x] \in Nat
    BY <2>1
  <2>3. g[T] \in Nat /\ \A x \in T : f[x] <= g[T]
    BY <2>1, <2>2, <1>4
  <2>4. (\A x \in S : f[x] = 0) => g[T] = 0
    BY <2>1, <1>4
  <2>5. QED
    BY <2>3, <2>4
<1>5. SUBSET S \subseteq P
  <2> HIDE DEF P
  <2>1. QED
    BY <1>3, <1>4, AllSubsets
<1>6. S \in P
  BY <1>5
<1>7. QED
  BY <1>2, <1>6 DEF SumOver

-----------------------------------------------------------------------------
(* Greatest elements: a nonempty finite set of integers has one.            *)
LEMMA MaxOfFinite ==
    ASSUME NEW S, S \subseteq Int, IsFiniteSet(S), S # {}
    PROVE  Max(S) \in S /\ \A x \in S : Max(S) >= x
<1> DEFINE Without == {T \in SUBSET S : T # {} /\ ~ \E x \in T : \A y \in T : x >= y}
           Sizes == {Cardinality(T) : T \in Without}
<1>1. Without = {}
  <2> SUFFICES ASSUME Without # {} PROVE FALSE
    OBVIOUS
  <2>1. Sizes \subseteq Nat /\ Sizes # {}
    <3>1. \A T \in Without : Cardinality(T) \in Nat
      BY FS_Subset, FS_CardinalityType
    <3>2. QED
      BY <3>1
  <2>2. PICK n \in Sizes : \A k \in Sizes : n <= k
    <3> HIDE DEF Sizes
    <3>1. QED
      BY <2>1, LeastNat
  <2>3. PICK T \in Without : Cardinality(T) = n
    BY <2>2
  <2>4. PICK e \in T : TRUE
    OBVIOUS
  <2> DEFINE R == T \ {e}
  <2>5. IsFiniteSet(T) /\ Cardinality(R) = Cardinality(T) - 1 /\ Cardinality(T) \in Nat
    BY <2>4, FS_Subset, FS_RemoveElement, FS_CardinalityType
  <2>6. R \notin Without
    <3>1. Cardinality(R) \notin Sizes
      BY <2>1, <2>2, <2>3, <2>5
    <3>2. QED
      BY <3>1
  <2>7. CASE R = {}
    <3>1. T = {e} /\ e \in Int
      BY <2>4, <2>7
    <3>2. QED
      BY <3>1, <2>3
  <2>8. CASE R # {}
    <3>1. PICK x \in R : \A y \in R : x >= y
      BY <2>6, <2>8
    <3>2. \A y \in T : y = e \/ x >= y
      BY <3>1
    <3>3. \E z \in T : \A y \in T : z >= y
      BY <3>1, <3>2, <2>4
    <3>4. QED
      BY <3>3, <2>3
  <2>9. QED
    BY <2>7, <2>8
<1>2. \E x \in S : \A y \in S : x >= y
  BY <1>1
<1>3. QED
  BY <1>2 DEF Max

=============================================================================
