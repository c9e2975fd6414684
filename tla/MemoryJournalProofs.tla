-------------------------- MODULE MemoryJournalProofs --------------------------
(***************************************************************************)
(* Lemmas about the operators of MemoryJournal, for every set of runs,     *)
(* processes, workers and keys: what appending, claiming and importing do  *)
(* to an index.  The theorems about the journals that keep one rest on     *)
(* them.                                                                   *)
(***************************************************************************)
EXTENDS MemoryJournal, FiniteSetTheorems, SequenceTheorems, WellFoundedInduction, TLAPS

-----------------------------------------------------------------------------
(* Loops.  The journal's loops are folds, and a fold is evaluated from the *)
(* first element on: there are values h[0], ..., h[n] that lead from its   *)
(* base to its result.                                                     *)

\* A set of numbers has a least one.
LEMMA LeastNumber ==
    ASSUME NEW T \in SUBSET Nat, T # {}
    PROVE  \E x \in T : \A y \in T : x <= y
<1>. DEFINE R == OpToRel(<, Nat)
<1>1. \A x, y \in Nat : <<y, x>> \in R <=> y < x
  BY DEF OpToRel
<1>2. IsWellFoundedOn(R, Nat)
  BY NatLessThanWellFounded
<1>3. PICK x \in T : \A y \in T : ~ (<<y, x>> \in R)
  <2>. HIDE DEF R
  <2>. QED  BY <1>2, WFMin
<1>4. ASSUME NEW y \in T PROVE x <= y
  <2>1. x \in Nat /\ y \in Nat
    OBVIOUS
  <2>2. ~ (y < x)
    <3>. HIDE DEF R
    <3>. QED  BY <1>1, <1>3, <2>1
  <2>. QED  BY <2>1, <2>2
<1>. QED  BY <1>4

\* What holds of 0 and of the successor of what it holds of.
LEMMA UpTo ==
    ASSUME NEW n \in Nat, NEW S, 0 \in S, \A i \in 1..n : i - 1 \in S => i \in S
    PROVE  \A i \in 0..n : i \in S
<1>. DEFINE Missing == {i \in 0..n : i \notin S}
<1>. SUFFICES ASSUME Missing # {} PROVE FALSE
  OBVIOUS
<1>1. Missing \in SUBSET Nat
  OBVIOUS
<1>2. PICK i \in Missing : \A j \in Missing : i <= j
  <2>. HIDE DEF Missing
  <2>. QED  BY <1>1, LeastNumber
<1>3. i \in 1..n /\ i - 1 \in 0..n /\ ~ (i <= i - 1)
  OBVIOUS
<1>4. i - 1 \in S
  BY <1>2, <1>3
<1>. QED  BY <1>3, <1>4

\* Max chooses the greatest element of a bounded set.
LEMMA MaxOfBounded ==
    ASSUME NEW n \in Nat, NEW T \in SUBSET (0..n), T # {}
    PROVE  Max(T) \in T /\ \A y \in T : y <= Max(T)
<1>. DEFINE Bound == {m \in Nat : \A y \in T : y <= m}
<1>1. Bound \in SUBSET Nat /\ n \in Bound
  OBVIOUS
<1>2. PICK m \in Bound : \A k \in Bound : m <= k
  <2>. HIDE DEF Bound
  <2>. QED  BY <1>1, LeastNumber
<1>3. m \in T
  <2>. SUFFICES ASSUME m \notin T PROVE FALSE
    OBVIOUS
  <2>1. m \in Nat /\ \A y \in T : y <= m /\ y # m /\ y \in Nat
    BY <1>2
  <2>2. m # 0
    <3>1. PICK y \in T : TRUE
      OBVIOUS
    <3>. QED  BY <2>1, <3>1
  <2>3. m - 1 \in Bound
    BY <2>1, <2>2
  <2>. QED  BY <1>2, <2>1, <2>2, <2>3
<1>4. \A y \in T : m >= y /\ y \in Nat
  OBVIOUS
<1>5. Max(T) \in T /\ \A y \in T : Max(T) >= y
  BY <1>3, <1>4 DEF Max
<1>. QED  BY <1>5

\* The subsets of 1..n, whose greatest element a fold takes off.
LEMMA SubsetsUpTo ==
    ASSUME NEW n \in Nat, NEW T \in SUBSET (1..n), T # {}
    PROVE  /\ Max(T) \in T /\ Max(T) \in 1..n
           /\ T \ {Max(T)} \in SUBSET (1..n)
           /\ \A y \in T : y <= Max(T)
<1>1. T \in SUBSET (0..n)
  OBVIOUS
<1>2. Max(T) \in T /\ \A y \in T : y <= Max(T)
  BY <1>1, MaxOfBounded
<1>. QED  BY <1>2

LEMMA FirstNumbers ==
    ASSUME NEW n \in Nat, NEW i \in 1..n
    PROVE  /\ 1..i \in SUBSET (1..n) /\ 1..i # {}
           /\ Max(1..i) = i /\ (1..i) \ {i} = 1..(i-1)
           /\ i - 1 \in 0..n /\ i \in 0..n
<1>1. /\ \A j \in 1..i : j \in 1..n /\ j <= i
      /\ i \in 1..i
  OBVIOUS
<1>2. 1..i \in SUBSET (1..n) /\ 1..i # {}
  BY <1>1
<1>3. Max(1..i) \in 1..i /\ \A y \in 1..i : y <= Max(1..i)
  BY <1>2, SubsetsUpTo
<1>4. Max(1..i) = i
  BY <1>1, <1>3
<1>5. (1..i) \ {i} = 1..(i-1)
  OBVIOUS
<1>. QED  BY <1>2, <1>4, <1>5

\* g is the function that a fold of G over s is defined by.
IsFold(g, D, G, b, s, n) ==
    /\ g \in [SUBSET (1..n) -> D]
    /\ g[{}] = b
    /\ \A T \in SUBSET (1..n) : T # {} => g[T] = G[<<g[T \ {Max(T)}], s[Max(T)]>>]

\* Such a function exists.
LEMMA FoldExists ==
    ASSUME NEW D, NEW E, NEW G \in [D \X E -> D], NEW b \in D,
           NEW n \in Nat, NEW s \in [1..n -> E]
    PROVE  \E g : IsFold(g, D, G, b, s, n)
<1>. DEFINE S == {i \in 0..n : \E g : IsFold(g, D, G, b, s, i)}
<1>1. 0 \in S
  <2>. DEFINE g == [T \in SUBSET (1..0) |-> b]
  <2>1. IsFold(g, D, G, b, s, 0)
    <3>1. \A T \in SUBSET (1..0) : T = {}
      OBVIOUS
    <3>2. {} \in SUBSET (1..0)
      OBVIOUS
    <3>. QED  BY <3>1, <3>2 DEF IsFold
  <2>2. \E x : IsFold(x, D, G, b, s, 0)
    BY <2>1
  <2>. QED  BY <2>2
<1>2. ASSUME NEW i \in 1..n, i - 1 \in S
      PROVE  i \in S
  <2>1. PICK g : IsFold(g, D, G, b, s, i - 1)
    BY <1>2
  <2>2. /\ g \in [SUBSET (1..(i-1)) -> D] /\ g[{}] = b
        /\ \A T \in SUBSET (1..(i-1)) : T # {} => g[T] = G[<<g[T \ {Max(T)}], s[Max(T)]>>]
    BY <2>1 DEF IsFold
  <2>. DEFINE new == [T \in SUBSET (1..i) |->
                        IF i \in T THEN G[<<g[T \ {i}], s[i]>>] ELSE g[T]]
  <2>3. ASSUME NEW T \in SUBSET (1..i), i \notin T
        PROVE  T \in SUBSET (1..(i-1)) /\ new[T] = g[T]
    <3>1. \A j \in 1..i : j # i => j \in 1..(i-1)
      OBVIOUS
    <3>. QED  BY <2>3, <3>1
  <2>4. ASSUME NEW T \in SUBSET (1..i), i \in T
        PROVE  /\ Max(T) = i
               /\ g[T \ {i}] \in D
               /\ new[T \ {i}] = g[T \ {i}]
               /\ new[T] = G[<<g[T \ {i}], s[i]>>]
    <3>1. i \in Nat /\ \A j \in 1..i : j <= i
      OBVIOUS
    <3>2. Max(T) \in T /\ \A y \in T : y <= Max(T)
      BY <2>4, <3>1, SubsetsUpTo
    <3>3. Max(T) = i
      <4>1. Max(T) \in 1..i /\ i <= Max(T)
        BY <2>4, <3>2
      <4>. QED  BY <3>1, <4>1
    <3>4. T \ {i} \in SUBSET (1..i) /\ i \notin T \ {i}
      OBVIOUS
    <3>5. T \ {i} \in SUBSET (1..(i-1)) /\ new[T \ {i}] = g[T \ {i}]
      <4>. HIDE DEF new
      <4>. QED  BY <2>3, <3>4
    <3>6. new[T] = G[<<g[T \ {i}], s[i]>>]
      BY <2>4
    <3>. QED  BY <2>2, <3>3, <3>5, <3>6
  <2>5. new = [T \in SUBSET (1..i) |-> new[T]]
    OBVIOUS
  <2>. HIDE DEF new
  <2>6. s[i] \in E
    OBVIOUS
  <2>7. \A T \in SUBSET (1..i) : new[T] \in D
    <3>. SUFFICES ASSUME NEW T \in SUBSET (1..i) PROVE new[T] \in D
      OBVIOUS
    <3>1. CASE i \in T
      BY <2>4, <2>6, <3>1
    <3>2. CASE i \notin T
      BY <2>2, <2>3, <3>2
    <3>. QED  BY <3>1, <3>2
  <2>8. {} \in SUBSET (1..i) /\ i \notin {}
    OBVIOUS
  <2>9. ASSUME NEW T \in SUBSET (1..i), T # {}
        PROVE  new[T] = G[<<new[T \ {Max(T)}], s[Max(T)]>>]
    <3>1. CASE i \in T
      BY <2>4, <3>1
    <3>2. CASE i \notin T
      <4>1. T \in SUBSET (1..(i-1)) /\ new[T] = g[T]
        BY <2>3, <3>2
      <4>2. T \ {Max(T)} \in SUBSET (1..i) /\ i \notin T \ {Max(T)}
        BY <3>2
      <4>3. new[T \ {Max(T)}] = g[T \ {Max(T)}]
        BY <2>3, <4>2
      <4>. QED  BY <2>2, <2>9, <4>1, <4>3
    <3>. QED  BY <3>1, <3>2
  <2>10. new \in [SUBSET (1..i) -> D]
    BY <2>5, <2>7
  <2>11. new[{}] = b
    BY <2>2, <2>3, <2>8
  <2>12. IsFold(new, D, G, b, s, i)
    BY <2>9, <2>10, <2>11 DEF IsFold
  <2>13. i \in 0..n
    OBVIOUS
  <2>. QED  BY <2>12, <2>13
<1>3. \A i \in 0..n : i \in S
  <2>. HIDE DEF S
  <2>. QED  BY <1>1, <1>2, UpTo
<1>4. n \in S
  <2>. HIDE DEF S
  <2>. QED  BY <1>3
<1>. QED  BY <1>4

\* f recurses as that function does, as long as it stays in D.
Recurses(f, D, G, b, s, n) ==
    /\ f[{}] = b
    /\ \A T \in SUBSET (1..n) : T # {} /\ f[T \ {Max(T)}] \in D =>
           f[T] = G[<<f[T \ {Max(T)}], s[Max(T)]>>]

\* The values of f on 1..0, 1..1, ..., 1..n.
IsChain(h, f, D, G, b, s, n) ==
    /\ h \in [0..n -> D]
    /\ h[0] = b /\ h[n] = f[1..n]
    /\ \A i \in 1..n : h[i] = G[<<h[i-1], s[i]>>]

\* A function that recurses like this has them.
LEMMA FoldChain ==
    ASSUME NEW D, NEW E, NEW G \in [D \X E -> D], NEW b \in D,
           NEW n \in Nat, NEW s \in [1..n -> E], NEW f, Recurses(f, D, G, b, s, n)
    PROVE  \E h : IsChain(h, f, D, G, b, s, n)
<1>. DEFINE S == {i \in 0..n : f[1..i] \in D}
<1>1. 1..0 = {} /\ 0 \in 0..n /\ n \in 0..n
  OBVIOUS
<1>2. ASSUME NEW i \in 1..n, f[1..(i-1)] \in D
      PROVE  f[1..i] = G[<<f[1..(i-1)], s[i]>>]
  BY <1>2, FirstNumbers DEF Recurses
<1>3. \A i \in 0..n : i \in S
  <2>1. 0 \in S
    BY <1>1 DEF Recurses
  <2>2. ASSUME NEW i \in 1..n, i - 1 \in S
        PROVE  i \in S
    <3>1. f[1..(i-1)] \in D /\ s[i] \in E /\ i \in 0..n
      BY <2>2
    <3>. QED  BY <1>2, <3>1
  <2>. HIDE DEF S
  <2>. QED  BY <2>1, <2>2, UpTo
<1>. DEFINE h == [i \in 0..n |-> f[1..i]]
<1>4. h \in [0..n -> D] /\ h[0] = b /\ h[n] = f[1..n]
  BY <1>1, <1>3 DEF Recurses
<1>5. ASSUME NEW i \in 1..n PROVE h[i] = G[<<h[i-1], s[i]>>]
  <2>1. i \in 0..n /\ i - 1 \in 0..n
    BY FirstNumbers
  <2>2. f[1..(i-1)] \in D
    BY <1>3, <2>1
  <2>. QED  BY <1>2, <2>1, <2>2
<1>. HIDE DEF h
<1>6. IsChain(h, f, D, G, b, s, n)
  BY <1>4, <1>5 DEF IsChain
<1>. QED  BY <1>6

\* append_batch's loop.
Recording(b, s) == FoldLeft(RecordNext, b, s)

IsRecording(h, D, b, s) ==
    /\ h \in [0..Len(s) -> D]
    /\ h[0] = b /\ h[Len(s)] = Recording(b, s)
    /\ \A i \in 1..Len(s) : h[i] = RecordNext(h[i-1], s[i])

LEMMA RecordSteps ==
    ASSUME NEW D, NEW E, \A d \in D, e \in E : RecordNext(d, e) \in D,
           NEW b \in D, NEW s \in Seq(E)
    PROVE  \E h : IsRecording(h, D, b, s)
<1>. DEFINE n == Len(s)
            G == [x \in D \X E |-> RecordNext(x[1], x[2])]
            Is(g) == g = [T \in SUBSET DOMAIN s |->
                            IF T = {} THEN b
                            ELSE RecordNext(g[T \ {Max(T)}], s[Max(T)])]
            f == CHOOSE g : Is(g)
<1>1. n \in Nat /\ DOMAIN s = 1..n /\ s \in [1..n -> E] /\ G \in [D \X E -> D]
  OBVIOUS
<1>2. \A d \in D, e \in E : G[<<d, e>>] = RecordNext(d, e)
  OBVIOUS
<1>3. Recording(b, s) = f[DOMAIN s]
  BY DEF Recording, FoldLeft, MapThenFoldSet
<1>. HIDE DEF G, n
<1>4. \E g : Is(g)
  <2>1. PICK g : IsFold(g, D, G, b, s, n)
    BY <1>1, FoldExists
  <2>2. /\ g \in [SUBSET (1..n) -> D] /\ g[{}] = b
        /\ \A T \in SUBSET (1..n) : T # {} => g[T] = G[<<g[T \ {Max(T)}], s[Max(T)]>>]
    BY <2>1 DEF IsFold
  <2>3. ASSUME NEW T \in SUBSET (1..n), T # {}
        PROVE  g[T] = RecordNext(g[T \ {Max(T)}], s[Max(T)])
    <3>1. Max(T) \in 1..n /\ T \ {Max(T)} \in SUBSET (1..n)
      BY <1>1, <2>3, SubsetsUpTo
    <3>. QED  BY <1>1, <1>2, <2>2, <2>3, <3>1
  <2>4. g = [T \in SUBSET (1..n) |-> g[T]]
    BY <2>2
  <2>5. Is(g)
    BY <1>1, <2>2, <2>3, <2>4
  <2>. QED  BY <2>5
<1>5. Is(f)
  <2>. HIDE DEF Is
  <2>. QED  BY <1>4
<1>. HIDE DEF f
<1>6. f[{}] = b
  BY <1>1, <1>5
<1>7. ASSUME NEW T \in SUBSET (1..n), T # {}, f[T \ {Max(T)}] \in D
      PROVE  f[T] = G[<<f[T \ {Max(T)}], s[Max(T)]>>]
  <2>1. Max(T) \in 1..n
    BY <1>1, <1>7, SubsetsUpTo
  <2>2. f[T] = RecordNext(f[T \ {Max(T)}], s[Max(T)])
    BY <1>1, <1>5, <1>7
  <2>. QED  BY <1>1, <1>2, <1>7, <2>1, <2>2
<1>8. PICK h : IsChain(h, f, D, G, b, s, n)
  <2>1. Recurses(f, D, G, b, s, n)
    BY <1>6, <1>7 DEF Recurses
  <2>. QED  BY <1>1, <2>1, FoldChain
<1>9. /\ h \in [0..n -> D] /\ h[0] = b /\ h[n] = f[1..n]
      /\ \A i \in 1..n : h[i] = G[<<h[i-1], s[i]>>]
  BY <1>8 DEF IsChain
<1>10. \A i \in 1..n : h[i] = RecordNext(h[i-1], s[i])
  <2>. SUFFICES ASSUME NEW i \in 1..n PROVE h[i] = RecordNext(h[i-1], s[i])
    OBVIOUS
  <2>1. h[i-1] \in D /\ s[i] \in E
    BY <1>1, <1>9, FirstNumbers
  <2>. QED  BY <1>2, <1>9, <2>1
<1>. QED  BY <1>1, <1>3, <1>9, <1>10 DEF n, IsRecording

\* import_stored_batch's loop over the units of a batch.
ImportingUnits(b, s) == FoldLeft(ImportUnit, b, s)

IsImportingUnits(h, D, b, s) ==
    /\ h \in [0..Len(s) -> D]
    /\ h[0] = b /\ h[Len(s)] = ImportingUnits(b, s)
    /\ \A i \in 1..Len(s) : h[i] = ImportUnit(h[i-1], s[i])

LEMMA ImportUnitSteps ==
    ASSUME NEW D, NEW E, \A d \in D, e \in E : ImportUnit(d, e) \in D,
           NEW b \in D, NEW s \in Seq(E)
    PROVE  \E h : IsImportingUnits(h, D, b, s)
<1>. DEFINE n == Len(s)
            G == [x \in D \X E |-> ImportUnit(x[1], x[2])]
            Is(g) == g = [T \in SUBSET DOMAIN s |->
                            IF T = {} THEN b
                            ELSE ImportUnit(g[T \ {Max(T)}], s[Max(T)])]
            f == CHOOSE g : Is(g)
<1>1. n \in Nat /\ DOMAIN s = 1..n /\ s \in [1..n -> E] /\ G \in [D \X E -> D]
  OBVIOUS
<1>2. \A d \in D, e \in E : G[<<d, e>>] = ImportUnit(d, e)
  OBVIOUS
<1>3. ImportingUnits(b, s) = f[DOMAIN s]
  BY DEF ImportingUnits, FoldLeft, MapThenFoldSet
<1>. HIDE DEF G, n
<1>4. \E g : Is(g)
  <2>1. PICK g : IsFold(g, D, G, b, s, n)
    BY <1>1, FoldExists
  <2>2. /\ g \in [SUBSET (1..n) -> D] /\ g[{}] = b
        /\ \A T \in SUBSET (1..n) : T # {} => g[T] = G[<<g[T \ {Max(T)}], s[Max(T)]>>]
    BY <2>1 DEF IsFold
  <2>3. ASSUME NEW T \in SUBSET (1..n), T # {}
        PROVE  g[T] = ImportUnit(g[T \ {Max(T)}], s[Max(T)])
    <3>1. Max(T) \in 1..n /\ T \ {Max(T)} \in SUBSET (1..n)
      BY <1>1, <2>3, SubsetsUpTo
    <3>. QED  BY <1>1, <1>2, <2>2, <2>3, <3>1
  <2>4. g = [T \in SUBSET (1..n) |-> g[T]]
    BY <2>2
  <2>5. Is(g)
    BY <1>1, <2>2, <2>3, <2>4
  <2>. QED  BY <2>5
<1>5. Is(f)
  <2>. HIDE DEF Is
  <2>. QED  BY <1>4
<1>. HIDE DEF f
<1>6. f[{}] = b
  BY <1>1, <1>5
<1>7. ASSUME NEW T \in SUBSET (1..n), T # {}, f[T \ {Max(T)}] \in D
      PROVE  f[T] = G[<<f[T \ {Max(T)}], s[Max(T)]>>]
  <2>1. Max(T) \in 1..n
    BY <1>1, <1>7, SubsetsUpTo
  <2>2. f[T] = ImportUnit(f[T \ {Max(T)}], s[Max(T)])
    BY <1>1, <1>5, <1>7
  <2>. QED  BY <1>1, <1>2, <1>7, <2>1, <2>2
<1>8. PICK h : IsChain(h, f, D, G, b, s, n)
  <2>1. Recurses(f, D, G, b, s, n)
    BY <1>6, <1>7 DEF Recurses
  <2>. QED  BY <1>1, <2>1, FoldChain
<1>9. /\ h \in [0..n -> D] /\ h[0] = b /\ h[n] = f[1..n]
      /\ \A i \in 1..n : h[i] = G[<<h[i-1], s[i]>>]
  BY <1>8 DEF IsChain
<1>10. \A i \in 1..n : h[i] = ImportUnit(h[i-1], s[i])
  <2>. SUFFICES ASSUME NEW i \in 1..n PROVE h[i] = ImportUnit(h[i-1], s[i])
    OBVIOUS
  <2>1. h[i-1] \in D /\ s[i] \in E
    BY <1>1, <1>9, FirstNumbers
  <2>. QED  BY <1>2, <1>9, <2>1
<1>. QED  BY <1>1, <1>3, <1>9, <1>10 DEF n, IsImportingUnits

\* _load's loop over the lines of a file.
Importing(b, s) == FoldLeft(Import, b, s)

IsImporting(h, D, b, s) ==
    /\ h \in [0..Len(s) -> D]
    /\ h[0] = b /\ h[Len(s)] = Importing(b, s)
    /\ \A i \in 1..Len(s) : h[i] = Import(h[i-1], s[i])

LEMMA ImportSteps ==
    ASSUME NEW D, NEW E, \A d \in D, e \in E : Import(d, e) \in D,
           NEW b \in D, NEW s \in Seq(E)
    PROVE  \E h : IsImporting(h, D, b, s)
<1>. DEFINE n == Len(s)
            G == [x \in D \X E |-> Import(x[1], x[2])]
            Is(g) == g = [T \in SUBSET DOMAIN s |->
                            IF T = {} THEN b
                            ELSE Import(g[T \ {Max(T)}], s[Max(T)])]
            f == CHOOSE g : Is(g)
<1>1. n \in Nat /\ DOMAIN s = 1..n /\ s \in [1..n -> E] /\ G \in [D \X E -> D]
  OBVIOUS
<1>2. \A d \in D, e \in E : G[<<d, e>>] = Import(d, e)
  OBVIOUS
<1>3. Importing(b, s) = f[DOMAIN s]
  BY DEF Importing, FoldLeft, MapThenFoldSet
<1>. HIDE DEF G, n
<1>4. \E g : Is(g)
  <2>1. PICK g : IsFold(g, D, G, b, s, n)
    BY <1>1, FoldExists
  <2>2. /\ g \in [SUBSET (1..n) -> D] /\ g[{}] = b
        /\ \A T \in SUBSET (1..n) : T # {} => g[T] = G[<<g[T \ {Max(T)}], s[Max(T)]>>]
    BY <2>1 DEF IsFold
  <2>3. ASSUME NEW T \in SUBSET (1..n), T # {}
        PROVE  g[T] = Import(g[T \ {Max(T)}], s[Max(T)])
    <3>1. Max(T) \in 1..n /\ T \ {Max(T)} \in SUBSET (1..n)
      BY <1>1, <2>3, SubsetsUpTo
    <3>. QED  BY <1>1, <1>2, <2>2, <2>3, <3>1
  <2>4. g = [T \in SUBSET (1..n) |-> g[T]]
    BY <2>2
  <2>5. Is(g)
    BY <1>1, <2>2, <2>3, <2>4
  <2>. QED  BY <2>5
<1>5. Is(f)
  <2>. HIDE DEF Is
  <2>. QED  BY <1>4
<1>. HIDE DEF f
<1>6. f[{}] = b
  BY <1>1, <1>5
<1>7. ASSUME NEW T \in SUBSET (1..n), T # {}, f[T \ {Max(T)}] \in D
      PROVE  f[T] = G[<<f[T \ {Max(T)}], s[Max(T)]>>]
  <2>1. Max(T) \in 1..n
    BY <1>1, <1>7, SubsetsUpTo
  <2>2. f[T] = Import(f[T \ {Max(T)}], s[Max(T)])
    BY <1>1, <1>5, <1>7
  <2>. QED  BY <1>1, <1>2, <1>7, <2>1, <2>2
<1>8. PICK h : IsChain(h, f, D, G, b, s, n)
  <2>1. Recurses(f, D, G, b, s, n)
    BY <1>6, <1>7 DEF Recurses
  <2>. QED  BY <1>1, <2>1, FoldChain
<1>9. /\ h \in [0..n -> D] /\ h[0] = b /\ h[n] = f[1..n]
      /\ \A i \in 1..n : h[i] = G[<<h[i-1], s[i]>>]
  BY <1>8 DEF IsChain
<1>10. \A i \in 1..n : h[i] = Import(h[i-1], s[i])
  <2>. SUFFICES ASSUME NEW i \in 1..n PROVE h[i] = Import(h[i-1], s[i])
    OBVIOUS
  <2>1. h[i-1] \in D /\ s[i] \in E
    BY <1>1, <1>9, FirstNumbers
  <2>. QED  BY <1>2, <1>9, <2>1
<1>. QED  BY <1>1, <1>3, <1>9, <1>10 DEF n, IsImporting

-----------------------------------------------------------------------------
(* What an index never loses.                                              *)

\* The later index has the batches, the commands and at least the numbers of
\* the earlier one.
Grows(index, later) ==
    /\ Range(index.batches) \subseteq Range(later.batches)
    /\ index.commands \subseteq later.commands
    /\ index.seq <= later.seq
    /\ \A r \in Run : index.last[r] <= later.last[r]

LEMMA GrowsItself ==
    ASSUME NEW index \in Index PROVE Grows(index, index)
BY DEF Index, Grows

LEMMA GrowsTransitive ==
    ASSUME NEW a \in Index, NEW b \in Index, NEW c \in Index, Grows(a, b), Grows(b, c)
    PROVE  Grows(a, c)
<1>1. /\ a.seq \in Nat /\ b.seq \in Nat /\ c.seq \in Nat
      /\ \A r \in Run : a.last[r] \in Nat /\ b.last[r] \in Nat /\ c.last[r] \in Nat
  BY DEF Index
<1>. QED  BY <1>1 DEF Grows

-----------------------------------------------------------------------------
(* One unit.                                                               *)

\* _assign_events gives a unit the next numbers of its run.
LEMMA NumberedUnit ==
    ASSUME NEW index \in Index, NEW unit \in StoredUnit
    PROVE  /\ Numbered(index, unit) \in StoredUnit
           /\ Numbered(index, unit).run = unit.run
           /\ Numbered(index, unit).key = unit.key
           /\ Command(Numbered(index, unit)) = Command(unit)
           /\ DOMAIN Numbered(index, unit).events = DOMAIN unit.events
           /\ Len(Numbered(index, unit).events) = Len(unit.events)
           /\ \A e \in DOMAIN unit.events :
                  Numbered(index, unit).events[e] = index.last[unit.run] + e
<1>. DEFINE new == [i \in DOMAIN unit.events |-> index.last[unit.run] + i]
<1>1. /\ unit.run \in Run /\ unit.key \in Key /\ unit.events \in Seq(Nat)
      /\ DOMAIN unit = {"run", "key", "events"}
  BY DEF StoredUnit
<1>2. DOMAIN unit.events = 1..Len(unit.events) /\ Len(unit.events) \in Nat
  BY <1>1
<1>3. index.last[unit.run] \in Nat
  BY <1>1 DEF Index
<1>4. new \in Seq(Nat) /\ DOMAIN new = DOMAIN unit.events /\ Len(new) = Len(unit.events)
  <2>1. \A i \in 1..Len(unit.events) : index.last[unit.run] + i \in Nat
    BY <1>2, <1>3
  <2>2. new \in [1..Len(unit.events) -> Nat]
    BY <1>2, <2>1
  <2>. HIDE DEF new
  <2>. QED  BY <1>2, <2>2
<1>5. Numbered(index, unit) = [unit EXCEPT !.events = new]
  BY DEF Numbered
<1>6. \A e \in DOMAIN unit.events : new[e] = index.last[unit.run] + e
  OBVIOUS
<1>. HIDE DEF new
<1>7. [unit EXCEPT !.events = new] \in StoredUnit
  BY <1>1, <1>4 DEF StoredUnit
<1>8. /\ Numbered(index, unit).events = new
      /\ Numbered(index, unit).run = unit.run
      /\ Numbered(index, unit).key = unit.key
  BY <1>1, <1>5
<1>. QED  BY <1>4, <1>5, <1>6, <1>7, <1>8 DEF Command

\* The events of a unit as the index keeps them.
LEMMA EventsOfUnit ==
    ASSUME NEW unit \in StoredUnit
    PROVE  EventsOf(unit) \in Seq([key : Key, sequence : Nat])
<1>1. unit.key \in Key /\ unit.events \in Seq(Nat)
  BY DEF StoredUnit
<1>2. \A i \in 1..Len(unit.events) : unit.events[i] \in Nat
  BY <1>1
<1>3. DOMAIN unit.events = 1..Len(unit.events) /\ Len(unit.events) \in Nat
  BY <1>1
<1>. DEFINE new == [i \in 1..Len(unit.events) |-> [key |-> unit.key, sequence |-> unit.events[i]]]
<1>4. new \in [1..Len(unit.events) -> [key : Key, sequence : Nat]]
  BY <1>1, <1>2
<1>5. EventsOf(unit) = new
  BY <1>3 DEF EventsOf
<1>. HIDE DEF new
<1>6. \A S : new \in [1..Len(unit.events) -> S] => new \in Seq(S)
  BY <1>3
<1>. QED  BY <1>4, <1>5, <1>6

\* What recording a unit leaves alone, and what it adds.
LEMMA RecordedUnit ==
    ASSUME NEW index \in Index, NEW unit \in StoredUnit
    PROVE  LET new == Recorded(index, unit)
           IN  /\ new \in Index
               /\ new.seq = index.seq /\ new.batches = index.batches
               /\ new.processes = index.processes
               /\ new.commands = index.commands \cup {Command(unit)}
               /\ new.events = [index.events EXCEPT ![unit.run] = @ \o EventsOf(unit)]
               /\ new.last = [index.last EXCEPT ![unit.run] = @ + Len(unit.events)]
<1>. DEFINE commands == index.commands \cup {Command(unit)}
            events == [index.events EXCEPT ![unit.run] = @ \o EventsOf(unit)]
            last == [index.last EXCEPT ![unit.run] = @ + Len(unit.events)]
<1>1. unit.run \in Run /\ unit.key \in Key /\ Len(unit.events) \in Nat
  BY DEF StoredUnit
<1>2. /\ index.commands \in SUBSET (Run \X Key) /\ index.last \in [Run -> Nat]
      /\ index.events \in [Run -> Seq([key : Key, sequence : Nat])]
      /\ DOMAIN index = {"seq", "batches", "commands", "events", "last", "processes"}
  BY DEF Index
<1>3. commands \in SUBSET (Run \X Key)
  <2>1. <<unit.run, unit.key>> \in Run \X Key
    BY <1>1
  <2>. QED  BY <1>2, <2>1 DEF Command
<1>4. events \in [Run -> Seq([key : Key, sequence : Nat])]
  <2>. DEFINE Row == [key : Key, sequence : Nat]
  <2>1. index.events[unit.run] \in Seq(Row) /\ EventsOf(unit) \in Seq(Row)
    BY <1>1, <1>2, EventsOfUnit
  <2>. HIDE DEF Row
  <2>2. index.events[unit.run] \o EventsOf(unit) \in Seq(Row)
    BY <2>1, ConcatProperties
  <2>3. index.events \in [Run -> Seq(Row)]
    BY <1>2 DEF Row
  <2>4. events \in [Run -> Seq(Row)]
    BY <2>2, <2>3
  <2>. QED  BY <2>4 DEF Row
<1>5. last \in [Run -> Nat]
  BY <1>1, <1>2
<1>6. Recorded(index, unit) =
        [index EXCEPT !.commands = commands, !.events = events, !.last = last]
  BY <1>2 DEF Recorded
<1>. HIDE DEF commands, events, last
<1>. QED  BY <1>2, <1>3, <1>4, <1>5, <1>6 DEF Index, commands, events, last

-----------------------------------------------------------------------------
(* append_batch.                                                           *)

\* Where its loop stands.
Loop == [index : Index, units : Seq(StoredUnit), stopped : BOOLEAN]

Start(index) == [index |-> index, units |-> <<>>, stopped |-> FALSE]

\* No command is on two of the units.
UnitsOnce(units) ==
    \A i, j \in DOMAIN units : Command(units[i]) = Command(units[j]) => i = j

\* The events of each run are numbered upwards, within a unit and from unit to unit.
UnitsRise(units) ==
    \A i, j \in DOMAIN units :
        units[i].run = units[j].run =>
            \A e \in DOMAIN units[i].events, f \in DOMAIN units[j].events :
                i < j \/ (i = j /\ e < f) => units[i].events[e] < units[j].events[f]

\* The unit is in the later index and not in the earlier one.
UnitAdded(index, later, unit) ==
    /\ Command(unit) \in later.commands \ index.commands
    /\ \A e \in DOMAIN unit.events :
           index.last[unit.run] < unit.events[e] /\ unit.events[e] <= later.last[unit.run]

\* What holds of the loop over an index before every turn.
Kept(index, done) ==
    /\ done.index.seq = index.seq
    /\ done.index.batches = index.batches
    /\ done.index.processes = index.processes
    /\ index.commands \subseteq done.index.commands
    /\ \A r \in Run : index.last[r] <= done.index.last[r]
    /\ \A i \in DOMAIN done.units : UnitAdded(index, done.index, done.units[i])
    /\ UnitsOnce(done.units)
    /\ UnitsRise(done.units)

\* The turn that stops changes nothing else.
LEMMA RecordStops ==
    ASSUME NEW done \in Loop, NEW unit \in StoredUnit,
           done.stopped \/ Command(unit) \in done.index.commands
    PROVE  /\ RecordNext(done, unit) \in Loop
           /\ RecordNext(done, unit).index = done.index
           /\ RecordNext(done, unit).units = done.units
           /\ RecordNext(done, unit).stopped
<1>1. RecordNext(done, unit) = [done EXCEPT !.stopped = TRUE]
  BY DEF RecordNext
<1>. QED  BY <1>1 DEF Loop

\* The turn that goes on records one numbered unit.
LEMMA RecordGoes ==
    ASSUME NEW done \in Loop, NEW unit \in StoredUnit,
           ~ done.stopped, Command(unit) \notin done.index.commands
    PROVE  /\ RecordNext(done, unit) \in Loop
           /\ RecordNext(done, unit).index = Recorded(done.index, Numbered(done.index, unit))
           /\ RecordNext(done, unit).units = Append(done.units, Numbered(done.index, unit))
           /\ ~ RecordNext(done, unit).stopped
<1>. DEFINE new == Numbered(done.index, unit)
            index == Recorded(done.index, new)
            units == Append(done.units, new)
<1>1. done.index \in Index /\ done.units \in Seq(StoredUnit) /\ done.stopped \in BOOLEAN
  BY DEF Loop
<1>2. new \in StoredUnit
  BY <1>1, NumberedUnit
<1>3. index \in Index
  BY <1>1, <1>2, RecordedUnit
<1>4. units \in Seq(StoredUnit)
  BY <1>1, <1>2
<1>5. RecordNext(done, unit) = [done EXCEPT !.index = index, !.units = units]
  BY DEF RecordNext, Loop
<1>. HIDE DEF new, index, units
<1>6. RecordNext(done, unit) = [index |-> index, units |-> units, stopped |-> FALSE]
  BY <1>1, <1>5 DEF Loop
<1>. QED  BY <1>3, <1>4, <1>6 DEF Loop, new, index, units

\* Every turn keeps what the loop keeps.
LEMMA RecordKeeps ==
    ASSUME NEW index \in Index, NEW done \in Loop, NEW unit \in StoredUnit,
           Kept(index, done)
    PROVE  RecordNext(done, unit) \in Loop /\ Kept(index, RecordNext(done, unit))
<1>1. CASE done.stopped \/ Command(unit) \in done.index.commands
  <2>1. PICK new \in Loop : /\ new = RecordNext(done, unit)
                            /\ new.index = done.index /\ new.units = done.units
    BY <1>1, RecordStops
  <2>2. Kept(index, new)
    BY <2>1 DEF Kept
  <2>. QED  BY <2>1, <2>2
<1>2. CASE ~ done.stopped /\ Command(unit) \notin done.index.commands
  <2>1. done.index \in Index /\ done.units \in Seq(StoredUnit)
    BY DEF Loop
  <2>2. PICK added \in StoredUnit :
               /\ added = Numbered(done.index, unit)
               /\ Command(added) = Command(unit) /\ added.run \in Run
               /\ \A e \in DOMAIN added.events :
                      added.events[e] = done.index.last[added.run] + e
    <3>1. PICK added \in StoredUnit : added = Numbered(done.index, unit)
      BY <2>1, NumberedUnit
    <3>2. /\ added.run = unit.run /\ Command(added) = Command(unit)
          /\ DOMAIN added.events = DOMAIN unit.events
          /\ \A e \in DOMAIN unit.events : added.events[e] = done.index.last[unit.run] + e
      BY <2>1, <3>1, NumberedUnit
    <3>3. added.run \in Run
      BY DEF StoredUnit
    <3>. QED  BY <3>1, <3>2, <3>3
  <2>3. PICK later \in Index :
               /\ later = Recorded(done.index, added)
               /\ later.seq = done.index.seq /\ later.batches = done.index.batches
               /\ later.processes = done.index.processes
               /\ later.commands = done.index.commands \cup {Command(added)}
               /\ later.last = [done.index.last EXCEPT ![added.run] = @ + Len(added.events)]
    <3>1. PICK later \in Index : later = Recorded(done.index, added)
      BY <2>1, RecordedUnit
    <3>2. /\ later.seq = done.index.seq /\ later.batches = done.index.batches
          /\ later.processes = done.index.processes
          /\ later.commands = done.index.commands \cup {Command(added)}
          /\ later.last = [done.index.last EXCEPT ![added.run] = @ + Len(added.events)]
      BY <2>1, <3>1, RecordedUnit
    <3>. QED  BY <3>1, <3>2
  <2>4. PICK new \in Loop : /\ new = RecordNext(done, unit)
                            /\ new.index = later /\ new.units = Append(done.units, added)
    BY <1>2, <2>2, <2>3, RecordGoes
  <2>5. /\ \A r \in Run : index.last[r] \in Nat /\ done.index.last[r] \in Nat
                          /\ later.last[r] \in Nat
        /\ done.index.last \in [Run -> Nat]
    BY <2>1 DEF Index
  <2>6. Len(added.events) \in Nat /\ DOMAIN added.events = 1..Len(added.events)
    BY DEF StoredUnit
  <2>7. \A r \in Run : done.index.last[r] <= later.last[r] /\ index.last[r] <= later.last[r]
    <3>1. ASSUME NEW r \in Run
          PROVE  later.last[r] = IF r = added.run THEN done.index.last[r] + Len(added.events)
                                 ELSE done.index.last[r]
      BY <2>3, <2>5
    <3>2. \A r \in Run : index.last[r] <= done.index.last[r]
      BY DEF Kept
    <3>. QED  BY <2>5, <2>6, <3>1, <3>2
  <2>8. later.last[added.run] = done.index.last[added.run] + Len(added.events)
    BY <2>2, <2>3, <2>5
  <2>9. \A e \in DOMAIN added.events :
            /\ added.events[e] \in Nat
            /\ done.index.last[added.run] < added.events[e]
            /\ index.last[added.run] < added.events[e]
            /\ added.events[e] <= later.last[added.run]
    <3>. SUFFICES ASSUME NEW e \in DOMAIN added.events
                  PROVE  /\ added.events[e] \in Nat
                         /\ done.index.last[added.run] < added.events[e]
                         /\ index.last[added.run] < added.events[e]
                         /\ added.events[e] <= later.last[added.run]
      OBVIOUS
    <3>1. e \in Nat /\ 0 < e /\ e <= Len(added.events)
      BY <2>6
    <3>2. added.events[e] = done.index.last[added.run] + e /\ added.run \in Run
      BY <2>2
    <3>3. /\ index.last[added.run] \in Nat /\ done.index.last[added.run] \in Nat
          /\ index.last[added.run] <= done.index.last[added.run]
      BY <2>5, <3>2 DEF Kept
    <3>4. PICK i \in Nat, d \in Nat, n \in Nat :
              /\ i = index.last[added.run] /\ d = done.index.last[added.run]
              /\ n = Len(added.events)
      BY <2>6, <3>3
    <3>5. i <= d /\ added.events[e] = d + e /\ later.last[added.run] = d + n /\ e <= n
      BY <2>8, <3>1, <3>2, <3>3, <3>4
    <3>6. d + e \in Nat /\ d < d + e /\ i < d + e /\ d + e <= d + n
      BY <3>1, <3>5
    <3>. QED  BY <3>4, <3>5, <3>6
  <2>10. /\ Len(done.units) \in Nat /\ DOMAIN done.units = 1..Len(done.units)
         /\ DOMAIN new.units = 1..(Len(done.units) + 1)
         /\ new.units[Len(done.units) + 1] = added
         /\ \A i \in DOMAIN done.units : i \in DOMAIN new.units /\ new.units[i] = done.units[i]
         /\ \A i \in DOMAIN new.units : i \in DOMAIN done.units \/ i = Len(done.units) + 1
    <3>1. /\ Len(new.units) = Len(done.units) + 1
          /\ \A i \in 1..Len(done.units) : new.units[i] = done.units[i]
          /\ new.units[Len(done.units) + 1] = added
      BY <2>1, <2>4, AppendProperties
    <3>2. /\ Len(done.units) \in Nat /\ DOMAIN done.units = 1..Len(done.units)
          /\ DOMAIN new.units = 1..Len(new.units)
      BY <2>1 DEF Loop
    <3>. QED  BY <3>1, <3>2
  <2>11. \A i \in DOMAIN done.units :
            /\ done.units[i].run \in Run
            /\ \A e \in DOMAIN done.units[i].events : done.units[i].events[e] \in Nat
    <3>. SUFFICES ASSUME NEW i \in DOMAIN done.units
                  PROVE  /\ done.units[i].run \in Run
                         /\ \A e \in DOMAIN done.units[i].events :
                                done.units[i].events[e] \in Nat
      OBVIOUS
    <3>1. PICK u \in StoredUnit : u = done.units[i]
      BY <2>1
    <3>2. u.run \in Run /\ \A e \in DOMAIN u.events : u.events[e] \in Nat
      BY DEF StoredUnit
    <3>. QED  BY <3>1, <3>2
  <2>12. \A i \in DOMAIN new.units : UnitAdded(index, later, new.units[i])
    <3>1. UnitAdded(index, later, added)
      BY <1>2, <2>2, <2>3, <2>9 DEF Kept, UnitAdded
    <3>2. ASSUME NEW i \in DOMAIN done.units
          PROVE  UnitAdded(index, later, done.units[i])
      <4>1. UnitAdded(index, done.index, done.units[i])
        BY DEF Kept
      <4>. QED  BY <2>3, <2>5, <2>7, <2>11, <4>1 DEF UnitAdded
    <3>. QED  BY <2>10, <3>1, <3>2
  <2>13. UnitsOnce(new.units)
    <3>1. ASSUME NEW i \in DOMAIN done.units
          PROVE  Command(done.units[i]) # Command(added)
      BY <1>2, <2>2 DEF Kept, UnitAdded
    <3>2. UnitsOnce(done.units)
      BY DEF Kept
    <3>. QED  BY <2>10, <3>1, <3>2 DEF UnitsOnce
  <2>14. UnitsRise(new.units)
    <3>. SUFFICES ASSUME NEW i \in DOMAIN new.units, NEW j \in DOMAIN new.units,
                         new.units[i].run = new.units[j].run,
                         NEW e \in DOMAIN new.units[i].events,
                         NEW f \in DOMAIN new.units[j].events,
                         i < j \/ (i = j /\ e < f)
                  PROVE  new.units[i].events[e] < new.units[j].events[f]
      BY DEF UnitsRise
    <3>1. CASE j \in DOMAIN done.units
      <4>1. i \in DOMAIN done.units
        BY <2>10, <3>1
      <4>. QED  BY <2>10, <3>1, <4>1 DEF Kept, UnitsRise
    <3>2. CASE j = Len(done.units) + 1 /\ i \in DOMAIN done.units
      <4>1. done.units[i].events[e] <= done.index.last[done.units[i].run]
        BY <2>10, <3>2 DEF Kept, UnitAdded
      <4>2. /\ new.units[i] = done.units[i] /\ new.units[j] = added
            /\ done.units[i].run = added.run
        BY <2>10, <3>2
      <4>3. f \in DOMAIN added.events /\ e \in DOMAIN done.units[i].events
        BY <4>2
      <4>4. added.events[f] \in Nat /\ done.index.last[added.run] < added.events[f]
        BY <2>9, <4>3
      <4>5. done.units[i].events[e] \in Nat /\ done.index.last[added.run] \in Nat
        BY <2>2, <2>5, <2>11, <3>2, <4>3
      <4>. QED  BY <4>1, <4>2, <4>4, <4>5
    <3>3. CASE j = Len(done.units) + 1 /\ i = j
      <4>1. e \in Nat /\ f \in Nat /\ e < f
        BY <2>6, <2>10, <3>3
      <4>. QED  BY <2>2, <2>5, <2>10, <3>3, <4>1
    <3>. QED  BY <2>10, <3>1, <3>2, <3>3
  <2>15. Kept(index, new)
    BY <2>3, <2>4, <2>7, <2>12, <2>13, <2>14 DEF Kept
  <2>. QED  BY <2>4, <2>15
<1>. QED  BY <1>1, <1>2 DEF Loop

\* The loop ends over an index that has what it recorded, and nothing lost.
LEMMA LoopKeeps ==
    ASSUME NEW index \in Index, NEW units \in Seq(StoredUnit)
    PROVE  Recording(Start(index), units) \in Loop
           /\ Kept(index, Recording(Start(index), units))
<1>. DEFINE D == {done \in Loop : Kept(index, done)}
<1>1. Start(index) \in Loop
  BY EmptySeq DEF Start, Loop
<1>2. Kept(index, Start(index))
  <2>1. \A r \in Run : index.last[r] \in Nat
    BY DEF Index
  <2>. QED  BY <2>1 DEF Start, Kept, UnitsOnce, UnitsRise
<1>3. \A done \in D, unit \in StoredUnit : RecordNext(done, unit) \in D
  BY RecordKeeps
<1>4. Start(index) \in D
  BY <1>1, <1>2
<1>5. Recording(Start(index), units) \in D
  <2>. HIDE DEF D
  <2>1. PICK h : IsRecording(h, D, Start(index), units)
    BY <1>3, <1>4, RecordSteps
  <2>2. Len(units) \in 0..Len(units)
    OBVIOUS
  <2>. QED  BY <2>1, <2>2 DEF IsRecording
<1>. QED  BY <1>5

\* A batch that the later index has accepted after the earlier one.
BatchAdded(index, later, batch) ==
    /\ batch.seq = index.seq + 1 /\ later.seq = batch.seq
    /\ batch \in Range(later.batches)
    /\ \A i \in DOMAIN batch.units : UnitAdded(index, later, batch.units[i])
    /\ UnitsOnce(batch.units) /\ UnitsRise(batch.units)

\* append_batch either accepts its batch whole, or leaves batches and numbers of
\* batches alone; it never loses anything, and touches no process.
LEMMA Appending ==
    ASSUME NEW index \in Index, NEW batch \in StoredBatch
    PROVE  LET done == AppendBatch(index, batch)
           IN  /\ done.index \in Index
               /\ Grows(index, done.index)
               /\ done.index.processes = index.processes
               /\ done.answer \in {"accepted", "replayed", "raised"}
               /\ done.answer = "accepted" =>
                      done.batch \in StoredBatch /\ BatchAdded(index, done.index, done.batch)
<1>. DEFINE loop == Recording(Start(index), batch.units)
            stored == [batch EXCEPT !.seq = index.seq + 1, !.units = loop.units]
            kept == [loop.index EXCEPT !.seq = index.seq + 1, !.batches = Append(@, stored)]
            done == AppendBatch(index, batch)
<1>1. /\ index.seq \in Nat /\ index.batches \in Seq(StoredBatch)
      /\ \A r \in Run : index.last[r] \in Nat
  BY DEF Index
<1>2. batch.units \in Seq(StoredUnit)
  BY DEF StoredBatch
<1>3. loop \in Loop /\ Kept(index, loop)
  BY <1>2, LoopKeeps
<1>4. \/ done = [index |-> index, answer |-> "replayed", batch |-> batch]
      \/ done = [index |-> index, answer |-> "raised", batch |-> batch]
      \/ done = [index |-> loop.index, answer |-> "raised", batch |-> batch]
      \/ done = [index |-> kept, answer |-> "accepted", batch |-> stored]
  <2>. DEFINE replayed == Replays(index, batch)
              follows == HasKnownFollower(index, batch)
  <2>1. done = CASE replayed -> [index |-> index, answer |-> "replayed", batch |-> batch]
                 [] ~ replayed /\ follows ->
                        [index |-> index, answer |-> "raised", batch |-> batch]
                 [] ~ replayed /\ ~ follows /\ loop.stopped ->
                        [index |-> loop.index, answer |-> "raised", batch |-> batch]
                 [] OTHER -> [index |-> kept, answer |-> "accepted", batch |-> stored]
    BY DEF AppendBatch, Start, Recording
  <2>. HIDE DEF replayed, follows, loop, kept, stored, done
  <2>. QED  BY <2>1
<1>. HIDE DEF loop
<1>5. loop.index \in Index /\ loop.units \in Seq(StoredUnit)
  BY <1>3 DEF Loop
<1>6. stored \in StoredBatch /\ stored.seq = index.seq + 1 /\ stored.units = loop.units
  <2>1. PICK seq \in Nat : seq = index.seq + 1
    BY <1>1
  <2>2. PICK units \in Seq(StoredUnit) : units = loop.units
    BY <1>5
  <2>3. stored = [batch EXCEPT !.seq = seq, !.units = units]
    BY <2>1, <2>2
  <2>. HIDE DEF stored
  <2>. QED  BY <2>1, <2>2, <2>3 DEF StoredBatch
<1>7. /\ kept \in Index /\ kept.seq = index.seq + 1
      /\ kept.batches = Append(loop.index.batches, stored)
      /\ kept.commands = loop.index.commands /\ kept.last = loop.index.last
      /\ kept.processes = loop.index.processes
  <2>1. Append(loop.index.batches, stored) \in Seq(StoredBatch)
    BY <1>1, <1>3, <1>6 DEF Kept
  <2>. DEFINE batches == Append(loop.index.batches, stored)
              seq == index.seq + 1
  <2>2. kept = [loop.index EXCEPT !.seq = seq, !.batches = batches]
    OBVIOUS
  <2>3. seq \in Nat
    BY <1>1
  <2>. HIDE DEF batches, seq, stored
  <2>4. /\ kept \in Index /\ kept.seq = seq /\ kept.batches = batches
        /\ kept.commands = loop.index.commands /\ kept.last = loop.index.last
        /\ kept.processes = loop.index.processes
    <3>. HIDE DEF kept
    <3>. QED  BY <1>5, <2>1, <2>2, <2>3 DEF Index, batches
  <2>. QED  BY <2>4 DEF batches, seq
<1>8. Grows(index, index)
  BY <1>1 DEF Grows
<1>9. Grows(index, loop.index)
  BY <1>1, <1>3 DEF Grows, Kept
<1>. HIDE DEF stored, kept, done
<1>10. stored \in Range(kept.batches) /\ Range(index.batches) \subseteq Range(kept.batches)
  <2>1. kept.batches = Append(index.batches, stored)
    BY <1>3, <1>7 DEF Kept
  <2>. DEFINE new == Append(index.batches, stored)
  <2>2. /\ Len(new) = Len(index.batches) + 1 /\ DOMAIN new = 1..Len(new)
        /\ DOMAIN index.batches = 1..Len(index.batches) /\ Len(index.batches) \in Nat
        /\ new[Len(new)] = stored
        /\ \A i \in DOMAIN index.batches : new[i] = index.batches[i]
    BY <1>1, <1>6, AppendProperties
  <2>. HIDE DEF new
  <2>3. Len(new) \in DOMAIN new /\ \A i \in DOMAIN index.batches : i \in DOMAIN new
    BY <2>2
  <2>. QED  BY <2>1, <2>2, <2>3 DEF Range, new
<1>11. Grows(index, kept)
  BY <1>1, <1>3, <1>7, <1>10 DEF Grows, Kept
<1>12. BatchAdded(index, kept, stored)
  BY <1>3, <1>6, <1>7, <1>10 DEF BatchAdded, Kept, UnitAdded
<1>13. loop.index.processes = index.processes /\ kept.processes = index.processes
  BY <1>3, <1>7 DEF Kept
<1>14. /\ done.index \in Index
       /\ Grows(index, done.index)
       /\ done.index.processes = index.processes
       /\ done.answer \in {"accepted", "replayed", "raised"}
       /\ done.answer = "accepted" =>
              done.batch \in StoredBatch /\ BatchAdded(index, done.index, done.batch)
  <2>1. CASE done = [index |-> index, answer |-> "replayed", batch |-> batch]
    BY <1>8, <2>1
  <2>2. CASE done = [index |-> index, answer |-> "raised", batch |-> batch]
    BY <1>8, <2>2
  <2>3. CASE done = [index |-> loop.index, answer |-> "raised", batch |-> batch]
    BY <1>5, <1>9, <1>13, <2>3
  <2>4. CASE done = [index |-> kept, answer |-> "accepted", batch |-> stored]
    BY <1>6, <1>7, <1>11, <1>12, <1>13, <2>4
  <2>. QED  BY <1>4, <2>1, <2>2, <2>3, <2>4
<1>. QED  BY <1>14 DEF done

-----------------------------------------------------------------------------
(* claim_next and seed_process.                                            *)

\* A finite set as a sequence has each element once.
LEMMA SetAsSequence ==
    ASSUME NEW S, IsFiniteSet(S)
    PROVE  /\ Cardinality(S) \in Nat
           /\ SetToSeq(S) \in [1..Cardinality(S) -> S]
           /\ SetToSeq(S) \in Seq(S) /\ Len(SetToSeq(S)) = Cardinality(S)
           /\ \A i, j \in 1..Cardinality(S) : SetToSeq(S)[i] = SetToSeq(S)[j] => i = j
           /\ \A x \in S : \E i \in 1..Cardinality(S) : SetToSeq(S)[i] = x
<1>. DEFINE n == Cardinality(S)
<1>1. n \in Nat /\ ExistsBijection(1..n, S)
  BY FS_CardinalityType
<1>2. PICK f \in [1..n -> S] : IsInjective(f)
  BY <1>1 DEF ExistsBijection, Bijection, Injection
<1>3. SetToSeq(S) \in [1..n -> S] /\ IsInjective(SetToSeq(S))
  BY <1>2 DEF SetToSeq
<1>4. Cardinality(1..n) = n
  BY <1>1, FS_Interval
<1>5. SetToSeq(S) \in Surjection(1..n, S)
  BY <1>3, <1>4, FS_Injection DEF Injection
<1>6. SetToSeq(S) \in Seq(S) /\ Len(SetToSeq(S)) = n
  <2>. HIDE DEF n
  <2>. QED  BY <1>1, <1>3
<1>7. \A i, j \in 1..n : SetToSeq(S)[i] = SetToSeq(S)[j] => i = j
  BY <1>3 DEF IsInjective
<1>8. \A x \in S : \E i \in 1..n : SetToSeq(S)[i] = x
  BY <1>5 DEF Surjection
<1>. QED  BY <1>1, <1>3, <1>6, <1>7, <1>8

\* Two indexes that differ in their processes only.
SameHistory(index, other) ==
    /\ index.seq = other.seq /\ index.batches = other.batches
    /\ index.commands = other.commands /\ index.events = other.events
    /\ index.last = other.last

\* An index with other processes is one, with the same history.
LEMMA WithProcesses ==
    ASSUME NEW index \in Index, NEW processes \in [Process -> Record]
    PROVE  /\ [index EXCEPT !.processes = processes] \in Index
           /\ SameHistory(index, [index EXCEPT !.processes = processes])
           /\ [index EXCEPT !.processes = processes].processes = processes
BY DEF Index, SameHistory

LEMMA SameGrows ==
    ASSUME NEW index \in Index, NEW moved \in Index, NEW later \in Index,
           SameHistory(index, moved), Grows(moved, later)
    PROVE  Grows(index, later)
BY DEF SameHistory, Grows

\* seed_process touches nothing but the process.
LEMMA Seeding ==
    ASSUME NEW index \in Index, NEW p \in Process, NEW record \in Record
    PROVE  /\ Seeded(index, p, record) \in Index
           /\ SameHistory(index, Seeded(index, p, record))
           /\ Seeded(index, p, record).processes = [index.processes EXCEPT ![p] = record]
<1>1. Seeded(index, p, record) =
        [index EXCEPT !.processes = [index.processes EXCEPT ![p] = record]]
  BY DEF Seeded
<1>2. [index.processes EXCEPT ![p] = record] \in [Process -> Record]
  BY DEF Index
<1>. QED  BY <1>1, <1>2, WithProcesses

\* The processes after claim_next: some rows reaped, the chosen one claimed.
Reaped(index, runs, at) == {p \in Process : RunOf[p] \in runs /\ Reapable(index, p, at)}

Moved(index, w, runs, at, until, chosen) ==
    LET resolved == ReapAll(index, Reaped(index, runs, at)).processes
    IN  [p \in Process |-> IF p \in chosen THEN Claimed(resolved[p], w, until)
                           ELSE resolved[p]]

LEMMA MovedRows ==
    ASSUME NEW index \in Index, NEW w \in Worker, NEW runs, NEW at, NEW until \in Nat,
           NEW chosen \in SUBSET Process
    PROVE  /\ Moved(index, w, runs, at, until, chosen) \in [Process -> Record]
           /\ \A p \in Process :
                  Moved(index, w, runs, at, until, chosen)[p] =
                  LET row == IF p \in Reaped(index, runs, at)
                             THEN [Unleased(index.processes[p]) EXCEPT !.status = "failed"]
                             ELSE index.processes[p]
                  IN  IF p \in chosen THEN Claimed(row, w, until) ELSE row
<1>. DEFINE reaped == Reaped(index, runs, at)
            resolved == ReapAll(index, reaped).processes
<1>1. index.processes \in [Process -> Record] /\ "processes" \in DOMAIN index
  BY DEF Index
<1>2. resolved = [p \in Process |-> IF p \in reaped
                                    THEN [Unleased(index.processes[p]) EXCEPT !.status = "failed"]
                                    ELSE index.processes[p]]
  BY <1>1 DEF ReapAll
<1>3. "failed" \in Status \cup {"absent"} /\ "running" \in Status \cup {"absent"}
  BY DEF Status, OpenStatus, TerminalStatus
<1>4. ASSUME NEW row \in Record
      PROVE  [Unleased(row) EXCEPT !.status = "failed"] \in Record
  BY <1>3 DEF Unleased, Record
<1>5. ASSUME NEW row \in Record PROVE Claimed(row, w, until) \in Record
  <2>1. PICK attempt \in Nat : attempt = row.attempt + 1
    BY DEF Record
  <2>2. Claimed(row, w, until) = [row EXCEPT !.status = "running", !.attempt = attempt,
                                             !.owner = w, !.expires = until]
    BY <2>1 DEF Claimed
  <2>. QED  BY <1>3, <2>2 DEF Record
<1>6. resolved \in [Process -> Record]
  BY <1>1, <1>2, <1>4
<1>. HIDE DEF resolved
<1>7. Moved(index, w, runs, at, until, chosen) =
        [p \in Process |-> IF p \in chosen THEN Claimed(resolved[p], w, until) ELSE resolved[p]]
  BY DEF Moved, resolved
<1>8. Moved(index, w, runs, at, until, chosen) \in [Process -> Record]
  BY <1>5, <1>6, <1>7
<1>. QED  BY <1>2, <1>7, <1>8

\* Row by row: claimed, reaped or left alone.
RowMoved(index, w, runs, at, until, chosen, p) ==
    LET row == Moved(index, w, runs, at, until, chosen)[p]
        reaped == Reaped(index, runs, at)
    IN  /\ p \in chosen /\ p \notin reaped => row = Claimed(index.processes[p], w, until)
        /\ p \notin chosen /\ p \in reaped =>
               row = [Unleased(index.processes[p]) EXCEPT !.status = "failed"]
        /\ p \notin chosen /\ p \notin reaped => row = index.processes[p]

LEMMA MovedRow ==
    ASSUME NEW index \in Index, NEW w \in Worker, NEW runs, NEW at, NEW until \in Nat,
           NEW chosen, NEW p \in Process
    PROVE  RowMoved(index, w, runs, at, until, chosen, p)
<1>. DEFINE reaped == Reaped(index, runs, at)
            resolved == ReapAll(index, reaped).processes
            failed == [Unleased(index.processes[p]) EXCEPT !.status = "failed"]
<1>1. Moved(index, w, runs, at, until, chosen)[p] =
          IF p \in chosen THEN Claimed(resolved[p], w, until) ELSE resolved[p]
  BY DEF Moved
<1>2. resolved[p] = IF p \in reaped THEN failed ELSE index.processes[p]
  <2>. HIDE DEF reaped, failed
  <2>1. "processes" \in DOMAIN index
    BY DEF Index
  <2>. QED  BY <2>1 DEF ReapAll, failed
<1>. HIDE DEF resolved, failed, reaped
<1>. QED  BY <1>1, <1>2 DEF failed, reaped, RowMoved

\* The key under which a claim reaps or takes a row.
TouchKey(index, chosen, p) ==
    IF p \in chosen THEN ClaimKey(p, index.processes[p].attempt + 1)
    ELSE FailKey(p, index.processes[p].attempt)

\* Each touched row has a unit, and each unit is of a touched row.
UnitsTouch(index, touched, chosen, units) ==
    /\ \A i \in DOMAIN units :
           \E p \in touched : units[i] = Unit(RunOf[p], TouchKey(index, chosen, p), 1)
    /\ \A p \in touched :
           \E i \in DOMAIN units : units[i] = Unit(RunOf[p], TouchKey(index, chosen, p), 1)

\* The units of a claim are units, each with a command of its own.
LEMMA ClaimUnits ==
    ASSUME NEW index \in Index, NEW moved \in Index, NEW reaped \in SUBSET Process,
           NEW chosen, chosen = {} \/ \E p \in Process : chosen = {p},
           reaped \cap chosen = {},
           \A p \in chosen : moved.processes[p].attempt = index.processes[p].attempt + 1
    PROVE  LET reaps == [i \in 1..Cardinality(reaped) |-> ReapUnit(index, SetToSeq(reaped)[i])]
               claims == {Unit(RunOf[p], ClaimKey(p, moved.processes[p].attempt), 1) : p \in chosen}
               units == reaps \o SetToSeq(claims)
           IN  /\ units \in Seq(StoredUnit)
               /\ UnitsOnce(units)
               /\ UnitsTouch(index, reaped \cup chosen, chosen, units)
               /\ units # <<>> => BatchRun(reaps, chosen) \in Run
<1>. DEFINE n == Cardinality(reaped)
            reaps == [i \in 1..n |-> ReapUnit(index, SetToSeq(reaped)[i])]
            claims == {Unit(RunOf[p], ClaimKey(p, moved.processes[p].attempt), 1) : p \in chosen}
            claim == SetToSeq(claims)
            units == reaps \o claim
<1>1. ASSUME NEW p \in Process, NEW key \in Key
      PROVE  /\ Unit(RunOf[p], key, 1) \in StoredUnit
             /\ Unit(RunOf[p], key, 1).run \in Run
             /\ Unit(RunOf[p], key, 1).key = key
  <2>1. RunOf[p] \in Run
    BY RunOfAssumption
  <2>2. [i \in 1..1 |-> 0] \in Seq(Nat)
    <3>1. [i \in 1..1 |-> 0] \in [1..1 -> Nat]
      OBVIOUS
    <3>. QED  BY <3>1
  <2>. QED  BY <2>1, <2>2 DEF Unit, StoredUnit
<1>2. ASSUME NEW p \in Process, NEW k \in Nat
      PROVE  FailKey(p, k) \in Key /\ ClaimKey(p, k) \in Key
  BY DEF FailKey, ClaimKey, Key
<1>3. ASSUME NEW p \in Process
      PROVE  index.processes[p].attempt \in Nat /\ moved.processes[p].attempt \in Nat
  BY DEF Index, Record
<1>4. /\ n \in Nat /\ SetToSeq(reaped) \in [1..n -> reaped]
      /\ \A i, j \in 1..n : SetToSeq(reaped)[i] = SetToSeq(reaped)[j] => i = j
      /\ \A p \in reaped : \E i \in 1..n : SetToSeq(reaped)[i] = p
  <2>1. IsFiniteSet(reaped)
    BY ProcessAssumption, FS_Subset
  <2>. QED  BY <2>1, SetAsSequence
<1>5. ASSUME NEW i \in 1..n
      PROVE  /\ reaps[i] \in StoredUnit /\ reaps[i].run \in Run
             /\ \E k \in Nat : reaps[i].key = FailKey(SetToSeq(reaped)[i], k)
             /\ \E p \in reaped : /\ p = SetToSeq(reaped)[i]
                                 /\ reaps[i] = Unit(RunOf[p], TouchKey(index, chosen, p), 1)
  <2>1. PICK p \in Process : p = SetToSeq(reaped)[i]
    BY <1>4
  <2>2. PICK k \in Nat : k = index.processes[p].attempt
    BY <1>3
  <2>3. reaps[i] = Unit(RunOf[p], FailKey(p, k), 1)
    BY <2>1, <2>2 DEF ReapUnit
  <2>4. p \in reaped /\ p \notin chosen
    BY <1>4, <2>1
  <2>5. TouchKey(index, chosen, p) = FailKey(p, k)
    BY <2>2, <2>4 DEF TouchKey
  <2>. QED  BY <1>1, <1>2, <2>1, <2>3, <2>4, <2>5
<1>6. reaps \in Seq(StoredUnit) /\ Len(reaps) = n
  <2>1. reaps \in [1..n -> StoredUnit]
    BY <1>5
  <2>. HIDE DEF reaps, n
  <2>. QED  BY <1>4, <2>1
<1>7. /\ claims \subseteq StoredUnit /\ IsFiniteSet(claims)
      /\ \A u \in claims : \E p \in Process, k \in Nat : u.key = ClaimKey(p, k)
      /\ \A u \in claims : \E p \in chosen : u = Unit(RunOf[p], TouchKey(index, chosen, p), 1)
      /\ \A p \in chosen : Unit(RunOf[p], TouchKey(index, chosen, p), 1) \in claims
  <2>1. CASE chosen = {}
    <3>1. claims = {}
      BY <2>1
    <3>. HIDE DEF claims
    <3>. QED  BY <2>1, <3>1, FS_EmptySet
  <2>2. CASE chosen # {}
    <3>1. PICK p \in Process : chosen = {p}
      BY <2>2
    <3>2. PICK k \in Nat : k = moved.processes[p].attempt
      BY <1>3
    <3>3. claims = {Unit(RunOf[p], ClaimKey(p, k), 1)}
      BY <3>1, <3>2
    <3>4. PICK u \in StoredUnit : u = Unit(RunOf[p], ClaimKey(p, k), 1) /\ u.key = ClaimKey(p, k)
      BY <1>1, <1>2
    <3>. HIDE DEF claims
    <3>5. claims = {u}
      BY <3>3, <3>4
    <3>6. u = Unit(RunOf[p], TouchKey(index, chosen, p), 1)
      BY <3>1, <3>2, <3>4 DEF TouchKey
    <3>. QED  BY <3>1, <3>4, <3>5, <3>6, FS_Singleton
  <2>. QED  BY <2>1, <2>2
<1>. HIDE DEF reaps, claims, n
<1>8. /\ claim \in Seq(claims) /\ claim \in Seq(StoredUnit)
      /\ \A i, j \in DOMAIN claim : claim[i] = claim[j] => i = j
      /\ \A u \in claims : \E i \in DOMAIN claim : claim[i] = u
  <2>1. PICK m : m = Cardinality(claims)
    OBVIOUS
  <2>2. /\ claim \in Seq(claims) /\ Len(claim) = m
        /\ \A i, j \in 1..m : claim[i] = claim[j] => i = j
        /\ \A u \in claims : \E i \in 1..m : claim[i] = u
    BY <1>7, <2>1, SetAsSequence
  <2>. HIDE DEF claim
  <2>3. DOMAIN claim = 1..m
    BY <2>2
  <2>. QED  BY <1>7, <2>2, <2>3
<1>. HIDE DEF claim
<1>9. /\ units \in Seq(StoredUnit) /\ Len(units) = n + Len(claim)
      /\ \A i \in 1..n : units[i] = reaps[i]
      /\ \A i \in (n+1)..(n + Len(claim)) : i - n \in DOMAIN claim /\ units[i] = claim[i - n]
      /\ Len(claim) \in Nat
      /\ DOMAIN units = 1..Len(units)
  <2>1. Len(claim) \in Nat /\ DOMAIN claim = 1..Len(claim)
    BY <1>8
  <2>2. /\ units \in Seq(StoredUnit) /\ Len(units) = n + Len(claim)
        /\ \A i \in 1..(n + Len(claim)) :
               units[i] = IF i <= n THEN reaps[i] ELSE claim[i - n]
    <3>1. claim \in Seq(StoredUnit)
      BY <1>8
    <3>. QED  BY <1>6, <3>1, ConcatProperties
  <2>. HIDE DEF units
  <2>3. \A i \in 1..n : i \in 1..(n + Len(claim)) /\ i <= n
    BY <1>4, <2>1
  <2>4. \A i \in (n+1)..(n + Len(claim)) :
            i \in 1..(n + Len(claim)) /\ ~ (i <= n) /\ i - n \in 1..Len(claim)
    BY <1>4, <2>1
  <2>. QED  BY <2>1, <2>2, <2>3, <2>4
<1>. HIDE DEF units
<1>10. ASSUME NEW i \in DOMAIN units, i \notin 1..n
       PROVE  /\ i - n \in DOMAIN claim /\ units[i] = claim[i - n]
              /\ \E p \in Process, k \in Nat : units[i].key = ClaimKey(p, k)
  <2>1. i - n \in DOMAIN claim /\ units[i] = claim[i - n]
    BY <1>4, <1>9, <1>10
  <2>. QED  BY <1>7, <1>8, <2>1
<1>11. ASSUME NEW i \in 1..n
       PROVE  \E k \in Nat : units[i].key = FailKey(SetToSeq(reaped)[i], k)
  BY <1>5, <1>9
<1>12. UnitsOnce(units)
  <2>. SUFFICES ASSUME NEW i \in DOMAIN units, NEW j \in DOMAIN units,
                       Command(units[i]) = Command(units[j])
                PROVE  i = j
    BY DEF UnitsOnce
  <2>1. units[i].key = units[j].key
    BY DEF Command
  <2>2. CASE i \in 1..n /\ j \in 1..n
    <3>1. SetToSeq(reaped)[i] = SetToSeq(reaped)[j]
      BY <1>11, <2>1, <2>2 DEF FailKey
    <3>. QED  BY <1>4, <2>2, <3>1
  <2>3. CASE i \in 1..n /\ j \notin 1..n
    BY <1>10, <1>11, <2>1, <2>3 DEF FailKey, ClaimKey
  <2>4. CASE i \notin 1..n /\ j \in 1..n
    BY <1>10, <1>11, <2>1, <2>4 DEF FailKey, ClaimKey
  <2>5. CASE i \notin 1..n /\ j \notin 1..n
    <3>1. PICK a \in DOMAIN claim : a = i - n /\ units[i] = claim[a]
      BY <1>10, <2>5
    <3>2. PICK b \in DOMAIN claim : b = j - n /\ units[j] = claim[b]
      BY <1>10, <2>5
    <3>3. claim[a] = claim[b]
      <4>1. claims = {} \/ \E u : claims = {u}
        <5>1. CASE chosen = {}
          BY <5>1 DEF claims
        <5>2. CASE chosen # {}
          <6>1. PICK p \in Process : chosen = {p}
            BY <5>2
          <6>. QED  BY <6>1 DEF claims
        <5>. QED  BY <5>1, <5>2
      <4>2. claim[a] \in claims /\ claim[b] \in claims
        BY <1>8
      <4>. QED  BY <4>1, <4>2
    <3>4. a = b
      BY <1>8, <3>3
    <3>. QED  BY <1>4, <1>9, <3>1, <3>2, <3>4
  <2>. QED  BY <2>2, <2>3, <2>4, <2>5
<1>13. units # <<>> => BatchRun(reaps, chosen) \in Run
  <2>1. CASE chosen # {}
    <3>1. PICK p \in Process : chosen = {p}
      BY <2>1
    <3>2. (CHOOSE q \in chosen : TRUE) = p
      BY <3>1
    <3>. QED  BY <2>1, <3>2, RunOfAssumption DEF BatchRun
  <2>2. CASE chosen = {} /\ n # 0
    <3>1. n \in 1..n
      BY <1>4, <2>2
    <3>. QED  BY <1>5, <1>6, <2>2, <3>1 DEF BatchRun
  <2>3. CASE chosen = {} /\ n = 0
    <3>1. claims = {}
      BY <2>3 DEF claims
    <3>2. Len(claim) = 0
      BY <3>1, <1>7, SetAsSequence, FS_EmptySet DEF claim
    <3>3. Len(units) = 0
      BY <1>4, <1>9, <2>3, <3>2
    <3>. QED  BY <1>9, <3>3, EmptySeq
  <2>. QED  BY <2>1, <2>2, <2>3
<1>14. UnitsTouch(index, reaped \cup chosen, chosen, units)
  <2>. DEFINE Of(p) == Unit(RunOf[p], TouchKey(index, chosen, p), 1)
  <2>1. ASSUME NEW i \in DOMAIN units
        PROVE  \E p \in reaped \cup chosen : units[i] = Of(p)
    <3>1. CASE i \in 1..n
      BY <1>5, <1>9, <3>1
    <3>2. CASE i \notin 1..n
      <4>1. units[i] \in claims
        BY <1>8, <1>10, <3>2
      <4>. QED  BY <1>7, <4>1
    <3>. QED  BY <3>1, <3>2
  <2>2. ASSUME NEW p \in reaped
        PROVE  \E i \in DOMAIN units : units[i] = Of(p)
    <3>1. PICK i \in 1..n : SetToSeq(reaped)[i] = p
      BY <1>4
    <3>2. reaps[i] = Of(p)
      BY <1>5, <3>1
    <3>3. i \in DOMAIN units /\ units[i] = reaps[i]
      BY <1>4, <1>9
    <3>. QED  BY <3>2, <3>3
  <2>3. ASSUME NEW p \in chosen
        PROVE  \E i \in DOMAIN units : units[i] = Of(p)
    <3>1. Of(p) \in claims
      BY <1>7
    <3>2. PICK a \in DOMAIN claim : claim[a] = Of(p)
      BY <1>8, <3>1
    <3>3. a \in Nat /\ 1 <= a /\ a <= Len(claim)
      BY <1>9
    <3>4. PICK i \in (n+1)..(n + Len(claim)) : i - n = a
      <4>1. a + n \in (n+1)..(n + Len(claim)) /\ (a + n) - n = a
        BY <1>4, <1>9, <3>3
      <4>. QED  BY <4>1
    <3>5. i \in DOMAIN units
      BY <1>4, <1>9, <3>4
    <3>. QED  BY <1>9, <3>2, <3>4, <3>5
  <2>. QED  BY <2>1, <2>2, <2>3 DEF UnitsTouch
<1>. QED  BY <1>9, <1>12, <1>13, <1>14 DEF units, claim, claims, reaps, n

\* What a claim answers: nothing, or what append_batch makes of a batch of the
\* units once the processes have moved.
ClaimAnswer(index, done, processes, units) ==
    /\ units \in Seq(StoredUnit) /\ UnitsOnce(units)
    /\ IF units = <<>>
       THEN done.index = index /\ done.answer = "empty"
       ELSE \E moved \in Index, batch \in StoredBatch :
               /\ SameHistory(index, moved) /\ moved.processes = processes
               /\ batch.units = units
               /\ done = AppendBatch(moved, batch)

LEMMA Claiming ==
    ASSUME NEW index \in Index, NEW w \in Worker, NEW runs, NEW at, NEW until \in Nat,
           NEW chosen \in ReadyChoices(index, runs, at)
    PROVE  \E units :
               /\ UnitsTouch(index, Reaped(index, runs, at) \cup chosen, chosen, units)
               /\ ClaimAnswer(index, ClaimNext(index, w, runs, at, until, chosen),
                              Moved(index, w, runs, at, until, chosen), units)
<1>. DEFINE reaped == Reaped(index, runs, at)
            resolved == ReapAll(index, reaped)
            processes == [p \in Process |-> IF p \in chosen
                                            THEN Claimed(resolved.processes[p], w, until)
                                            ELSE resolved.processes[p]]
            moved == [resolved EXCEPT !.processes = processes]
            reaps == [i \in 1..Cardinality(reaped) |-> ReapUnit(index, SetToSeq(reaped)[i])]
            claims == {Unit(RunOf[p], ClaimKey(p, moved.processes[p].attempt), 1) : p \in chosen}
            units == reaps \o SetToSeq(claims)
            done == ClaimNext(index, w, runs, at, until, chosen)
<1>1. /\ reaped \in SUBSET Process /\ (chosen = {} \/ \E p \in Process : chosen = {p})
      /\ reaped \cap chosen = {}
  <2>1. reaped \subseteq Process
    BY DEF Reaped
  <2>. DEFINE ready == {p \in Process : RunOf[p] \in runs /\ IsClaimable(index, p, at)}
  <2>2. chosen \in IF ready = {} THEN {{}} ELSE {{p} : p \in ready}
    BY DEF ReadyChoices
  <2>3. ready \subseteq Process
    OBVIOUS
  <2>4. \A p \in ready : p \notin reaped
    <3>1. \A p \in Process : index.processes[p].attempt \in Nat /\ MaxAttempts[p] \in Nat
      BY MemoryAttemptsAssumption DEF Index, Record
    <3>. QED  BY <3>1 DEF Reaped, Reapable, IsClaimable
  <2>. HIDE DEF ready, reaped
  <2>5. chosen = {} \/ \E p \in Process : chosen = {p}
    BY <2>2, <2>3
  <2>6. \A p \in chosen : p \in ready
    BY <2>2
  <2>. QED  BY <2>1, <2>4, <2>5, <2>6
<1>2. /\ processes \in [Process -> Record]
      /\ processes = Moved(index, w, runs, at, until, chosen)
      /\ moved = [index EXCEPT !.processes = processes]
      /\ \A p \in chosen : processes[p].attempt = index.processes[p].attempt + 1
  <2>1. chosen \in SUBSET Process
    BY <1>1
  <2>2. processes = Moved(index, w, runs, at, until, chosen)
    BY DEF Moved
  <2>3. processes \in [Process -> Record]
    BY <2>1, <2>2, MovedRows
  <2>4. moved = [index EXCEPT !.processes = processes]
    <3>. HIDE DEF processes
    <3>. QED  BY DEF ReapAll, Index
  <2>5. ASSUME NEW p \in chosen PROVE processes[p].attempt = index.processes[p].attempt + 1
    <3>1. p \in Process /\ p \notin reaped
      BY <1>1, <2>1
    <3>2. processes[p] = Claimed(index.processes[p], w, until)
      <4>1. p \notin Reaped(index, runs, at)
        BY <3>1
      <4>2. Moved(index, w, runs, at, until, chosen)[p] = Claimed(index.processes[p], w, until)
        <5>1. RowMoved(index, w, runs, at, until, chosen, p)
          BY <3>1, MovedRow
        <5>. QED  BY <4>1, <5>1 DEF RowMoved
      <4>. HIDE DEF processes
      <4>. QED  BY <2>2, <4>2
    <3>3. index.processes[p] \in Record
      BY <3>1 DEF Index
    <3>. HIDE DEF processes
    <3>. QED  BY <3>2, <3>3 DEF Claimed, Record
  <2>. QED  BY <2>2, <2>3, <2>4, <2>5
<1>3. done = IF units = <<>>
             THEN [index |-> index, answer |-> "empty", batch |-> Batch(NoRun, <<>>)]
             ELSE AppendBatch(moved, Batch(BatchRun(reaps, chosen), units))
  BY DEF ClaimNext, Reaped
<1>4. /\ moved \in Index /\ SameHistory(index, moved)
      /\ moved.processes = processes
  <2>. HIDE DEF processes, moved
  <2>. QED  BY <1>2, WithProcesses
<1>. HIDE DEF moved, reaped, processes
<1>5. /\ units \in Seq(StoredUnit)
      /\ UnitsOnce(units)
      /\ UnitsTouch(index, reaped \cup chosen, chosen, units)
      /\ units # <<>> => BatchRun(reaps, chosen) \in Run
  BY <1>1, <1>2, <1>4, ClaimUnits
<1>. HIDE DEF done, units, reaps
<1>6. ASSUME units = <<>> PROVE ClaimAnswer(index, done, processes, units)
  BY <1>3, <1>5, <1>6 DEF ClaimAnswer
<1>7. ASSUME units # <<>> PROVE ClaimAnswer(index, done, processes, units)
  <2>1. PICK run \in Run : run = BatchRun(reaps, chosen)
    BY <1>5, <1>7
  <2>2. PICK batch : batch = Batch(run, units)
    OBVIOUS
  <2>3. batch \in StoredBatch /\ batch.units = units
    BY <1>5, <2>2 DEF Batch, StoredBatch
  <2>4. done = AppendBatch(moved, batch)
    BY <1>3, <1>7, <2>1, <2>2
  <2>. QED  BY <1>4, <1>5, <1>7, <2>3, <2>4 DEF ClaimAnswer
<1>. QED  BY <1>2, <1>5, <1>6, <1>7 DEF done, reaped

\* A claim loses nothing either.
LEMMA ClaimGrows ==
    ASSUME NEW index \in Index, NEW done, NEW processes, NEW units,
           ClaimAnswer(index, done, processes, units)
    PROVE  done.index \in Index /\ Grows(index, done.index)
<1>1. CASE units = <<>>
  BY <1>1, GrowsItself DEF ClaimAnswer
<1>2. CASE units # <<>>
  <2>1. PICK moved \in Index, batch \in StoredBatch :
               SameHistory(index, moved) /\ done = AppendBatch(moved, batch)
    BY <1>2 DEF ClaimAnswer
  <2>2. done.index \in Index /\ Grows(moved, done.index)
    BY <2>1, Appending
  <2>. QED  BY <2>1, <2>2, SameGrows
<1>. QED  BY <1>1, <1>2

-----------------------------------------------------------------------------
(* import_stored_batch.                                                    *)

\* A sequence of numbers has a bound.
LEMMA BoundOfNumbers ==
    ASSUME NEW s \in Seq(Nat)
    PROVE  \E m \in Nat : \A i \in DOMAIN s : s[i] <= m
<1>. DEFINE n == Len(s)
            S == {k \in 0..n : \E m \in Nat : \A i \in 1..k : s[i] <= m}
<1>1. n \in Nat /\ DOMAIN s = 1..n /\ \A i \in 1..n : s[i] \in Nat
  OBVIOUS
<1>. HIDE DEF n
<1>2. 0 \in S
  BY <1>1
<1>3. ASSUME NEW k \in 1..n, k - 1 \in S PROVE k \in S
  <2>1. PICK m \in Nat : \A i \in 1..(k-1) : s[i] <= m
    BY <1>3
  <2>2. s[k] \in Nat /\ k \in 0..n
    BY <1>1
  <2>3. PICK bound \in Nat : m <= bound /\ s[k] <= bound
    <3>1. m + s[k] \in Nat /\ m <= m + s[k] /\ s[k] <= m + s[k]
      BY <2>2
    <3>. QED  BY <3>1
  <2>4. \A i \in 1..k : s[i] <= bound
    <3>. SUFFICES ASSUME NEW i \in 1..k PROVE s[i] <= bound
      OBVIOUS
    <3>1. CASE i = k
      BY <2>3, <3>1
    <3>2. CASE i # k
      <4>1. i \in 1..(k-1) /\ i \in 1..n
        BY <1>1, <3>2
      <4>2. s[i] \in Nat /\ s[i] <= m
        BY <1>1, <2>1, <4>1
      <4>. QED  BY <2>3, <4>2
    <3>. QED  BY <3>1, <3>2
  <2>. QED  BY <2>2, <2>3, <2>4
<1>4. n \in 0..n
  BY <1>1
<1>. HIDE DEF S
<1>5. n \in S
  BY <1>1, <1>2, <1>3, <1>4, UpTo
<1>. QED  BY <1>1, <1>5 DEF S

\* The counter of the unit's run after an import is the largest number so far.
LEMMA LastAfterUnit ==
    ASSUME NEW index \in Index, NEW unit \in StoredUnit
    PROVE  /\ LastAfter(index, unit) \in Nat
           /\ index.last[unit.run] <= LastAfter(index, unit)
           /\ \A e \in DOMAIN unit.events : unit.events[e] <= LastAfter(index, unit)
<1>. DEFINE T == {index.last[unit.run]} \cup Range(unit.events)
<1>1. unit.events \in Seq(Nat) /\ index.last[unit.run] \in Nat
  BY DEF Index, StoredUnit
<1>2. PICK m \in Nat : \A e \in DOMAIN unit.events : unit.events[e] <= m
  BY <1>1, BoundOfNumbers
<1>3. PICK n \in Nat : index.last[unit.run] <= n /\ m <= n
  <2>1. /\ m + index.last[unit.run] \in Nat /\ m <= m + index.last[unit.run]
        /\ index.last[unit.run] <= m + index.last[unit.run]
    BY <1>1
  <2>. QED  BY <2>1
<1>4. \A e \in DOMAIN unit.events : unit.events[e] \in Nat
  BY <1>1
<1>5. T \in SUBSET (0..n) /\ T # {}
  BY <1>1, <1>2, <1>3, <1>4 DEF Range
<1>6. \A e \in DOMAIN unit.events : unit.events[e] \in T
  BY DEF Range
<1>7. index.last[unit.run] \in T /\ LastAfter(index, unit) = Max(T)
  BY DEF LastAfter
<1>. HIDE DEF T
<1>8. Max(T) \in T /\ \A y \in T : y <= Max(T)
  BY <1>5, MaxOfBounded
<1>9. Max(T) \in Nat
  <2>1. \A y \in T : y \in Nat
    BY <1>5
  <2>. QED  BY <1>8, <2>1
<1>. QED  BY <1>6, <1>7, <1>8, <1>9

\* The index answers the unit's command as a replay, and numbers on above its events.
UnitKnown(index, unit) ==
    /\ Command(unit) \in index.commands
    /\ \A e \in DOMAIN unit.events : unit.events[e] <= index.last[unit.run]

LEMMA ImportedUnit ==
    ASSUME NEW index \in Index, NEW unit \in StoredUnit
    PROVE  LET new == ImportUnit(index, unit)
           IN  /\ new \in Index
               /\ new.seq = index.seq /\ new.batches = index.batches
               /\ index.commands \subseteq new.commands
               /\ \A r \in Run : index.last[r] <= new.last[r]
               /\ UnitKnown(new, unit)
<1>. DEFINE commands == index.commands \cup {Command(unit)}
            events == [index.events EXCEPT ![unit.run] = @ \o EventsOf(unit)]
            last == [index.last EXCEPT ![unit.run] = LastAfter(index, unit)]
            new == ImportUnit(index, unit)
<1>1. unit.run \in Run /\ unit.key \in Key /\ LastAfter(index, unit) \in Nat
  BY LastAfterUnit DEF StoredUnit
<1>2. /\ index.commands \in SUBSET (Run \X Key) /\ index.last \in [Run -> Nat]
      /\ index.events \in [Run -> Seq([key : Key, sequence : Nat])]
      /\ DOMAIN index = {"seq", "batches", "commands", "events", "last", "processes"}
  BY DEF Index
<1>3. commands \in SUBSET (Run \X Key)
  <2>1. <<unit.run, unit.key>> \in Run \X Key
    BY <1>1
  <2>. QED  BY <1>2, <2>1 DEF Command
<1>4. events \in [Run -> Seq([key : Key, sequence : Nat])]
  <2>. DEFINE Row == [key : Key, sequence : Nat]
  <2>1. index.events[unit.run] \in Seq(Row) /\ EventsOf(unit) \in Seq(Row)
    BY <1>1, <1>2, EventsOfUnit
  <2>. HIDE DEF Row
  <2>2. index.events[unit.run] \o EventsOf(unit) \in Seq(Row)
    BY <2>1, ConcatProperties
  <2>3. index.events \in [Run -> Seq(Row)]
    BY <1>2 DEF Row
  <2>4. events \in [Run -> Seq(Row)]
    BY <2>2, <2>3
  <2>. QED  BY <2>4 DEF Row
<1>5. last \in [Run -> Nat] /\ last[unit.run] = LastAfter(index, unit)
      /\ \A r \in Run : index.last[r] <= last[r]
  BY <1>1, <1>2, LastAfterUnit
<1>6. new = [index EXCEPT !.commands = commands, !.events = events, !.last = last]
  BY <1>2 DEF ImportUnit
<1>7. Command(unit) \in commands /\ index.commands \subseteq commands
  OBVIOUS
<1>. HIDE DEF commands, events, last, new
<1>8. /\ new \in Index
      /\ new.seq = index.seq /\ new.batches = index.batches
      /\ new.commands = commands /\ new.last = last
  BY <1>2, <1>3, <1>4, <1>5, <1>6 DEF Index
<1>9. UnitKnown(new, unit)
  BY <1>5, <1>7, <1>8, LastAfterUnit DEF UnitKnown
<1>. QED  BY <1>5, <1>7, <1>8, <1>9 DEF new

\* After the units of a batch the index knows each of them.
LEMMA ImportedUnits ==
    ASSUME NEW index \in Index, NEW units \in Seq(StoredUnit)
    PROVE  LET new == ImportingUnits(index, units)
           IN  /\ new \in Index
               /\ new.seq = index.seq /\ new.batches = index.batches
               /\ index.commands \subseteq new.commands
               /\ \A r \in Run : index.last[r] <= new.last[r]
               /\ \A i \in DOMAIN units : UnitKnown(new, units[i])
<1>. DEFINE n == Len(units)
            Since(new) == /\ new.seq = index.seq /\ new.batches = index.batches
                          /\ index.commands \subseteq new.commands
                          /\ \A r \in Run : index.last[r] <= new.last[r]
<1>1. n \in Nat /\ DOMAIN units = 1..n /\ \A i \in 1..n : units[i] \in StoredUnit
  OBVIOUS
<1>2. \A d \in Index, e \in StoredUnit : ImportUnit(d, e) \in Index
  BY ImportedUnit
<1>3. PICK h : IsImportingUnits(h, Index, index, units)
  BY <1>2, ImportUnitSteps
<1>4. /\ h[0] = index /\ h[n] = ImportingUnits(index, units)
      /\ \A i \in 0..n : h[i] \in Index
      /\ \A i \in 1..n : h[i] = ImportUnit(h[i-1], units[i])
  BY <1>3 DEF IsImportingUnits
<1>. HIDE DEF n
<1>. DEFINE S == {k \in 0..n : Since(h[k]) /\ \A i \in 1..k : UnitKnown(h[k], units[i])}
<1>5. 0 \in S
  <2>1. \A r \in Run : index.last[r] \in Nat
    BY DEF Index
  <2>. QED  BY <1>1, <1>4, <2>1
<1>6. ASSUME NEW k \in 1..n, k - 1 \in S PROVE k \in S
  <2>1. /\ k \in 0..n /\ k - 1 \in 0..n
        /\ Since(h[k-1]) /\ \A i \in 1..(k-1) : UnitKnown(h[k-1], units[i])
    BY <1>6
  <2>2. PICK old \in Index : old = h[k-1]
    BY <1>4, <2>1
  <2>3. PICK unit \in StoredUnit : unit = units[k]
    BY <1>1
  <2>4. PICK new \in Index : new = h[k] /\ new = ImportUnit(old, unit)
    BY <1>4, <2>1, <2>2, <2>3
  <2>5. /\ new.seq = old.seq /\ new.batches = old.batches
        /\ old.commands \subseteq new.commands
        /\ \A r \in Run : old.last[r] <= new.last[r]
        /\ UnitKnown(new, unit)
    BY <2>4, ImportedUnit
  <2>6. \A r \in Run : index.last[r] \in Nat /\ old.last[r] \in Nat /\ new.last[r] \in Nat
    BY DEF Index
  <2>7. Since(new)
    BY <2>1, <2>2, <2>5, <2>6
  <2>8. ASSUME NEW i \in 1..k PROVE UnitKnown(new, units[i])
    <3>1. CASE i = k
      BY <2>3, <2>5, <3>1
    <3>2. CASE i # k
      <4>1. i \in 1..(k-1) /\ i \in 1..n
        BY <1>1, <3>2
      <4>2. PICK known \in StoredUnit : known = units[i]
        BY <1>1, <4>1
      <4>3. UnitKnown(old, known)
        BY <2>1, <2>2, <4>1, <4>2
      <4>4. known.run \in Run /\ \A e \in DOMAIN known.events : known.events[e] \in Nat
        BY DEF StoredUnit
      <4>5. UnitKnown(new, known)
        BY <2>5, <2>6, <4>3, <4>4 DEF UnitKnown
      <4>. QED  BY <4>2, <4>5
    <3>. QED  BY <3>1, <3>2
  <2>. QED  BY <2>1, <2>4, <2>7, <2>8
<1>7. n \in S
  <2>. HIDE DEF S
  <2>. QED  BY <1>1, <1>5, <1>6, UpTo
<1>8. n \in 0..n
  BY <1>1
<1>. QED  BY <1>1, <1>4, <1>7, <1>8

\* The index has the batch, answers its commands, and numbers on above it.
Known(index, line) ==
    /\ line \in Range(index.batches)
    /\ line.seq <= index.seq
    /\ \A i \in DOMAIN line.units : UnitKnown(index, line.units[i])

\* What is known stays known.
LEMMA StaysKnown ==
    ASSUME NEW index \in Index, NEW later \in Index, NEW line \in StoredBatch,
           Grows(index, later), Known(index, line)
    PROVE  Known(later, line)
<1>1. /\ line.seq \in Nat /\ index.seq \in Nat /\ later.seq \in Nat
      /\ \A r \in Run : index.last[r] \in Nat /\ later.last[r] \in Nat
  BY DEF Index, StoredBatch
<1>2. ASSUME NEW i \in DOMAIN line.units PROVE UnitKnown(later, line.units[i])
  <2>1. PICK unit \in StoredUnit : unit = line.units[i]
    BY DEF StoredBatch
  <2>2. unit.run \in Run /\ \A e \in DOMAIN unit.events : unit.events[e] \in Nat
    BY DEF StoredUnit
  <2>3. UnitKnown(index, unit)
    BY <2>1 DEF Known
  <2>4. UnitKnown(later, unit)
    BY <1>1, <2>2, <2>3 DEF Grows, UnitKnown
  <2>. QED  BY <2>1, <2>4
<1>3. line \in Range(later.batches) /\ line.seq <= later.seq
  BY <1>1 DEF Known, Grows
<1>. QED  BY <1>2, <1>3 DEF Known

\* An accepted batch is known.
LEMMA AddedKnown ==
    ASSUME NEW index \in Index, NEW later \in Index, NEW batch \in StoredBatch,
           BatchAdded(index, later, batch)
    PROVE  Known(later, batch)
<1>1. batch.seq \in Nat
  BY DEF StoredBatch
<1>. QED  BY <1>1 DEF BatchAdded, UnitAdded, Known, UnitKnown

\* import_stored_batch loses nothing and knows its batch.
LEMMA ImportKnows ==
    ASSUME NEW index \in Index, NEW batch \in StoredBatch
    PROVE  /\ Import(index, batch) \in Index
           /\ Grows(index, Import(index, batch))
           /\ Known(Import(index, batch), batch)
<1>. DEFINE units == ImportingUnits(index, batch.units)
            seq == IF batch.seq > units.seq THEN batch.seq ELSE units.seq
            batches == Append(units.batches, batch)
            new == Import(index, batch)
<1>1. /\ index.seq \in Nat /\ batch.seq \in Nat /\ batch.units \in Seq(StoredUnit)
      /\ index.batches \in Seq(StoredBatch)
  BY DEF Index, StoredBatch
<1>2. /\ units \in Index
      /\ units.seq = index.seq /\ units.batches = index.batches
      /\ index.commands \subseteq units.commands
      /\ \A r \in Run : index.last[r] <= units.last[r]
      /\ \A i \in DOMAIN batch.units : UnitKnown(units, batch.units[i])
  BY <1>1, ImportedUnits
<1>3. new = [units EXCEPT !.seq = seq, !.batches = batches]
  BY DEF Import, ImportingUnits
<1>. HIDE DEF units
<1>4. seq \in Nat /\ index.seq <= seq /\ batch.seq <= seq
  BY <1>1, <1>2
<1>5. batches \in Seq(StoredBatch) /\ batch \in Range(batches)
      /\ Range(index.batches) \subseteq Range(batches)
  <2>1. batches = Append(index.batches, batch)
    BY <1>2
  <2>2. /\ batches \in Seq(StoredBatch)
        /\ Len(batches) = Len(index.batches) + 1 /\ DOMAIN batches = 1..Len(batches)
        /\ DOMAIN index.batches = 1..Len(index.batches) /\ Len(index.batches) \in Nat
        /\ batches[Len(batches)] = batch
        /\ \A i \in DOMAIN index.batches : batches[i] = index.batches[i]
    <3>1. /\ batches \in Seq(StoredBatch)
          /\ Len(batches) = Len(index.batches) + 1
          /\ \A i \in 1..Len(index.batches) : batches[i] = index.batches[i]
          /\ batches[Len(index.batches) + 1] = batch
      BY <1>1, <2>1, AppendProperties
    <3>2. DOMAIN index.batches = 1..Len(index.batches) /\ Len(index.batches) \in Nat
      BY <1>1
    <3>. HIDE DEF batches
    <3>. QED  BY <3>1, <3>2
  <2>. HIDE DEF batches
  <2>3. Len(batches) \in DOMAIN batches /\ \A i \in DOMAIN index.batches : i \in DOMAIN batches
    BY <2>2
  <2>. QED  BY <2>2, <2>3 DEF Range
<1>. HIDE DEF seq, batches, new
<1>6. /\ new \in Index /\ new.seq = seq /\ new.batches = batches
      /\ new.commands = units.commands /\ new.last = units.last
  BY <1>2, <1>3, <1>4, <1>5 DEF Index
<1>7. Grows(index, new)
  BY <1>2, <1>4, <1>5, <1>6 DEF Grows
<1>8. Known(new, batch)
  BY <1>2, <1>4, <1>5, <1>6 DEF Known, UnitKnown
<1>. QED  BY <1>6, <1>7, <1>8 DEF new

\* _load's loop knows every line of the file.
LEMMA LoadKnows ==
    ASSUME NEW index \in Index, NEW lines \in Seq(StoredBatch)
    PROVE  /\ Importing(index, lines) \in Index
           /\ \A i \in DOMAIN lines : Known(Importing(index, lines), lines[i])
<1>. DEFINE n == Len(lines)
<1>1. n \in Nat /\ DOMAIN lines = 1..n /\ \A i \in 1..n : lines[i] \in StoredBatch
  OBVIOUS
<1>2. \A d \in Index, e \in StoredBatch : Import(d, e) \in Index
  BY ImportKnows
<1>3. PICK h : IsImporting(h, Index, index, lines)
  BY <1>2, ImportSteps
<1>4. /\ h[n] = Importing(index, lines)
      /\ \A i \in 0..n : h[i] \in Index
      /\ \A i \in 1..n : h[i] = Import(h[i-1], lines[i])
  BY <1>3 DEF IsImporting
<1>. HIDE DEF n
<1>. DEFINE S == {k \in 0..n : \A i \in 1..k : Known(h[k], lines[i])}
<1>5. 0 \in S
  BY <1>1
<1>6. ASSUME NEW k \in 1..n, k - 1 \in S PROVE k \in S
  <2>1. k \in 0..n /\ k - 1 \in 0..n /\ \A i \in 1..(k-1) : Known(h[k-1], lines[i])
    BY <1>6
  <2>2. PICK old \in Index : old = h[k-1]
    BY <1>4, <2>1
  <2>3. PICK line \in StoredBatch : line = lines[k]
    BY <1>1
  <2>4. PICK new \in Index : new = h[k] /\ new = Import(old, line)
    BY <1>4, <2>1, <2>2, <2>3
  <2>5. Grows(old, new) /\ Known(new, line)
    BY <2>4, ImportKnows
  <2>6. ASSUME NEW i \in 1..k PROVE Known(new, lines[i])
    <3>1. CASE i = k
      BY <2>3, <2>5, <3>1
    <3>2. CASE i # k
      <4>1. i \in 1..(k-1) /\ i \in 1..n
        BY <1>1, <3>2
      <4>2. PICK known \in StoredBatch : known = lines[i]
        BY <1>1, <4>1
      <4>3. Known(old, known)
        BY <2>1, <2>2, <4>1, <4>2
      <4>. QED  BY <2>5, <4>2, <4>3, StaysKnown
    <3>. QED  BY <3>1, <3>2
  <2>. QED  BY <2>1, <2>4, <2>6
<1>7. n \in S
  <2>. HIDE DEF S
  <2>. QED  BY <1>1, <1>5, <1>6, UpTo
<1>8. n \in 0..n
  BY <1>1
<1>. QED  BY <1>1, <1>4, <1>7, <1>8

-----------------------------------------------------------------------------
(* A batch that does not repeat a key, appended to two journals with the   *)
(* same history.                                                           *)

\* Numbering a unit that has its numbers already changes nothing.
LEMMA NumberedTwice ==
    ASSUME NEW index \in Index, NEW other \in Index, NEW unit \in StoredUnit,
           other.last = index.last
    PROVE  Numbered(other, Numbered(index, unit)) = Numbered(index, unit)
<1>. DEFINE new == [i \in DOMAIN unit.events |-> index.last[unit.run] + i]
<1>1. DOMAIN unit = {"run", "key", "events"}
  BY DEF StoredUnit
<1>2. PICK one : one = Numbered(index, unit)
  OBVIOUS
<1>3. one.run = unit.run /\ one.events = new /\ DOMAIN one = {"run", "key", "events"}
  BY <1>1, <1>2 DEF Numbered
<1>4. [i \in DOMAIN one.events |-> other.last[one.run] + i] = new
  BY <1>3
<1>5. one \in StoredUnit
  BY <1>2, NumberedUnit
<1>. HIDE DEF new
<1>6. Numbered(other, one) = [one EXCEPT !.events = new]
  BY <1>4 DEF Numbered
<1>7. [one EXCEPT !.events = new] = one
  BY <1>3, <1>5 DEF StoredUnit
<1>. QED  BY <1>2, <1>6, <1>7

\* The loop over units whose commands are all new: it numbers and records each.
WholeLoop(h, index, units, out) ==
    /\ h \in [0..Len(units) -> Loop]
    /\ h[0] = Start(index) /\ h[Len(units)] = Recording(Start(index), units)
    /\ out \in Seq(StoredUnit) /\ Len(out) = Len(units) /\ h[Len(units)].units = out
    /\ \A k \in 0..Len(units) : ~ h[k].stopped
    /\ \A k \in 1..Len(units) :
           /\ out[k] = Numbered(h[k-1].index, units[k])
           /\ Command(out[k]) = Command(units[k])
           /\ Command(units[k]) \notin h[k-1].index.commands
           /\ h[k].index = Recorded(h[k-1].index, out[k])
           /\ h[k].units = Append(h[k-1].units, out[k])

LEMMA WholeRecording ==
    ASSUME NEW index \in Index, NEW units \in Seq(StoredUnit), UnitsOnce(units),
           \A i \in DOMAIN units : Command(units[i]) \notin index.commands
    PROVE  \E h, out : WholeLoop(h, index, units, out)
<1>. DEFINE n == Len(units)
<1>1. n \in Nat /\ DOMAIN units = 1..n /\ \A i \in 1..n : units[i] \in StoredUnit
  OBVIOUS
<1>2. \A d \in Loop, e \in StoredUnit : RecordNext(d, e) \in Loop
  BY RecordStops, RecordGoes
<1>3. Start(index) \in Loop
  BY EmptySeq DEF Start, Loop
<1>4. PICK h : IsRecording(h, Loop, Start(index), units)
  BY <1>2, <1>3, RecordSteps
<1>5. /\ h \in [0..n -> Loop] /\ h[0] = Start(index)
      /\ h[n] = Recording(Start(index), units)
      /\ \A i \in 1..n : h[i] = RecordNext(h[i-1], units[i])
  BY <1>4 DEF IsRecording
<1>6. \A i \in 1..n : i \in 0..n /\ i - 1 \in 0..n
  BY <1>1, FirstNumbers
<1>. HIDE DEF n
<1>. DEFINE Done(k) == {Command(units[i]) : i \in 1..k}
            S == {k \in 0..n : /\ ~ h[k].stopped
                               /\ h[k].index.commands = index.commands \cup Done(k)}
<1>7. 0 \in S
  <2>1. Done(0) = {}
    OBVIOUS
  <2>. QED  BY <1>1, <1>5, <2>1 DEF Start
<1>8. ASSUME NEW k \in 1..n, k - 1 \in S
      PROVE  /\ Command(units[k]) \notin h[k-1].index.commands /\ ~ h[k-1].stopped
             /\ k \in S
  <2>1. PICK unit \in StoredUnit : unit = units[k]
    BY <1>1
  <2>2. PICK done \in Loop : done = h[k-1]
    BY <1>5, <1>6
  <2>3. ~ done.stopped /\ done.index.commands = index.commands \cup Done(k-1)
    BY <1>8, <2>2
  <2>4. Command(unit) \notin Done(k-1)
    <3>1. \A i \in 1..(k-1) : i \in 1..n /\ i # k
      BY <1>1
    <3>. QED  BY <1>1, <2>1, <3>1 DEF UnitsOnce
  <2>5. Command(unit) \notin done.index.commands
    BY <1>1, <2>1, <2>3, <2>4
  <2>6. PICK added \in StoredUnit :
            added = Numbered(done.index, unit) /\ Command(added) = Command(unit)
    BY NumberedUnit DEF Loop
  <2>7. PICK new \in Loop : /\ new = h[k] /\ ~ new.stopped
                            /\ new.index = Recorded(done.index, added)
    BY <1>5, <2>1, <2>2, <2>3, <2>5, <2>6, RecordGoes
  <2>8. new.index.commands = done.index.commands \cup {Command(unit)}
    <3>1. PICK before \in Index : before = done.index
      BY DEF Loop
    <3>2. Recorded(before, added).commands = before.commands \cup {Command(added)}
      BY RecordedUnit
    <3>. QED  BY <2>6, <2>7, <3>1, <3>2
  <2>9. Done(k) = Done(k-1) \cup {Command(unit)}
    <3>1. \A i \in 1..k : i \in 1..(k-1) \/ i = k
      BY <1>1
    <3>2. k \in 1..k /\ \A i \in 1..(k-1) : i \in 1..k
      BY <1>1
    <3>. QED  BY <2>1, <3>1, <3>2
  <2>. HIDE DEF Done
  <2>. QED  BY <1>6, <2>1, <2>2, <2>3, <2>5, <2>7, <2>8, <2>9
<1>9. \A k \in 0..n : k \in S
  <2>. HIDE DEF S
  <2>. QED  BY <1>1, <1>7, <1>8, UpTo
<1>10. /\ \A k \in 0..n : ~ h[k].stopped
       /\ \A k \in 1..n : Command(units[k]) \notin h[k-1].index.commands
  BY <1>6, <1>8, <1>9
<1>. HIDE DEF S, Done
<1>. DEFINE out == [k \in 1..n |-> Numbered(h[k-1].index, units[k])]
<1>11. ASSUME NEW k \in 1..n
       PROVE  /\ out[k] = Numbered(h[k-1].index, units[k])
              /\ out[k] \in StoredUnit
              /\ Command(out[k]) = Command(units[k])
              /\ h[k].index = Recorded(h[k-1].index, out[k])
              /\ h[k].units = Append(h[k-1].units, out[k])
  <2>1. PICK unit \in StoredUnit : unit = units[k]
    BY <1>1
  <2>2. PICK done \in Loop : done = h[k-1]
    BY <1>5, <1>6
  <2>3. ~ done.stopped /\ Command(unit) \notin done.index.commands
    BY <1>6, <1>10, <2>1, <2>2
  <2>4. PICK added \in StoredUnit :
            added = Numbered(done.index, unit) /\ Command(added) = Command(unit)
    BY NumberedUnit DEF Loop
  <2>5. /\ RecordNext(done, unit).index = Recorded(done.index, added)
        /\ RecordNext(done, unit).units = Append(done.units, added)
    BY <2>3, <2>4, RecordGoes
  <2>6. h[k] = RecordNext(done, unit) /\ out[k] = added
    BY <1>5, <2>1, <2>2, <2>4
  <2>. HIDE DEF out
  <2>. QED  BY <2>1, <2>2, <2>4, <2>5, <2>6
<1>12. out \in Seq(StoredUnit) /\ Len(out) = n /\ DOMAIN out = 1..n
  <2>1. out \in [1..n -> StoredUnit]
    BY <1>11
  <2>. HIDE DEF out
  <2>. QED  BY <1>1, <2>1
<1>. HIDE DEF out
<1>. DEFINE T == {k \in 0..n : Len(h[k].units) = k /\ \A i \in 1..k : h[k].units[i] = out[i]}
<1>13. 0 \in T
  BY <1>1, <1>5 DEF Start
<1>14. ASSUME NEW k \in 1..n, k - 1 \in T PROVE k \in T
  <2>1. PICK done \in Loop : done = h[k-1]
    BY <1>5, <1>6
  <2>2. PICK added \in StoredUnit : added = out[k]
    BY <1>11
  <2>3. /\ done.units \in Seq(StoredUnit) /\ Len(done.units) = k - 1
        /\ \A i \in 1..(k-1) : done.units[i] = out[i]
    BY <1>14, <2>1 DEF Loop
  <2>4. h[k].units = Append(done.units, added)
    BY <1>11, <2>1, <2>2
  <2>5. /\ Len(Append(done.units, added)) = (k - 1) + 1
        /\ \A i \in 1..(k-1) : Append(done.units, added)[i] = out[i]
        /\ Append(done.units, added)[(k - 1) + 1] = added
    BY <2>3, AppendProperties
  <2>6. (k - 1) + 1 = k /\ \A i \in 1..k : i \in 1..(k-1) \/ i = k
    BY <1>1
  <2>. QED  BY <1>6, <2>2, <2>4, <2>5, <2>6
<1>15. n \in T
  <2>1. n \in 0..n
    BY <1>1
  <2>. HIDE DEF T
  <2>. QED  BY <1>1, <1>13, <1>14, <2>1, UpTo
<1>16. h[n].units = out
  <2>1. PICK last \in Loop : last = h[n]
    BY <1>1, <1>5
  <2>2. last.units \in Seq(StoredUnit) /\ Len(last.units) = n
        /\ \A i \in 1..n : last.units[i] = out[i]
    BY <1>15, <2>1 DEF Loop
  <2>3. last.units = out
    BY <1>12, <2>2, SeqEqual
  <2>. QED  BY <2>1, <2>3
<1>17. WholeLoop(h, index, units, out)
  BY <1>5, <1>10, <1>11, <1>12, <1>16 DEF WholeLoop, n
<1>. QED  BY <1>17

\* The units that come out of the loop go through a loop over the other journal
\* as they are, and the histories stay the same.
LEMMA MirroredRecording ==
    ASSUME NEW index \in Index, NEW other \in Index, SameHistory(index, other),
           NEW units \in Seq(StoredUnit), NEW h, NEW out, WholeLoop(h, index, units, out)
    PROVE  LET done == Recording(Start(other), out)
           IN  /\ done \in Loop /\ ~ done.stopped /\ done.units = out
               /\ SameHistory(Recording(Start(index), units).index, done.index)
<1>. DEFINE n == Len(units)
<1>1. n \in Nat /\ DOMAIN units = 1..n /\ \A i \in 1..n : units[i] \in StoredUnit
  OBVIOUS
<1>2. /\ h \in [0..n -> Loop] /\ h[0] = Start(index)
      /\ h[n] = Recording(Start(index), units)
      /\ out \in Seq(StoredUnit) /\ Len(out) = n /\ h[n].units = out
      /\ \A k \in 1..n : /\ out[k] = Numbered(h[k-1].index, units[k])
                         /\ Command(out[k]) = Command(units[k])
                         /\ Command(units[k]) \notin h[k-1].index.commands
                         /\ h[k].index = Recorded(h[k-1].index, out[k])
                         /\ h[k].units = Append(h[k-1].units, out[k])
  BY DEF WholeLoop
<1>3. \A d \in Loop, e \in StoredUnit : RecordNext(d, e) \in Loop
  BY RecordStops, RecordGoes
<1>4. Start(other) \in Loop
  BY EmptySeq DEF Start, Loop
<1>5. PICK g : IsRecording(g, Loop, Start(other), out)
  BY <1>2, <1>3, <1>4, RecordSteps
<1>6. /\ g \in [0..n -> Loop] /\ g[0] = Start(other)
      /\ g[n] = Recording(Start(other), out)
      /\ \A i \in 1..n : g[i] = RecordNext(g[i-1], out[i])
  BY <1>2, <1>5 DEF IsRecording
<1>7. \A i \in 1..n : i \in 0..n /\ i - 1 \in 0..n
  BY <1>1, FirstNumbers
<1>8. \A i \in 1..n : out[i] \in StoredUnit
  BY <1>2
<1>. HIDE DEF n
<1>. DEFINE S == {k \in 0..n : /\ ~ g[k].stopped /\ g[k].units = h[k].units
                               /\ SameHistory(h[k].index, g[k].index)}
<1>9. 0 \in S
  BY <1>1, <1>2, <1>6 DEF Start
<1>10. ASSUME NEW k \in 1..n, k - 1 \in S PROVE k \in S
  <2>1. PICK done \in Loop : done = h[k-1]
    BY <1>2, <1>7
  <2>2. PICK mirror \in Loop : mirror = g[k-1]
    BY <1>6, <1>7
  <2>3. PICK unit \in StoredUnit : unit = units[k]
    BY <1>1
  <2>4. PICK added \in StoredUnit : added = out[k]
    BY <1>8
  <2>5. PICK old \in Index : old = done.index
    BY DEF Loop
  <2>6. PICK twin \in Index : twin = mirror.index
    BY DEF Loop
  <2>7. /\ ~ mirror.stopped /\ mirror.units = done.units /\ SameHistory(old, twin)
    BY <1>10, <2>1, <2>2, <2>5, <2>6
  <2>8. /\ added = Numbered(old, unit) /\ Command(added) = Command(unit)
        /\ Command(unit) \notin old.commands
        /\ h[k].index = Recorded(old, added) /\ h[k].units = Append(done.units, added)
    BY <1>2, <2>1, <2>3, <2>4, <2>5
  <2>9. Numbered(twin, added) = added
    BY <2>7, <2>8, NumberedTwice DEF SameHistory
  <2>10. Command(added) \notin twin.commands
    BY <2>7, <2>8 DEF SameHistory
  <2>11. /\ g[k] = RecordNext(mirror, added)
         /\ RecordNext(mirror, added).index = Recorded(twin, added)
         /\ RecordNext(mirror, added).units = Append(mirror.units, added)
         /\ ~ RecordNext(mirror, added).stopped
    BY <1>6, <2>2, <2>4, <2>6, <2>7, <2>9, <2>10, RecordGoes
  <2>12. SameHistory(Recorded(old, added), Recorded(twin, added))
    <3>1. PICK one : one = Recorded(old, added)
      OBVIOUS
    <3>2. PICK two : two = Recorded(twin, added)
      OBVIOUS
    <3>3. /\ one.seq = old.seq /\ one.batches = old.batches
          /\ one.commands = old.commands \cup {Command(added)}
          /\ one.events = [old.events EXCEPT ![added.run] = @ \o EventsOf(added)]
          /\ one.last = [old.last EXCEPT ![added.run] = @ + Len(added.events)]
      BY <3>1, RecordedUnit
    <3>4. /\ two.seq = twin.seq /\ two.batches = twin.batches
          /\ two.commands = twin.commands \cup {Command(added)}
          /\ two.events = [twin.events EXCEPT ![added.run] = @ \o EventsOf(added)]
          /\ two.last = [twin.last EXCEPT ![added.run] = @ + Len(added.events)]
      BY <3>2, RecordedUnit
    <3>. QED  BY <2>7, <3>1, <3>2, <3>3, <3>4 DEF SameHistory
  <2>. QED  BY <1>7, <2>7, <2>8, <2>11, <2>12
<1>11. n \in S
  <2>1. n \in 0..n
    BY <1>1
  <2>. HIDE DEF S
  <2>. QED  BY <1>1, <1>9, <1>10, <2>1, UpTo
<1>12. n \in 0..n
  BY <1>1
<1>. QED  BY <1>2, <1>6, <1>11, <1>12

\* What is refused leaves the journal as it was.
LEMMA Refusing ==
    ASSUME NEW index \in Index, NEW batch \in StoredBatch,
           Replays(index, batch) \/ HasKnownFollower(index, batch)
    PROVE  /\ AppendBatch(index, batch).index = index
           /\ AppendBatch(index, batch).answer # "accepted"
<1>. DEFINE replayed == Replays(index, batch)
            follows == HasKnownFollower(index, batch)
            known == [index |-> index, answer |-> "replayed", batch |-> batch]
            raised == [index |-> index, answer |-> "raised", batch |-> batch]
<1>1. AppendBatch(index, batch) = known \/ AppendBatch(index, batch) = raised
  <2>. DEFINE loop == Recording(Start(index), batch.units)
              stored == [batch EXCEPT !.seq = index.seq + 1, !.units = loop.units]
              kept == [loop.index EXCEPT !.seq = index.seq + 1, !.batches = Append(@, stored)]
              half == [index |-> loop.index, answer |-> "raised", batch |-> batch]
              whole == [index |-> kept, answer |-> "accepted", batch |-> stored]
              done == AppendBatch(index, batch)
  <2>1. done = CASE replayed -> known
                 [] ~ replayed /\ follows -> raised
                 [] ~ replayed /\ ~ follows /\ loop.stopped -> half
                 [] OTHER -> whole
    BY DEF AppendBatch, Start, Recording
  <2>2. replayed \/ follows
    OBVIOUS
  <2>. HIDE DEF replayed, follows, loop, half, whole, known, raised, done
  <2>3. done = known \/ done = raised
    BY <2>1, <2>2
  <2>. QED  BY <2>3 DEF done
<1>. QED  BY <1>1

\* The answer to a batch that is stored: the journal after the loop, with it.
IsAccepted(index, batch, loop, stored) ==
    LET done == AppendBatch(index, batch)
    IN  /\ done.answer = "accepted" /\ done.batch = stored
        /\ done.index.seq = index.seq + 1
        /\ done.index.batches = Append(loop.index.batches, stored)
        /\ done.index.commands = loop.index.commands
        /\ done.index.events = loop.index.events
        /\ done.index.last = loop.index.last

\* What is new, with a loop that goes to its end, is accepted.
LEMMA Accepting ==
    ASSUME NEW index \in Index, NEW batch \in StoredBatch,
           ~ Replays(index, batch), ~ HasKnownFollower(index, batch),
           NEW loop \in Loop, loop = Recording(Start(index), batch.units), ~ loop.stopped,
           NEW stored, stored = [batch EXCEPT !.seq = index.seq + 1, !.units = loop.units]
    PROVE  IsAccepted(index, batch, loop, stored)
<1>. DEFINE kept == [loop.index EXCEPT !.seq = index.seq + 1, !.batches = Append(@, stored)]
            replayed == Replays(index, batch)
            follows == HasKnownFollower(index, batch)
            known == [index |-> index, answer |-> "replayed", batch |-> batch]
            raised == [index |-> index, answer |-> "raised", batch |-> batch]
            half == [index |-> loop.index, answer |-> "raised", batch |-> batch]
            whole == [index |-> kept, answer |-> "accepted", batch |-> stored]
            done == AppendBatch(index, batch)
<1>1. done = CASE replayed -> known
               [] ~ replayed /\ follows -> raised
               [] ~ replayed /\ ~ follows /\ loop.stopped -> half
               [] OTHER -> whole
  BY DEF AppendBatch, Start, Recording
<1>2. ~ replayed /\ ~ follows
  OBVIOUS
<1>3. done = whole
  <2>. HIDE DEF replayed, follows, half, whole, known, raised, done
  <2>. QED  BY <1>1, <1>2
<1>4. done.answer = "accepted" /\ done.batch = stored /\ done.index = kept
  <2>. HIDE DEF done, kept
  <2>. QED  BY <1>3
<1>5. PICK journal \in Index : journal = loop.index
  BY DEF Loop
<1>6. /\ kept.seq = index.seq + 1 /\ kept.batches = Append(journal.batches, stored)
      /\ kept.commands = journal.commands /\ kept.events = journal.events
      /\ kept.last = journal.last
  <2>1. kept = [journal EXCEPT !.seq = index.seq + 1, !.batches = Append(journal.batches, stored)]
    BY <1>5
  <2>. HIDE DEF kept
  <2>. QED  BY <2>1 DEF Index
<1>. HIDE DEF kept, done
<1>7. /\ done.answer = "accepted" /\ done.batch = stored
      /\ done.index.seq = index.seq + 1
      /\ done.index.batches = Append(loop.index.batches, stored)
      /\ done.index.commands = loop.index.commands
      /\ done.index.events = loop.index.events
      /\ done.index.last = loop.index.last
  BY <1>4, <1>5, <1>6
<1>. QED  BY <1>7 DEF done, IsAccepted

\* Once the first journal has accepted the batch, the second accepts what was
\* stored; otherwise the first has not changed.
LEMMA AppendMirrored ==
    ASSUME NEW index \in Index, NEW other \in Index, SameHistory(index, other),
           NEW batch \in StoredBatch, batch.units # <<>>, UnitsOnce(batch.units)
    PROVE  LET done == AppendBatch(index, batch)
           IN  IF done.answer = "accepted"
               THEN SameHistory(done.index, AppendBatch(other, done.batch).index)
               ELSE SameHistory(done.index, other)
<1>1. CASE Replays(index, batch) \/ HasKnownFollower(index, batch)
  BY <1>1, Refusing
<1>2. CASE ~ Replays(index, batch) /\ ~ HasKnownFollower(index, batch)
  <2>1. PICK units \in Seq(StoredUnit) : units = batch.units
    BY DEF StoredBatch
  <2>2. /\ 1 \in DOMAIN units /\ DOMAIN units = 1..Len(units) /\ Len(units) \in Nat
        /\ \A i \in DOMAIN units : Command(units[i]) \notin index.commands
    <3>1. Len(units) # 0 /\ DOMAIN units = 1..Len(units) /\ Len(units) \in Nat
      BY <2>1, EmptySeq
    <3>2. 1 \in DOMAIN units
      BY <3>1
    <3>3. \A i \in DOMAIN units : i = 1 \/ i # 1
      OBVIOUS
    <3>. QED  BY <1>2, <2>1, <3>1, <3>2, <3>3 DEF Replays, HasKnownFollower
  <2>3. PICK h, out : WholeLoop(h, index, units, out)
    BY <2>1, <2>2, WholeRecording
  <2>4. PICK loop \in Loop : loop = Recording(Start(index), batch.units)
    BY <2>1, LoopKeeps
  <2>5. /\ out \in Seq(StoredUnit) /\ Len(out) = Len(units) /\ DOMAIN out = DOMAIN units
        /\ loop = h[Len(units)] /\ loop.units = out /\ ~ loop.stopped
        /\ \A i \in DOMAIN units : Command(out[i]) = Command(units[i])
    <3>1. Len(units) \in 0..Len(units)
      BY <2>2
    <3>. QED  BY <2>1, <2>2, <2>3, <2>4, <3>1 DEF WholeLoop
  <2>6. PICK done : done = AppendBatch(index, batch)
    OBVIOUS
  <2>7. PICK stored : stored = [batch EXCEPT !.seq = index.seq + 1, !.units = out]
    OBVIOUS
  <2>8. IsAccepted(index, batch, loop, stored)
    <3>1. stored = [batch EXCEPT !.seq = index.seq + 1, !.units = loop.units]
      BY <2>5, <2>7
    <3>2. ~ Replays(index, batch) /\ ~ HasKnownFollower(index, batch) /\ ~ loop.stopped
      BY <1>2, <2>5
    <3>. QED  BY <2>4, <3>1, <3>2, Accepting
  <2>9. stored \in StoredBatch /\ stored.units = out /\ stored.seq = index.seq + 1
    <3>1. index.seq \in Nat
      BY DEF Index
    <3>2. PICK seq \in Nat : seq = index.seq + 1
      BY <3>1
    <3>3. stored = [batch EXCEPT !.seq = seq, !.units = out]
      BY <2>7, <3>2
    <3>4. stored \in StoredBatch /\ stored.units = out /\ stored.seq = seq
      BY <2>5, <3>3 DEF StoredBatch
    <3>. QED  BY <3>2, <3>4
  <2>10. ~ Replays(other, stored) /\ ~ HasKnownFollower(other, stored)
    BY <2>2, <2>5, <2>9 DEF Replays, HasKnownFollower, SameHistory
  <2>11. PICK mirror \in Loop : /\ mirror = Recording(Start(other), out)
                                /\ ~ mirror.stopped /\ mirror.units = out
                                /\ SameHistory(loop.index, mirror.index)
    BY <2>1, <2>3, <2>4, MirroredRecording
  <2>12. PICK again : again = AppendBatch(other, stored)
    OBVIOUS
  <2>13. [stored EXCEPT !.seq = other.seq + 1, !.units = out] = stored
    <3>1. other.seq + 1 = stored.seq
      BY <2>9 DEF SameHistory
    <3>. QED  BY <2>9, <3>1 DEF StoredBatch
  <2>14. IsAccepted(other, stored, mirror, stored)
    <3>1. mirror = Recording(Start(other), stored.units) /\ ~ mirror.stopped
      BY <2>9, <2>11
    <3>2. stored = [stored EXCEPT !.seq = other.seq + 1, !.units = mirror.units]
      BY <2>11, <2>13
    <3>. QED  BY <2>9, <2>10, <3>1, <3>2, Accepting
  <2>15. SameHistory(done.index, again.index)
    BY <2>6, <2>8, <2>11, <2>12, <2>14 DEF SameHistory, IsAccepted
  <2>16. done.answer = "accepted" /\ done.batch = stored
    BY <2>6, <2>8 DEF IsAccepted
  <2>. QED  BY <2>6, <2>12, <2>15, <2>16
<1>. QED  BY <1>1, <1>2

\* What a journal has after a batch of which nothing is known: what the loop recorded.
AppendsAll(index, batch, h, out) ==
    LET done == AppendBatch(index, batch)
        last == h[Len(batch.units)].index
    IN  /\ WholeLoop(h, index, batch.units, out)
        /\ done.index \in Index
        /\ done.answer = "accepted"
        /\ done.index.commands = last.commands
        /\ done.index.events = last.events
        /\ done.index.processes = index.processes

LEMMA AppendingAll ==
    ASSUME NEW index \in Index, NEW batch \in StoredBatch,
           batch.units # <<>>, UnitsOnce(batch.units),
           \A i \in DOMAIN batch.units : Command(batch.units[i]) \notin index.commands
    PROVE  \E h, out : AppendsAll(index, batch, h, out)
<1>1. PICK units \in Seq(StoredUnit) : units = batch.units
  BY DEF StoredBatch
<1>2. PICK h, out : WholeLoop(h, index, units, out)
  BY <1>1, WholeRecording
<1>3. Len(units) # 0 /\ DOMAIN units = 1..Len(units) /\ Len(units) \in Nat
  BY <1>1, EmptySeq
<1>4. 1 \in DOMAIN units /\ Len(units) \in 0..Len(units)
  BY <1>3
<1>5. ~ Replays(index, batch) /\ ~ HasKnownFollower(index, batch)
  BY <1>1, <1>4 DEF Replays, HasKnownFollower
<1>6. PICK loop \in Loop : loop = Recording(Start(index), batch.units)
  BY <1>1, LoopKeeps
<1>7. loop = h[Len(units)] /\ ~ loop.stopped
  BY <1>1, <1>2, <1>4, <1>6 DEF WholeLoop
<1>8. PICK stored : stored = [batch EXCEPT !.seq = index.seq + 1, !.units = loop.units]
  OBVIOUS
<1>9. IsAccepted(index, batch, loop, stored)
  BY <1>5, <1>6, <1>7, <1>8, Accepting
<1>10. PICK done : done = AppendBatch(index, batch)
  OBVIOUS
<1>11. /\ done.answer = "accepted" /\ done.index.commands = loop.index.commands
       /\ done.index.events = loop.index.events
  BY <1>9, <1>10 DEF IsAccepted
<1>12. done.index \in Index /\ done.index.processes = index.processes
  BY <1>10, Appending
<1>13. AppendsAll(index, batch, h, out)
  BY <1>1, <1>2, <1>7, <1>10, <1>11, <1>12 DEF AppendsAll
<1>. QED  BY <1>13

\* What one unit of a batch with one event adds.
Turned(h, k, run, key) ==
    /\ h[k-1].index \in Index /\ h[k].index \in Index
    /\ h[k].index.commands = h[k-1].index.commands \cup {<<run, key>>}
    /\ \E e : /\ e.key = key
              /\ h[k].index.events = [h[k-1].index.events EXCEPT ![run] = Append(@, e)]

LEMMA LoopTurn ==
    ASSUME NEW index \in Index, NEW units \in Seq(StoredUnit), NEW h, NEW out,
           WholeLoop(h, index, units, out), NEW k \in 1..Len(units),
           NEW unit \in StoredUnit, unit = units[k], Len(unit.events) = 1
    PROVE  Turned(h, k, unit.run, unit.key)
<1>1. Len(units) \in Nat
  OBVIOUS
<1>2. k \in 0..Len(units) /\ k - 1 \in 0..Len(units)
  BY <1>1
<1>3. PICK before \in Index : before = h[k-1].index
  BY <1>2 DEF WholeLoop, Loop
<1>4. PICK new \in StoredUnit : new = Numbered(before, unit)
  BY NumberedUnit
<1>5. new.run = unit.run /\ new.key = unit.key /\ Len(new.events) = 1
      /\ Command(new) = <<unit.run, unit.key>>
  BY <1>4, NumberedUnit DEF Command
<1>6. PICK after \in Index : after = Recorded(before, new)
  BY RecordedUnit
<1>7. h[k].index = after
  BY <1>3, <1>4, <1>6 DEF WholeLoop
<1>8. /\ after.commands = before.commands \cup {Command(new)}
      /\ after.events = [before.events EXCEPT ![new.run] = @ \o EventsOf(new)]
  BY <1>6, RecordedUnit
<1>9. PICK e : e = [key |-> unit.key, sequence |-> new.events[1]]
  OBVIOUS
<1>10. EventsOf(new) = <<e>>
  <2>1. DOMAIN new.events = 1..1
    BY <1>5 DEF StoredUnit
  <2>2. EventsOf(new) = [i \in 1..1 |-> [key |-> new.key, sequence |-> new.events[i]]]
    BY <2>1 DEF EventsOf
  <2>3. \A i \in 1..1 : i = 1
    OBVIOUS
  <2>4. EventsOf(new) = [i \in 1..1 |-> e]
    BY <1>5, <1>9, <2>2, <2>3
  <2>. QED  BY <2>4
<1>11. unit.run \in Run /\ before.events[unit.run] \in Seq([key : Key, sequence : Nat])
  BY DEF StoredUnit, Index
<1>12. before.events[unit.run] \o <<e>> = Append(before.events[unit.run], e)
  <2>1. PICK events : /\ events = before.events[unit.run]
                      /\ events \in Seq([key : Key, sequence : Nat])
    BY <1>11
  <2>2. events \o <<e>> = Append(events, e)
    BY <2>1
  <2>. QED  BY <2>1, <2>2
<1>13. after.events = [before.events EXCEPT ![unit.run] = Append(@, e)]
  BY <1>5, <1>8, <1>10, <1>12
<1>. QED  BY <1>2, <1>3, <1>5, <1>7, <1>8, <1>9, <1>13 DEF Turned

=============================================================================
