------------------------- MODULE PlanAndTail_proofs -------------------------
(***************************************************************************)
(* Proofs about the execution plan of the pipeline (Pipeline) and about    *)
(* the tail reader (TailReader), for every set of nodes, every limit of a  *)
(* tick and every length of the file.  The two share no state; both put    *)
(* numbers in ascending order, and part 1 is about that (Positions).       *)
(*                                                                         *)
(* The tail reader (part 2): what is before the cursor is taken and what   *)
(* is behind it is newer than all that was handed over, so a commit adds   *)
(* lines that are both missing and newer.  The plan (part 3): the queue of *)
(* the sort holds exactly the nodes that wait for none, so an empty queue  *)
(* means that all are ordered or that each node left depends on another    *)
(* one left; and a set of nodes that is closed under dependencies has all  *)
(* that its members need, so what is before a node is all that it needs.   *)
(***************************************************************************)
EXTENDS Pipeline, TailReader, SequenceTheorems, FiniteSetTheorems, WellFoundedInduction, TLAPS

-----------------------------------------------------------------------------
(* Part 1, numbers in ascending order.                                     *)

\* Of the members of a finite set, more are at most z than are at most a smaller x.
LEMMA RankGrows ==
    ASSUME NEW S \in SUBSET Nat, IsFiniteSet(S), NEW x \in S, NEW z \in S, x < z
    PROVE  Cardinality({y \in S : y <= x}) < Cardinality({y \in S : y <= z})
<1> DEFINE X == {y \in S : y <= x}
           Z == {y \in S : y <= z}
<1>1. IsFiniteSet(Z) /\ IsFiniteSet(X)
  BY FS_Subset
<1>2. X \in SUBSET Z /\ z \in Z /\ z \notin X
  <2>1. \A y \in S : y \in Nat
    OBVIOUS
  <2>2. \A y \in S : y <= x => y <= z
    BY <2>1
  <2>3. z <= z /\ ~(z <= x)
    BY <2>1
  <2> QED BY <2>2, <2>3
<1>3. X # Z
  BY <1>2
<1> HIDE DEF X, Z
<1>4. /\ Cardinality(X) <= Cardinality(Z)
      /\ Cardinality(Z) # Cardinality(X)
      /\ Cardinality(X) \in Nat /\ Cardinality(Z) \in Nat
  BY <1>1, <1>2, <1>3, FS_Subset, FS_CardinalityType
<1>5. Cardinality(X) < Cardinality(Z)
  BY <1>4
<1> QED BY <1>5 DEF X, Z

\* There is an increasing sequence of the members of a finite set of numbers: the inverse
\* of their ranks.
LEMMA AscendingExists ==
    ASSUME NEW S \in SUBSET Nat, IsFiniteSet(S)
    PROVE  \E s \in [1 .. Cardinality(S) -> S] :
              \A i, j \in 1 .. Cardinality(S) : i < j => s[i] < s[j]
<1> DEFINE n == Cardinality(S)
           rank == [x \in S |-> Cardinality({y \in S : y <= x})]
<1>1. n \in Nat /\ IsFiniteSet(1..n) /\ Cardinality(1..n) = n
  <2>1. n \in Nat
    BY FS_CardinalityType
  <2>2. /\ IsFiniteSet(1..n)
        /\ Cardinality(1..n) = IF 1 > n THEN 0 ELSE n - 1 + 1
    BY <2>1, FS_Interval
  <2> HIDE DEF n
  <2> QED BY <2>1, <2>2
<1>2. ASSUME NEW x \in S
      PROVE  rank[x] \in 1..n
  <2> DEFINE X == {y \in S : y <= x}
  <2>1. X \in SUBSET S /\ x \in X
    OBVIOUS
  <2> HIDE DEF X
  <2>2. IsFiniteSet(X) /\ Cardinality(X) <= n /\ Cardinality(X) \in Nat
    BY <2>1, FS_Subset, FS_CardinalityType
  <2>3. Cardinality(X) # 0
    BY <2>1, <2>2, FS_EmptySet
  <2>4. Cardinality(X) \in 1..n
    <3> HIDE DEF n
    <3> QED BY <1>1, <2>2, <2>3
  <2> QED BY <2>4 DEF X
<1>3. ASSUME NEW x \in S, NEW z \in S, x < z
      PROVE  rank[x] < rank[z]
  BY <1>3, RankGrows
<1>4. rank \in Injection(S, 1..n)
  <2>1. rank \in [S -> 1..n]
    BY <1>2
  <2> HIDE DEF rank, n
  <2>2. ASSUME NEW x \in S, NEW z \in S, rank[x] = rank[z]
        PROVE  x = z
    <3>1. x \in Nat /\ z \in Nat /\ rank[x] \in Nat /\ rank[z] \in Nat
      BY <1>1, <1>2
    <3>2. ~(x < z) /\ ~(z < x)
      BY <1>3, <2>2, <3>1
    <3> QED BY <3>1, <3>2
  <2> QED BY <2>1, <2>2 DEF Injection, IsInjective
<1>5. \A k \in 1..n : \E x \in S : rank[x] = k
  <2> HIDE DEF rank
  <2>1. rank \in Surjection(S, 1..n)
    BY <1>1, <1>4, FS_Injection
  <2> QED BY <2>1 DEF Surjection
<1> DEFINE s == [k \in 1..n |-> CHOOSE x \in S : rank[x] = k]
<1>6. s \in [1..n -> S] /\ \A k \in 1..n : rank[s[k]] = k
  <2> HIDE DEF rank, n
  <2> QED BY <1>5
<1>7. ASSUME NEW i \in 1..n, NEW j \in 1..n, i < j
      PROVE  s[i] < s[j]
  <2> HIDE DEF rank, n, s
  <2>1. s[i] \in S /\ s[j] \in S /\ rank[s[i]] = i /\ rank[s[j]] = j
    BY <1>6
  <2>2. s[i] \in Nat /\ s[j] \in Nat /\ i \in Nat /\ j \in Nat
    <3>1. s[i] \in Nat /\ s[j] \in Nat
      BY <2>1
    <3> QED BY <1>1, <3>1
  <2>3. s[i] # s[j]
    BY <1>7, <2>1, <2>2
  <2>4. ~(s[j] < s[i])
    BY <1>3, <1>7, <2>1, <2>2
  <2> QED BY <2>2, <2>3, <2>4
<1> QED
  <2> HIDE DEF s
  <2> QED BY <1>6, <1>7

\* Ascending has every member of a finite set of numbers once, the smaller ones first.
LEMMA AscendingFacts ==
    ASSUME NEW S \in SUBSET Nat, IsFiniteSet(S)
    PROVE  /\ Cardinality(S) \in Nat
           /\ Ascending(S) \in [1 .. Cardinality(S) -> S]
           /\ \A i, j \in 1 .. Cardinality(S) : i < j => Ascending(S)[i] < Ascending(S)[j]
           /\ \A x \in S : \E i \in 1 .. Cardinality(S) : Ascending(S)[i] = x
           /\ IsInjective(Ascending(S))
<1> DEFINE n == Cardinality(S)
           s == Ascending(S)
<1>1. n \in Nat /\ IsFiniteSet(1..n) /\ Cardinality(1..n) = n
  <2>1. n \in Nat
    BY FS_CardinalityType
  <2>2. /\ IsFiniteSet(1..n)
        /\ Cardinality(1..n) = IF 1 > n THEN 0 ELSE n - 1 + 1
    BY <2>1, FS_Interval
  <2> HIDE DEF n
  <2> QED BY <2>1, <2>2
<1>2. s \in [1..n -> S] /\ \A i, j \in 1..n : i < j => s[i] < s[j]
  <2>1. \E t \in [1..n -> S] : \A i, j \in 1..n : i < j => t[i] < t[j]
    BY AscendingExists
  <2> QED BY <2>1 DEF Ascending
<1> HIDE DEF s, n
<1>3. ASSUME NEW i \in 1..n, NEW j \in 1..n, s[i] = s[j]
      PROVE  i = j
  <2>1. i \in Nat /\ j \in Nat /\ s[i] \in Nat
    <3>1. s[i] \in S
      BY <1>2
    <3>2. s[i] \in Nat
      BY <3>1
    <3> QED BY <1>1, <3>2
  <2>2. ~(i < j) /\ ~(j < i)
    BY <1>2, <1>3, <2>1
  <2> QED BY <2>1, <2>2
<1>4. IsInjective(s) /\ s \in Injection(1..n, S)
  BY <1>2, <1>3 DEF Injection, IsInjective
<1>5. s \in Surjection(1..n, S)
  BY <1>1, <1>4, FS_Injection DEF n
<1>6. \A x \in S : \E i \in 1..n : s[i] = x
  BY <1>5 DEF Surjection
<1> QED BY <1>1, <1>2, <1>4, <1>6 DEF s, n

-----------------------------------------------------------------------------
(* Part 2, the tail reader: the inductive invariant.                       *)

Bases == {"Idle", "CursorResetRequired", "RotationDetected"}
Byte == [line : Nat, kind : LineKinds, end : BOOLEAN]

\* Type correctness of the file, the source and the history.
TailTypes ==
    /\ file \in Seq(Byte) /\ written \in Nat
    /\ cursor \in Nat
    /\ reading \in [on : BOOLEAN, offset : Nat, len : Nat, base : Bases]
    /\ handed \in Seq(Nat) /\ faults \in Nat
    /\ sameFile \in BOOLEAN /\ strayed \in BOOLEAN

\* Lines lie in the file in the order they were begun, none after its end; what was
\* handed over was written.
LinesInOrder ==
    /\ \A i \in 1..Len(file) : file[i].line <= written
    /\ \A i, j \in 1..Len(file) :
          i < j => file[i].line <= file[j].line /\ (file[i].end => file[i].line < file[j].line)
    /\ \A h \in 1..Len(handed) : handed[h] <= written

\* A tick in progress reads on at the cursor or, when it saw a rotation, from the start.
TickAgrees ==
    reading.on =>
        /\ reading.offset = cursor \/ (reading.offset = 0 /\ ~sameFile)
        /\ reading.base # "Idle" => reading.offset = 0

\* A cursor that was set in this file stands at the end of a line of it.
CursorAtEnd == sameFile /\ cursor > 0 => cursor <= Len(file) /\ file[cursor].end

\* The lines before the cursor were handed over or are counted.
PassedTaken ==
    sameFile /\ ~strayed =>
        \A i \in 1..cursor : NonBlankEnd(file, i) => file[i].line \in Range(handed) \cup settled

\* What was handed over is in order and older than all that is still to be read: what lies
\* behind the cursor and, in another file than the cursor's, everything.
HandedBehind ==
    faults = 0 /\ ~strayed =>
        /\ \A g, h \in 1..Len(handed) : g < h => handed[g] < handed[h]
        /\ \A i \in 1..Len(file), h \in 1..Len(handed) :
              ~sameFile \/ i > cursor => handed[h] < file[i].line

TailInv == TailTypes /\ LinesInOrder /\ TickAgrees /\ CursorAtEnd /\ PassedTaken /\ HandedBehind

-----------------------------------------------------------------------------
(* The buffer of a tick and what is taken of it.                           *)

\* The least and the greatest of a finite set of numbers, and of two.
LEMMA MinMaxFacts ==
    /\ \A a, b \in Int : Min({a, b}) \in {a, b} /\ Min({a, b}) <= a /\ Min({a, b}) <= b
    /\ \A S \in SUBSET Nat : IsFiniteSet(S) /\ S # {} =>
          /\ Min(S) \in S /\ \A y \in S : Min(S) <= y
          /\ Max(S) \in S /\ \A y \in S : y <= Max(S)
<1>1. ASSUME NEW a \in Int, NEW b \in Int
      PROVE  Min({a, b}) \in {a, b} /\ Min({a, b}) <= a /\ Min({a, b}) <= b
  <2>1. \E x \in {a, b} : \A y \in {a, b} : x <= y
    OBVIOUS
  <2>2. Min({a, b}) \in {a, b} /\ \A y \in {a, b} : Min({a, b}) <= y
    BY <2>1 DEF Min
  <2> QED BY <2>2
<1>2. ASSUME NEW S \in SUBSET Nat, IsFiniteSet(S), S # {}
      PROVE  /\ Min(S) \in S /\ \A y \in S : Min(S) <= y
             /\ Max(S) \in S /\ \A y \in S : y <= Max(S)
  <2> DEFINE n == Cardinality(S)
             s == Ascending(S)
  <2>1. /\ n \in Nat /\ s \in [1..n -> S]
        /\ \A i, j \in 1..n : i < j => s[i] < s[j]
        /\ \A x \in S : \E i \in 1..n : s[i] = x
    BY <1>2, AscendingFacts
  <2> HIDE DEF n, s
  <2>2. n >= 1
    <3>1. PICK x \in S : TRUE
      BY <1>2
    <3>2. PICK i \in 1..n : s[i] = x
      BY <2>1, <3>1
    <3> QED BY <2>1, <3>2
  <2>3. s[1] \in S /\ s[n] \in S
    BY <2>1, <2>2
  <2>4. ASSUME NEW y \in S PROVE s[1] <= y /\ s[n] >= y
    <3>1. PICK i \in 1..n : s[i] = y
      BY <2>1
    <3>2. i = 1 \/ s[1] < s[i]
      BY <2>1, <2>2, <3>1
    <3>3. i = n \/ s[i] < s[n]
      BY <2>1, <2>2, <3>1
    <3>4. y \in Nat /\ s[1] \in Nat /\ s[n] \in Nat
      BY <2>3
    <3> QED BY <3>1, <3>2, <3>3, <3>4
  <2>5. Min(S) \in S /\ \A y \in S : Min(S) <= y
    <3>1. \E x \in S : \A y \in S : x <= y
      BY <2>3, <2>4
    <3> QED BY <3>1 DEF Min
  <2>6. Max(S) \in S /\ \A y \in S : Max(S) >= y
    <3>1. \E x \in S : \A y \in S : x >= y
      BY <2>3, <2>4
    <3> QED BY <3>1 DEF Max
  <2>7. ASSUME NEW y \in S PROVE y <= Max(S)
    <3>1. y \in Nat /\ Max(S) \in Nat /\ Max(S) >= y
      BY <2>6
    <3> QED BY <3>1
  <2> QED BY <2>5, <2>6, <2>7
<1> QED BY <1>1, <1>2

\* What a tick reads: the bytes of the file from the offset on.
LEMMA BufferFacts ==
    ASSUME TailTypes
    PROVE  /\ Buffer \in Seq(Byte)
           /\ \A i \in 1..Len(Buffer) :
                 reading.offset + i \in 1..Len(file) /\ Buffer[i] = file[reading.offset + i]
<1> DEFINE o == reading.offset
           n == Min({reading.len - o, MaxBytesPerTick})
           m == Min({o + n, Len(file)})
<1>1. o \in Nat /\ reading.len \in Nat /\ Len(file) \in Nat /\ file \in Seq(Byte)
  BY LenProperties DEF TailTypes
<1>2. n \in Int
  <2>1. reading.len - o \in Int /\ MaxBytesPerTick \in Int
    BY <1>1, TailReaderAssumption
  <2> QED BY <2>1, MinMaxFacts
<1> HIDE DEF n
<1>3. m \in Int /\ m <= Len(file)
  <2>1. o + n \in Int /\ Len(file) \in Int
    BY <1>1, <1>2
  <2> QED BY <2>1, MinMaxFacts
<1>4. Buffer = SubSeq(file, o + 1, m)
  BY DEF Buffer, n
<1> HIDE DEF o, m
<1>5. \A i \in o + 1 .. m : file[i] \in Byte /\ i \in 1..Len(file)
  <2> SUFFICES ASSUME NEW i \in o + 1 .. m PROVE file[i] \in Byte /\ i \in 1..Len(file)
    OBVIOUS
  <2>1. i \in 1..Len(file)
    BY <1>1, <1>3
  <2> QED BY <1>1, <2>1, ElementOfSeq
<1>6. o + 1 \in Int
  BY <1>1
<1>7. /\ Buffer \in Seq(Byte)
      /\ Len(Buffer) = IF o + 1 <= m THEN m - (o + 1) + 1 ELSE 0
      /\ \A i \in 1 .. m - (o + 1) + 1 : Buffer[i] = file[(o + 1) + i - 1]
  BY <1>3, <1>4, <1>5, <1>6, SubSeqProperties
<1>8. ASSUME NEW i \in 1..Len(Buffer)
      PROVE  o + i \in 1..Len(file) /\ Buffer[i] = file[o + i]
  <2>1. /\ i \in 1 .. m - (o + 1) + 1 /\ (o + 1) + i - 1 = o + i
        /\ o + i \in o + 1 .. m
    BY <1>1, <1>3, <1>7
  <2> QED BY <1>5, <1>7, <2>1
<1> QED BY <1>7, <1>8 DEF o

\* bounded_complete_lines takes complete lines from the front of the buffer, at least one
\* and, when there is no backpressure, all of them.
LEMMA TakenFacts ==
    ASSUME NEW buffer \in Seq(Byte), LineEnds(buffer) # {}
    PROVE  /\ TakenEnds(buffer) \in SUBSET LineEnds(buffer)
           /\ LineEnds(buffer) \in SUBSET (1..Len(buffer))
           /\ IsFiniteSet(LineEnds(buffer)) /\ IsFiniteSet(TakenEnds(buffer))
           /\ ProcessedBytes(buffer) \in TakenEnds(buffer)
           /\ \A i \in TakenEnds(buffer) : i <= ProcessedBytes(buffer)
           /\ \A i \in LineEnds(buffer) : i <= ProcessedBytes(buffer) => i \in TakenEnds(buffer)
           /\ ~Backpressured(buffer) => TakenEnds(buffer) = LineEnds(buffer)
<1> DEFINE E == LineEnds(buffer)
           T == TakenEnds(buffer)
           Upto(i) == {j \in E : j <= i}
<1>1. E \in SUBSET (1..Len(buffer)) /\ E \in SUBSET Nat /\ Len(buffer) \in Nat
  <2>1. Len(buffer) \in Nat /\ DOMAIN buffer = 1..Len(buffer)
    BY LenProperties
  <2>2. E \in SUBSET (1..Len(buffer))
    BY <2>1 DEF LineEnds
  <2> QED BY <2>1, <2>2
<1>2. IsFiniteSet(E)
  <2>1. 1 \in Int /\ Len(buffer) \in Int
    BY <1>1
  <2>2. IsFiniteSet(1..Len(buffer))
    BY <2>1, FS_Interval
  <2> QED BY <1>1, <2>2, FS_Subset
<1>3. T \in SUBSET E
  BY DEF TakenEnds
<1>4. IsFiniteSet(T)
  BY <1>2, <1>3, FS_Subset
<1>5. \A i \in E : i \in T <=> Cardinality(Upto(i)) <= MaxRecordsPerTick
  BY DEF TakenEnds, EndsUpTo
<1>0. E # {}
  OBVIOUS
<1>e. ASSUME NEW i \in Nat
      PROVE  /\ Upto(i) \in SUBSET E /\ IsFiniteSet(Upto(i)) /\ Cardinality(Upto(i)) \in Nat
             /\ Cardinality(Upto(i)) <= Cardinality(E) /\ Cardinality(E) \in Nat
  <2>1. Upto(i) \in SUBSET E
    OBVIOUS
  <2> QED BY <1>2, <2>1, FS_Subset, FS_CardinalityType
<1>m. MaxRecordsPerTick \in Nat \ {0}
  BY TailReaderAssumption
<1> HIDE DEF E, T
<1>6. Min(E) \in T
  <2>1. Min(E) \in E /\ \A y \in E : Min(E) <= y
    BY <1>0, <1>1, <1>2, MinMaxFacts
  <2>2. Upto(Min(E)) = {Min(E)}
    <3>1. ASSUME NEW y \in E, y <= Min(E) PROVE y = Min(E)
      <4>1. y \in Nat /\ Min(E) \in Nat /\ Min(E) <= y
        BY <1>1, <2>1
      <4> QED BY <3>1, <4>1
    <3>2. Min(E) <= Min(E)
      BY <1>1, <2>1
    <3> QED BY <2>1, <3>1, <3>2
  <2>3. Cardinality(Upto(Min(E))) <= MaxRecordsPerTick
    <3>1. Cardinality({Min(E)}) = 1
      BY FS_Singleton
    <3>2. 1 <= MaxRecordsPerTick
      BY <1>m
    <3> QED BY <2>2, <3>1, <3>2
  <2> QED BY <1>5, <2>1, <2>3
<1>7. T \in SUBSET Nat /\ T # {}
  BY <1>1, <1>3, <1>6
<1>8. ProcessedBytes(buffer) = Max(T)
  BY DEF ProcessedBytes, TakenEnds, T
<1>9. Max(T) \in T /\ \A i \in T : i <= Max(T)
  BY <1>4, <1>7, MinMaxFacts
<1>10. ASSUME NEW i \in E, i <= Max(T)
       PROVE  i \in T
  <2>1. i \in Nat /\ Max(T) \in Nat /\ Max(T) \in E
    BY <1>1, <1>3, <1>9
  <2>2. Cardinality(Upto(Max(T))) <= MaxRecordsPerTick
    BY <1>5, <1>9, <2>1
  <2>3. Upto(i) \in SUBSET Upto(Max(T))
    <3>1. ASSUME NEW y \in E, y <= i PROVE y <= Max(T)
      <4>1. y \in Nat
        BY <1>1
      <4> QED BY <1>10, <2>1, <3>1, <4>1
    <3> QED BY <3>1
  <2>4. Cardinality(Upto(i)) <= Cardinality(Upto(Max(T)))
    BY <1>e, <2>1, <2>3, FS_Subset
  <2>5. Cardinality(Upto(i)) \in Nat /\ Cardinality(Upto(Max(T))) \in Nat
    BY <1>e, <2>1
  <2>6. Cardinality(Upto(i)) <= MaxRecordsPerTick
    <3> HIDE DEF Upto
    <3> QED BY <1>m, <2>2, <2>4, <2>5
  <2> QED BY <1>5, <2>6
<1>11. ASSUME ~Backpressured(buffer)
       PROVE  T = E
  <2>1. Cardinality(E) \in Nat /\ ~(Cardinality(E) > MaxRecordsPerTick)
    BY <1>2, <1>11, FS_CardinalityType DEF Backpressured, E
  <2>2. ASSUME NEW i \in E PROVE i \in T
    <3>1. i \in Nat
      BY <1>1
    <3>2. Cardinality(Upto(i)) <= Cardinality(E) /\ Cardinality(Upto(i)) \in Nat
      BY <1>e, <3>1
    <3>3. Cardinality(Upto(i)) <= MaxRecordsPerTick
      <4> HIDE DEF Upto
      <4> QED BY <1>m, <2>1, <3>2
    <3> QED BY <1>5, <3>3
  <2> QED BY <1>3, <2>2
<1> QED BY <1>1, <1>2, <1>3, <1>4, <1>8, <1>9, <1>10, <1>11 DEF E, T

\* The lines at some of a buffer's ends: those lines, in the order of the buffer.
LEMMA LinesAtFacts ==
    ASSUME NEW buffer \in Seq(Byte), NEW ends \in SUBSET (1..Len(buffer))
    PROVE  LET order == Ascending(ends)
               lines == LinesAt(buffer, ends)
           IN  /\ lines \in Seq(Nat)
               /\ \A k \in 1..Len(lines) : order[k] \in ends /\ lines[k] = buffer[order[k]].line
               /\ \A k, l \in 1..Len(lines) : k < l => order[k] < order[l]
               /\ \A i \in ends : \E k \in 1..Len(lines) : lines[k] = buffer[i].line
<1> DEFINE n == Cardinality(ends)
           order == Ascending(ends)
           lines == LinesAt(buffer, ends)
<1>1. ends \in SUBSET Nat /\ IsFiniteSet(ends)
  <2>1. Len(buffer) \in Nat
    BY LenProperties
  <2>2. 1 \in Int /\ Len(buffer) \in Int
    BY <2>1
  <2>3. IsFiniteSet(1..Len(buffer))
    BY <2>2, FS_Interval
  <2>4. ends \in SUBSET Nat
    BY <2>1
  <2> QED BY <2>3, <2>4, FS_Subset
<1>2. /\ n \in Nat /\ order \in [1..n -> ends]
      /\ \A i, j \in 1..n : i < j => order[i] < order[j]
      /\ \A x \in ends : \E i \in 1..n : order[i] = x
  BY <1>1, AscendingFacts
<1>3. lines = [k \in 1..n |-> buffer[order[k]].line]
  BY DEF LinesAt, Picked
<1> HIDE DEF n, order, lines
<1>4. \A k \in 1..n : order[k] \in ends /\ buffer[order[k]].line \in Nat
  <2> SUFFICES ASSUME NEW k \in 1..n PROVE order[k] \in ends /\ buffer[order[k]].line \in Nat
    OBVIOUS
  <2>1. order[k] \in ends
    BY <1>2
  <2>2. buffer[order[k]] \in Byte
    BY <2>1, ElementOfSeq
  <2> QED BY <2>1, <2>2 DEF Byte
<1>5. lines \in Seq(Nat) /\ Len(lines) = n
  <2>1. lines \in [1..n -> Nat]
    BY <1>3, <1>4
  <2> QED BY <1>2, <2>1
<1>6. \A k \in 1..n : lines[k] = buffer[order[k]].line
  BY <1>3
<1>7. \A i \in ends : \E k \in 1..n : lines[k] = buffer[i].line
  BY <1>2, <1>6
<1> QED BY <1>2, <1>4, <1>5, <1>6, <1>7 DEF n, order, lines

-----------------------------------------------------------------------------
(* The steps of the writer and of the commands.                            *)

\* Types of what the state holds, and what the invariant gives without a condition.
LEMMA TailBasics ==
    ASSUME TailInv
    PROVE  /\ Len(file) \in Nat /\ Len(handed) \in Nat /\ written \in Nat /\ cursor \in Nat
           /\ faults \in Nat /\ reading.offset \in Nat
           /\ \A i \in 1..Len(file) : file[i] \in Byte /\ file[i].line \in Nat
           /\ \A h \in 1..Len(handed) : handed[h] \in Nat
<1>1. /\ file \in Seq(Byte) /\ handed \in Seq(Nat) /\ written \in Nat /\ cursor \in Nat
      /\ faults \in Nat /\ reading.offset \in Nat
  BY DEF TailInv, TailTypes
<1>2. Len(file) \in Nat /\ Len(handed) \in Nat
  BY <1>1, LenProperties
<1>3. ASSUME NEW i \in 1..Len(file) PROVE file[i] \in Byte /\ file[i].line \in Nat
  <2>1. file[i] \in Byte
    BY <1>1, ElementOfSeq
  <2> QED BY <2>1 DEF Byte
<1>4. ASSUME NEW h \in 1..Len(handed) PROVE handed[h] \in Nat
  BY <1>1, ElementOfSeq
<1> QED BY <1>1, <1>2, <1>3, <1>4

\* Another byte at the end of the file keeps the invariant, when it goes on with the last
\* line or begins a new one.
LEMMA ByteKeepsInv ==
    ASSUME TailInv, NEW b \in Byte, file' = Append(file, b),
           written' \in Nat, written <= written', b.line <= written',
           \A i \in 1..Len(file) :
               file[i].line <= b.line /\ (file[i].end => file[i].line < b.line),
           \A h \in 1..Len(handed) :
               faults = 0 /\ ~strayed /\ (~sameFile \/ Len(file) + 1 > cursor) => handed[h] < b.line,
           UNCHANGED <<cursor, reading, handed, settled, faults, sameFile, strayed>>
    PROVE  TailInv'
<1>0. /\ Len(file) \in Nat /\ Len(handed) \in Nat /\ written \in Nat /\ cursor \in Nat
      /\ \A i \in 1..Len(file) : file[i] \in Byte /\ file[i].line \in Nat
      /\ \A h \in 1..Len(handed) : handed[h] \in Nat
  BY TailBasics
<1>1. file \in Seq(Byte)
  BY DEF TailInv, TailTypes
<1>2. /\ file' \in Seq(Byte) /\ Len(file') = Len(file) + 1
      /\ \A i \in 1..Len(file) : file'[i] = file[i]
      /\ file'[Len(file) + 1] = b
  BY <1>1, AppendProperties
<1>b. b.line \in Nat
  BY DEF Byte
<1>3. ASSUME NEW i \in 1..Len(file')
      PROVE  (i \in 1..Len(file) /\ file'[i] = file[i]) \/ (i = Len(file) + 1 /\ file'[i] = b)
  BY <1>0, <1>2
<1>4. TailTypes'
  BY <1>2 DEF TailInv, TailTypes
<1>5. LinesInOrder'
  <2>1. ASSUME NEW i \in 1..Len(file') PROVE file'[i].line <= written'
    <3>1. CASE i \in 1..Len(file) /\ file'[i] = file[i]
      <4>1. file[i].line <= written /\ file[i].line \in Nat
        BY <1>0, <3>1 DEF TailInv, LinesInOrder
      <4> QED BY <1>0, <3>1, <4>1
    <3> QED BY <1>3, <3>1
  <2>2. ASSUME NEW i \in 1..Len(file'), NEW j \in 1..Len(file'), i < j
        PROVE  /\ file'[i].line <= file'[j].line
               /\ file'[i].end => file'[i].line < file'[j].line
    <3>1. i \in 1..Len(file) /\ file'[i] = file[i]
      BY <1>0, <1>2, <2>2
    <3>2. CASE j \in 1..Len(file) /\ file'[j] = file[j]
      BY <2>2, <3>1, <3>2 DEF TailInv, LinesInOrder
    <3> QED BY <1>3, <3>1, <3>2
  <2>3. ASSUME NEW h \in 1..Len(handed) PROVE handed[h] <= written'
    BY <1>0 DEF TailInv, LinesInOrder
  <2> QED BY <2>1, <2>2, <2>3 DEF LinesInOrder
<1>6. TickAgrees'
  BY DEF TailInv, TickAgrees
<1>7. CursorAtEnd'
  <2> SUFFICES ASSUME sameFile, cursor > 0
               PROVE  cursor <= Len(file') /\ file'[cursor].end
    BY DEF CursorAtEnd
  <2>1. cursor \in 1..Len(file) /\ file[cursor].end
    BY <1>0 DEF TailInv, CursorAtEnd
  <2> QED BY <1>0, <1>2, <2>1
<1>8. PassedTaken'
  <2> SUFFICES ASSUME sameFile, ~strayed, NEW i \in 1..cursor, NonBlankEnd(file', i)
               PROVE  file'[i].line \in Range(handed) \cup settled
    BY DEF PassedTaken
  <2>1. i \in 1..Len(file) /\ file'[i] = file[i]
    <3>1. cursor <= Len(file)
      BY <1>0 DEF TailInv, CursorAtEnd
    <3> QED BY <1>0, <1>2, <3>1
  <2> QED BY <2>1 DEF TailInv, PassedTaken, NonBlankEnd
<1>9. HandedBehind'
  <2> SUFFICES ASSUME faults = 0, ~strayed
               PROVE  /\ \A g, h \in 1..Len(handed) : g < h => handed[g] < handed[h]
                      /\ \A i \in 1..Len(file'), h \in 1..Len(handed) :
                            ~sameFile \/ i > cursor => handed[h] < file'[i].line
    BY DEF HandedBehind
  <2>1. ASSUME NEW i \in 1..Len(file'), NEW h \in 1..Len(handed), ~sameFile \/ i > cursor
        PROVE  handed[h] < file'[i].line
    <3>1. CASE i \in 1..Len(file) /\ file'[i] = file[i]
      BY <2>1, <3>1 DEF TailInv, HandedBehind
    <3>2. CASE i = Len(file) + 1 /\ file'[i] = b
      BY <2>1, <3>2
    <3> QED BY <1>3, <3>1, <3>2
  <2>2. \A g, h \in 1..Len(handed) : g < h => handed[g] < handed[h]
    BY DEF TailInv, HandedBehind
  <2> QED BY <2>1, <2>2
<1> QED BY <1>4, <1>5, <1>6, <1>7, <1>8, <1>9 DEF TailInv

\* The first byte of a line is of a line that nobody has seen.
LEMMA BeginLineKeepsInv ==
    ASSUME TailInv, NEW kind \in LineKinds, BeginLine(kind)
    PROVE  TailInv'
<1> DEFINE b == [line |-> written', kind |-> kind, end |-> kind = "blank"]
<1>0. /\ Len(file) \in Nat /\ Len(handed) \in Nat /\ written \in Nat
      /\ \A i \in 1..Len(file) : file[i].line \in Nat
      /\ \A h \in 1..Len(handed) : handed[h] \in Nat
  BY TailBasics
<1>1. /\ written' = written + 1 /\ file' = Append(file, b)
      /\ UNCHANGED <<cursor, reading, handed, settled, faults, sameFile, strayed>>
  BY DEF BeginLine, sourceVars, tailHistory
<1>2. written' \in Nat /\ written <= written' /\ b \in Byte /\ b.line = written'
  BY <1>0, <1>1 DEF Byte
<1>3. \A i \in 1..Len(file) : file[i].line < written'
  BY <1>0, <1>1 DEF TailInv, LinesInOrder
<1>4. \A h \in 1..Len(handed) : handed[h] < written'
  BY <1>0, <1>1 DEF TailInv, LinesInOrder
<1>5. \A i \in 1..Len(file) : file[i].line <= written'
  BY <1>0, <1>2, <1>3
<1>6. b.line <= written'
  BY <1>2
<1> HIDE DEF b
<1> QED BY <1>1, <1>2, <1>3, <1>4, <1>5, <1>6, ByteKeepsInv

\* A further byte of a line is behind every byte of the lines before, and behind a cursor
\* in this file.
LEMMA GrowLineKeepsInv ==
    ASSUME TailInv, NEW end \in BOOLEAN, GrowLine(end)
    PROVE  TailInv'
<1> DEFINE n == Len(file)
           b == [file[n] EXCEPT !.end = end]
<1>0. /\ Len(file) \in Nat /\ Len(handed) \in Nat /\ written \in Nat /\ cursor \in Nat
      /\ \A i \in 1..Len(file) : file[i] \in Byte /\ file[i].line \in Nat
      /\ \A h \in 1..Len(handed) : handed[h] \in Nat
  BY TailBasics
<1>1. /\ file' = Append(file, b) /\ file # <<>> /\ ~file[n].end
      /\ UNCHANGED <<written, cursor, reading, handed, settled, faults, sameFile, strayed>>
  BY DEF GrowLine, InLine, Last, sourceVars, tailHistory
<1>2. n \in 1..n
  <2>1. Len(file) # 0
    BY <1>1, EmptySeq DEF TailInv, TailTypes
  <2> QED BY <1>0, <2>1
<1>3. b \in Byte /\ b.line = file[n].line
  BY <1>0, <1>2 DEF Byte
<1>4. b.line <= written
  BY <1>2, <1>3 DEF TailInv, LinesInOrder
<1>5. ASSUME NEW i \in 1..n
      PROVE  file[i].line <= b.line /\ (file[i].end => file[i].line < b.line)
  <2>1. CASE i < n
    BY <1>2, <1>3, <2>1 DEF TailInv, LinesInOrder
  <2>2. CASE i = n
    <3>1. file[i].line <= b.line
      BY <1>0, <1>3, <2>2
    <3> QED BY <1>1, <2>2, <3>1
  <2> QED BY <1>0, <2>1, <2>2
<1>6. ASSUME NEW h \in 1..Len(handed), faults = 0, ~strayed, ~sameFile \/ n + 1 > cursor
      PROVE  handed[h] < b.line
  <2>1. sameFile => n > cursor
    <3> SUFFICES ASSUME sameFile PROVE n > cursor
      OBVIOUS
    <3>1. cursor # n
      BY <1>1, <1>2, <1>0 DEF TailInv, CursorAtEnd
    <3> QED BY <1>0, <1>6, <3>1
  <2>2. ~sameFile \/ n > cursor
    BY <2>1
  <2> QED BY <1>2, <1>3, <1>6, <2>2 DEF TailInv, HandedBehind
<1>7. written' \in Nat /\ written <= written' /\ b.line <= written'
  BY <1>0, <1>1, <1>4
<1> HIDE DEF b
<1> QED BY <1>1, <1>3, <1>5, <1>6, <1>7, ByteKeepsInv DEF n

\* In an emptied or a new file nothing is passed yet, and nothing of it was handed over.
LEMMA ReplaceFileKeepsInv ==
    ASSUME TailInv, ReplaceFile
    PROVE  TailInv'
<1>0. cursor \in Nat
  BY TailBasics
<1>1. /\ file' = <<>> /\ sameFile' = (cursor = 0)
      /\ UNCHANGED <<written, cursor, reading, handed, settled, faults, strayed>>
  BY DEF ReplaceFile, sourceVars
<1>2. file' \in Seq(Byte) /\ Len(file') = 0 /\ 1..Len(file') = {}
  BY <1>1, EmptySeq
<1>3. TailTypes' /\ LinesInOrder'
  BY <1>1, <1>2 DEF TailInv, TailTypes, LinesInOrder
<1>4. TickAgrees'
  BY <1>0, <1>1 DEF TailInv, TickAgrees
<1>5. CursorAtEnd' /\ PassedTaken'
  <2>1. sameFile' => cursor' = 0
    BY <1>1
  <2> QED BY <2>1 DEF CursorAtEnd, PassedTaken
<1>6. HandedBehind'
  BY <1>1, <1>2 DEF TailInv, HandedBehind
<1> QED BY <1>3, <1>4, <1>5, <1>6 DEF TailInv

\* A step that leaves the file, the cursor and the history alone, and ends the tick or not.
LEMMA TickEndsKeepsInv ==
    ASSUME TailInv, reading' \in {reading, NotReading},
           UNCHANGED <<file, written, cursor, handed, settled, faults, sameFile>>,
           strayed' \in BOOLEAN, strayed => strayed'
    PROVE  TailInv'
<1>1. TailTypes'
  <2>1. NotReading \in [on : BOOLEAN, offset : Nat, len : Nat, base : Bases]
    BY DEF NotReading, Bases
  <2>2. reading' \in [on : BOOLEAN, offset : Nat, len : Nat, base : Bases]
    BY <2>1 DEF TailInv, TailTypes
  <2> QED BY <2>2 DEF TailInv, TailTypes
<1>2. LinesInOrder' /\ CursorAtEnd' /\ TickAgrees'
  BY DEF TailInv, LinesInOrder, CursorAtEnd, TickAgrees, NotReading
<1>3. PassedTaken'
  BY DEF TailInv, PassedTaken, NonBlankEnd
<1>4. HandedBehind'
  BY DEF TailInv, HandedBehind
<1> QED BY <1>1, <1>2, <1>3, <1>4 DEF TailInv

\* Without a reader there is no cursor and no history.
LEMMA DropKeepsInv ==
    ASSUME TailInv, ~reading.on, DropReader, UNCHANGED <<fileVars, reading, faults>>
    PROVE  TailInv'
<1>1. /\ file' = file /\ written' = written /\ reading' = reading /\ faults' = faults
      /\ cursor' = 0 /\ handed' = <<>> /\ settled' = {} /\ sameFile' = TRUE /\ strayed' = FALSE
  BY DEF DropReader, fileVars
<1>2. handed' \in Seq(Nat) /\ 1..Len(handed') = {}
  BY <1>1, EmptySeq
<1>3. TailTypes' /\ LinesInOrder'
  BY <1>1, <1>2 DEF TailInv, TailTypes, LinesInOrder
<1>4. TickAgrees' /\ CursorAtEnd' /\ PassedTaken'
  BY <1>1 DEF TailInv, TickAgrees, CursorAtEnd, PassedTaken
<1>5. HandedBehind'
  BY <1>2 DEF HandedBehind
<1> QED BY <1>3, <1>4, <1>5 DEF TailInv

\* A tick without lines moves the cursor back to the start, after a rotation, or not at all.
LEMMA NothingReadKeepsInv ==
    ASSUME TailInv, NEW offset \in Nat, NEW base, NothingRead(offset, base),
           base # "Idle" => offset = 0 /\ (cursor = 0 \/ ~sameFile),
           UNCHANGED <<fileVars, handed, settled, faults, strayed>>
    PROVE  TailInv'
<1>1. UNCHANGED <<file, written, handed, settled, faults, strayed>> /\ reading' = NotReading
  BY DEF NothingRead, fileVars
<1>2. CASE base = "Idle"
  <2>1. UNCHANGED <<cursor, sameFile>>
    BY <1>2 DEF NothingRead
  <2>2. strayed' \in BOOLEAN
    BY <1>1 DEF TailInv, TailTypes
  <2> QED BY <1>1, <2>1, <2>2, TickEndsKeepsInv
<1>3. CASE base # "Idle"
  <2>1. cursor' = 0 /\ sameFile' = TRUE /\ (cursor = 0 \/ ~sameFile)
    BY <1>3 DEF NothingRead
  <2>2. TailTypes' /\ LinesInOrder'
    BY <1>1, <2>1 DEF TailInv, TailTypes, LinesInOrder, NotReading, Bases
  <2>3. TickAgrees' /\ CursorAtEnd' /\ PassedTaken'
    BY <1>1, <2>1 DEF TickAgrees, CursorAtEnd, PassedTaken, NotReading
  <2>4. HandedBehind'
    BY <1>1, <2>1 DEF TailInv, HandedBehind
  <2> QED BY <2>2, <2>3, <2>4 DEF TailInv
<1> QED BY <1>2, <1>3

\* A tick begins to read at the cursor, or at the start of a file that is shorter than the
\* cursor and so is not the one it was set in.
LEMMA StatFileKeepsInv ==
    ASSUME TailInv, StatFile
    PROVE  TailInv'
<1> DEFINE len == Len(file)
           offset == IF Rotated(len) THEN 0 ELSE cursor
           base == CASE ~Rotated(len) -> "Idle"
                     [] Rotated(len) /\ len = 0 -> "CursorResetRequired"
                     [] OTHER -> "RotationDetected"
<1>0. Len(file) \in Nat /\ cursor \in Nat
  BY TailBasics
<1>1. Rotated(len) => ~sameFile
  BY <1>0 DEF TailInv, CursorAtEnd, Rotated
<1>2. offset \in Nat /\ base \in Bases /\ (base # "Idle" => Rotated(len))
  <2>1. CASE Rotated(len)
    <3>1. base = IF len = 0 THEN "CursorResetRequired" ELSE "RotationDetected"
      BY <2>1
    <3> QED BY <2>1, <3>1 DEF Bases
  <2>2. CASE ~Rotated(len)
    <3>1. base = "Idle"
      BY <2>2
    <3> QED BY <1>0, <2>2, <3>1 DEF Bases
  <2> QED BY <2>1, <2>2
<1>3. UNCHANGED <<fileVars, handed, settled, faults, strayed>>
  BY DEF StatFile
<1>4. \/ len = offset /\ NothingRead(offset, base)
      \/ /\ reading' = [on |-> TRUE, offset |-> offset, len |-> len, base |-> base]
         /\ UNCHANGED <<cursor, sameFile>>
  BY DEF StatFile
<1>5. Rotated(len) => offset = 0
  OBVIOUS
<1>6. offset = cursor \/ (offset = 0 /\ ~sameFile)
  BY <1>1
<1> HIDE DEF offset, base
<1>7. CASE NothingRead(offset, base)
  BY <1>1, <1>2, <1>3, <1>5, <1>7, NothingReadKeepsInv
<1>8. CASE /\ reading' = [on |-> TRUE, offset |-> offset, len |-> len, base |-> base]
           /\ UNCHANGED <<cursor, sameFile>>
  <2>1. UNCHANGED <<file, written, cursor, handed, settled, faults, sameFile, strayed>>
    BY <1>3, <1>8 DEF fileVars
  <2>2. TailTypes'
    BY <1>0, <1>2, <1>8, <2>1 DEF TailInv, TailTypes
  <2>3. TickAgrees'
    BY <1>2, <1>5, <1>6, <1>8, <2>1 DEF TickAgrees
  <2>4. LinesInOrder' /\ CursorAtEnd' /\ PassedTaken' /\ HandedBehind'
    BY <2>1 DEF TailInv, LinesInOrder, CursorAtEnd, PassedTaken, HandedBehind, NonBlankEnd
  <2> QED BY <2>2, <2>3, <2>4 DEF TailInv
<1> QED BY <1>4, <1>7, <1>8

-----------------------------------------------------------------------------
(* A tick that reads lines.                                                *)

\* What a tick can rely on that reads the file its cursor was set in, or from the start:
\* it begins where a line does, all before the offset is taken, all behind it is new.
LEMMA OffsetFacts ==
    ASSUME TailInv, reading.on, reading.offset = 0 \/ sameFile
    PROVE  /\ ~BeginsInLine
           /\ ~strayed => \A i \in 1..reading.offset :
                 NonBlankEnd(file, i) => file[i].line \in Range(handed) \cup settled
           /\ faults = 0 /\ ~strayed => \A i \in 1..Len(file), h \in 1..Len(handed) :
                 i > reading.offset => handed[h] < file[i].line
<1>0. cursor \in Nat /\ reading.offset \in Nat /\ Len(file) \in Nat
  BY TailBasics
<1>1. reading.offset = cursor \/ (reading.offset = 0 /\ ~sameFile)
  BY DEF TailInv, TickAgrees
<1>2. CASE reading.offset = 0
  <2>1. ~BeginsInLine /\ 1..reading.offset = {}
    BY <1>2 DEF BeginsInLine
  <2>2. ASSUME faults = 0, ~strayed, NEW i \in 1..Len(file), NEW h \in 1..Len(handed)
        PROVE  handed[h] < file[i].line
    <3>1. ~sameFile \/ i > cursor
      BY <1>0, <1>1, <1>2
    <3> QED BY <2>2, <3>1 DEF TailInv, HandedBehind
  <2> QED BY <2>1, <2>2
<1>3. CASE reading.offset # 0
  <2>1. sameFile /\ reading.offset = cursor /\ cursor > 0
    BY <1>0, <1>1, <1>3
  <2>2. ~BeginsInLine
    BY <2>1 DEF TailInv, CursorAtEnd, BeginsInLine
  <2> QED BY <2>1, <2>2 DEF TailInv, PassedTaken, HandedBehind
<1> QED BY <1>2, <1>3

\* Lines of a tick, at some of the ends that it takes, behind those that were handed over:
\* written, and when nothing else is wrong in the order of the file and all before what
\* follows the last of the ends.
LEMMA NewLines ==
    ASSUME TailInv, LineEnds(Buffer) # {}, NEW ends \in SUBSET TakenEnds(Buffer)
    PROVE  LET new == LinesAt(Buffer, ends)
               end == reading.offset + ProcessedBytes(Buffer)
           IN  /\ new \in Seq(Nat)
               /\ \A k \in 1..Len(new) : new[k] <= written
               /\ \A k, l \in 1..Len(new) : k < l => new[k] < new[l]
               /\ \A k \in 1..Len(new) : \E i \in 1..Len(file) :
                     i > reading.offset /\ new[k] = file[i].line
               /\ \A k \in 1..Len(new), i \in 1..Len(file) : i > end => new[k] < file[i].line
               /\ \A i \in ends : Buffer[i].line \in Range(new)
<1> DEFINE new == LinesAt(Buffer, ends)
           o == reading.offset
           p == ProcessedBytes(Buffer)
           order == Ascending(ends)
<1>0. /\ Len(file) \in Nat /\ written \in Nat /\ o \in Nat
      /\ \A i \in 1..Len(file) : file[i].line \in Nat
  BY TailBasics
<1>1. /\ Buffer \in Seq(Byte) /\ Len(Buffer) \in Nat
      /\ \A i \in 1..Len(Buffer) : o + i \in 1..Len(file) /\ Buffer[i] = file[o + i]
  BY BufferFacts, LenProperties DEF TailInv
<1>2. /\ TakenEnds(Buffer) \in SUBSET LineEnds(Buffer)
      /\ LineEnds(Buffer) \in SUBSET (1..Len(Buffer))
      /\ \A i \in TakenEnds(Buffer) : i <= p
      /\ p \in 1..Len(Buffer)
  BY <1>1, TakenFacts
<1>3. ends \in SUBSET (1..Len(Buffer))
  BY <1>2
<1>4. /\ new \in Seq(Nat)
      /\ \A k \in 1..Len(new) : order[k] \in ends /\ new[k] = Buffer[order[k]].line
      /\ \A k, l \in 1..Len(new) : k < l => order[k] < order[l]
      /\ \A i \in ends : \E k \in 1..Len(new) : new[k] = Buffer[i].line
  BY <1>1, <1>3, LinesAtFacts
<1>5. Len(new) \in Nat /\ DOMAIN new = 1..Len(new)
  BY <1>4, LenProperties
<1>6. \A i \in LineEnds(Buffer) : Buffer[i].end
  BY DEF LineEnds
<1> HIDE DEF new, o, p, order
<1>7. ASSUME NEW k \in 1..Len(new)
      PROVE  /\ order[k] \in Nat /\ order[k] >= 1 /\ order[k] <= p
             /\ o + order[k] \in 1..Len(file)
             /\ new[k] = file[o + order[k]].line /\ file[o + order[k]].end
  <2>1. order[k] \in ends /\ new[k] = Buffer[order[k]].line
    BY <1>4
  <2>2. order[k] \in 1..Len(Buffer) /\ order[k] <= p /\ order[k] \in LineEnds(Buffer)
    BY <1>2, <1>3, <2>1
  <2> QED BY <1>1, <1>6, <2>1, <2>2
<1>8. \A k \in 1..Len(new) : new[k] <= written
  BY <1>7 DEF TailInv, LinesInOrder
<1>9. ASSUME NEW k \in 1..Len(new), NEW l \in 1..Len(new), k < l
      PROVE  new[k] < new[l]
  <2>1. order[k] < order[l] /\ order[k] \in Nat /\ order[l] \in Nat
    BY <1>4, <1>7, <1>9
  <2>2. o + order[k] < o + order[l]
    BY <1>0, <2>1
  <2> QED BY <1>7, <2>2 DEF TailInv, LinesInOrder
<1>10. ASSUME NEW k \in 1..Len(new)
       PROVE  \E i \in 1..Len(file) : i > o /\ new[k] = file[i].line
  <2>1. o + order[k] > o
    BY <1>0, <1>7
  <2> QED BY <1>7, <2>1
<1>11. ASSUME NEW k \in 1..Len(new), NEW i \in 1..Len(file), i > o + p
       PROVE  new[k] < file[i].line
  <2>1. p \in Nat
    BY <1>1, <1>2
  <2>2. o + order[k] < i
    BY <1>0, <1>7, <1>11, <2>1
  <2> QED BY <1>7, <2>2 DEF TailInv, LinesInOrder
<1>12. \A i \in ends : Buffer[i].line \in Range(new)
  BY <1>4, <1>5 DEF Range
<1> QED BY <1>4, <1>8, <1>9, <1>10, <1>11, <1>12 DEF new, o, p

\* Lines handed over besides those before: in range, and everything before stays.
LEMMA HandOver ==
    ASSUME NEW a \in Seq(Nat), NEW b \in Seq(Nat)
    PROVE  /\ a \o b \in Seq(Nat)
           /\ Range(a \o b) = Range(a) \cup Range(b)
           /\ Len(a \o b) = Len(a) + Len(b)
           /\ \A h \in 1..Len(a \o b) :
                 \/ h \in 1..Len(a) /\ (a \o b)[h] = a[h]
                 \/ h - Len(a) \in 1..Len(b) /\ (a \o b)[h] = b[h - Len(a)]
<1> DEFINE c == a \o b
<1>1. /\ c \in Seq(Nat) /\ Len(c) = Len(a) + Len(b) /\ Len(a) \in Nat /\ Len(b) \in Nat
      /\ \A i \in 1 .. Len(a) + Len(b) : c[i] = IF i <= Len(a) THEN a[i] ELSE b[i - Len(a)]
      /\ DOMAIN a = 1..Len(a) /\ DOMAIN b = 1..Len(b) /\ DOMAIN c = 1..Len(c)
  BY ConcatProperties, LenProperties
<1> HIDE DEF c
<1>2. ASSUME NEW h \in 1..Len(c)
      PROVE  \/ h \in 1..Len(a) /\ c[h] = a[h]
             \/ h - Len(a) \in 1..Len(b) /\ c[h] = b[h - Len(a)]
  BY <1>1
<1>3. ASSUME NEW i \in 1..Len(a) PROVE i \in 1..Len(c) /\ c[i] = a[i]
  BY <1>1
<1>4. ASSUME NEW i \in 1..Len(b) PROVE \E j \in 1..Len(c) : c[j] = b[i]
  <2> DEFINE j == Len(a) + i
  <2>1. j \in 1..Len(c) /\ ~(j <= Len(a)) /\ j - Len(a) = i /\ j \in 1 .. Len(a) + Len(b)
    BY <1>1
  <2> HIDE DEF j
  <2>2. c[j] = b[i]
    BY <1>1, <2>1
  <2> QED BY <2>1, <2>2
<1>5. Range(c) = Range(a) \cup Range(b)
  <2>1. ASSUME NEW x \in Range(c) PROVE x \in Range(a) \cup Range(b)
    <3>1. PICK h \in 1..Len(c) : x = c[h]
      BY <1>1 DEF Range
    <3> QED BY <1>1, <1>2, <3>1 DEF Range
  <2>2. ASSUME NEW x \in Range(a) PROVE x \in Range(c)
    BY <1>1, <1>3 DEF Range
  <2>3. ASSUME NEW x \in Range(b) PROVE x \in Range(c)
    <3>1. PICK i \in 1..Len(b) : x = b[i]
      BY <1>1 DEF Range
    <3>2. PICK j \in 1..Len(c) : c[j] = x
      BY <1>4, <3>1
    <3> QED BY <1>1, <3>2 DEF Range
  <2> QED BY <2>1, <2>2, <2>3
<1> QED BY <1>1, <1>2, <1>5 DEF c

\* What a tick hands over: some lines more, or none.
LEMMA HandedTyped ==
    ASSUME TailInv, LineEnds(Buffer) # {}, NEW ends \in SUBSET TakenEnds(Buffer),
           handed' \in {handed, handed \o LinesAt(Buffer, ends)}, written' = written
    PROVE  /\ handed' \in Seq(Nat) /\ Range(handed) \subseteq Range(handed')
           /\ \A h \in 1..Len(handed') : handed'[h] <= written'
<1> DEFINE new == LinesAt(Buffer, ends)
<1>1. new \in Seq(Nat) /\ \A k \in 1..Len(new) : new[k] <= written
  BY NewLines
<1>2. handed \in Seq(Nat) /\ \A h \in 1..Len(handed) : handed[h] <= written
  BY DEF TailInv, TailTypes, LinesInOrder
<1> HIDE DEF new
<1>3. CASE handed' = handed
  BY <1>2, <1>3
<1>4. CASE handed' = handed \o new
  <2>1. /\ handed \o new \in Seq(Nat) /\ Range(handed \o new) = Range(handed) \cup Range(new)
        /\ \A h \in 1..Len(handed \o new) :
              \/ h \in 1..Len(handed) /\ (handed \o new)[h] = handed[h]
              \/ /\ h - Len(handed) \in 1..Len(new)
                 /\ (handed \o new)[h] = new[h - Len(handed)]
    BY <1>1, <1>2, HandOver
  <2> QED BY <1>1, <1>2, <1>4, <2>1
<1> QED BY <1>3, <1>4 DEF new

\* A hand-over without a commit: the same lines will be read again.
LEMMA FaultKeepsInv ==
    ASSUME TailInv, LineEnds(Buffer) # {}, NEW ends \in SUBSET TakenEnds(Buffer),
           handed' \in {handed, handed \o LinesAt(Buffer, ends)},
           faults' = faults + 1, reading' = NotReading,
           UNCHANGED <<file, written, cursor, settled, sameFile>>,
           strayed' \in BOOLEAN, strayed => strayed'
    PROVE  TailInv'
<1>1. /\ handed' \in Seq(Nat) /\ Range(handed) \subseteq Range(handed')
      /\ \A h \in 1..Len(handed') : handed'[h] <= written'
  BY HandedTyped
<1>2. faults' \in Nat /\ faults' # 0
  BY TailBasics
<1>3. TailTypes'
  <2>1. NotReading \in [on : BOOLEAN, offset : Nat, len : Nat, base : Bases]
    BY DEF NotReading, Bases
  <2> QED BY <1>1, <1>2, <2>1 DEF TailInv, TailTypes
<1>4. LinesInOrder' /\ TickAgrees' /\ CursorAtEnd'
  BY <1>1 DEF TailInv, LinesInOrder, TickAgrees, CursorAtEnd, NotReading
<1>5. PassedTaken'
  BY <1>1 DEF TailInv, PassedTaken, NonBlankEnd
<1>6. HandedBehind'
  BY <1>2 DEF HandedBehind
<1> QED BY <1>3, <1>4, <1>5, <1>6 DEF TailInv

\* The commit keeps the promise that nothing is lost: a line between the offset and the new
\* cursor was accepted and handed over, or is counted as skipped or malformed, or the whole
\* tick is counted as malformed.
LEMMA CommitTakes ==
    ASSUME TailInv, reading.on, LineEnds(Buffer) # {}, ~strayed,
           reading.offset = 0 \/ sameFile,
           \A i \in 1..ProcessedBytes(Buffer) : Buffer[i].kind # "binary",
           NEW kinds \in KindsTaken(Buffer), NEW prepared \in BOOLEAN,
           prepared => HasCandidate(kinds),
           handed' = IF prepared THEN handed \o LinesAt(Buffer, Accepted(kinds)) ELSE handed,
           settled' = settled \cup
               Range(LinesAt(Buffer, IF HasCandidate(kinds) /\ ~prepared THEN DOMAIN kinds
                                     ELSE CountedAs(kinds, "skipped") \cup CountedAs(kinds, "malformed"))),
           NEW i \in 1 .. reading.offset + ProcessedBytes(Buffer), NonBlankEnd(file, i)
    PROVE  file[i].line \in Range(handed') \cup settled'
<1> DEFINE o == reading.offset
           p == ProcessedBytes(Buffer)
           skipped == CountedAs(kinds, "skipped")
           malformed == CountedAs(kinds, "malformed")
           all == HasCandidate(kinds) /\ ~prepared
           counted == IF all THEN DOMAIN kinds ELSE skipped \cup malformed
<1>0. o \in Nat /\ Len(file) \in Nat
  BY TailBasics
<1>1. /\ Buffer \in Seq(Byte) /\ Len(Buffer) \in Nat
      /\ \A k \in 1..Len(Buffer) : o + k \in 1..Len(file) /\ Buffer[k] = file[o + k]
  BY BufferFacts, LenProperties DEF TailInv
<1>2. /\ LineEnds(Buffer) \in SUBSET (1..Len(Buffer))
      /\ p \in 1..Len(Buffer)
      /\ \A k \in LineEnds(Buffer) : k <= p => k \in TakenEnds(Buffer)
  BY <1>1, TakenFacts
<1>3. kinds \in [TakenEnds(Buffer) -> LineKinds] /\ DOMAIN kinds = TakenEnds(Buffer)
  BY DEF KindsTaken
<1>4. /\ Accepted(kinds) \in SUBSET TakenEnds(Buffer)
      /\ counted \in SUBSET TakenEnds(Buffer)
  BY <1>3 DEF Accepted, CountedAs
<1>5. /\ LinesAt(Buffer, Accepted(kinds)) \in Seq(Nat)
      /\ \A k \in Accepted(kinds) : Buffer[k].line \in Range(LinesAt(Buffer, Accepted(kinds)))
  BY <1>4, NewLines
<1>6. \A k \in counted : Buffer[k].line \in Range(LinesAt(Buffer, counted))
  <2> HIDE DEF counted
  <2> QED BY <1>4, NewLines
<1>7. Range(handed) \subseteq Range(handed')
  <2>1. handed \in Seq(Nat)
    BY DEF TailInv, TailTypes
  <2>2. Range(handed \o LinesAt(Buffer, Accepted(kinds)))
          = Range(handed) \cup Range(LinesAt(Buffer, Accepted(kinds)))
    BY <1>5, <2>1, HandOver
  <2> QED BY <2>2
<1>8. prepared => Range(LinesAt(Buffer, Accepted(kinds))) \subseteq Range(handed')
  <2>1. handed \in Seq(Nat)
    BY DEF TailInv, TailTypes
  <2>2. Range(handed \o LinesAt(Buffer, Accepted(kinds)))
          = Range(handed) \cup Range(LinesAt(Buffer, Accepted(kinds)))
    BY <1>5, <2>1, HandOver
  <2> QED BY <2>2
<1>9. settled' = settled \cup Range(LinesAt(Buffer, counted))
  OBVIOUS
<1>10. CASE i \in 1..o
  <2>1. file[i].line \in Range(handed) \cup settled
    BY <1>10, OffsetFacts
  <2> QED BY <1>7, <1>9, <2>1
<1>11. CASE i \notin 1..o
  <2> DEFINE k == i - o
  <2>1. k \in 1..p /\ k \in 1..Len(Buffer) /\ o + k = i
    BY <1>0, <1>1, <1>2, <1>11
  <2> HIDE DEF k
  <2>2. Buffer[k] = file[i]
    BY <1>1, <2>1
  <2>3. DOMAIN Buffer = 1..Len(Buffer)
    BY <1>1, LenProperties
  <2>4. k \in TakenEnds(Buffer)
    <3>1. k \in LineEnds(Buffer) /\ k <= p
      BY <2>1, <2>2, <2>3 DEF LineEnds, NonBlankEnd
    <3> QED BY <1>2, <3>1
  <2>5. kinds[k] = Buffer[k].kind /\ kinds[k] # "blank" /\ kinds[k] # "binary"
    <3>1. ~BeginsInLine
      BY OffsetFacts
    <3>2. kinds[k] = Buffer[k].kind
      BY <2>4, <3>1 DEF KindsTaken
    <3> QED BY <2>1, <2>2, <3>2 DEF NonBlankEnd
  <2>6. kinds[k] \in LineKinds
    BY <1>3, <2>4
  <2>7. k \in Accepted(kinds) \/ k \in skipped \/ k \in malformed
    BY <1>3, <2>4, <2>5, <2>6 DEF LineKinds, Accepted, CountedAs
  <2>8. k \in Accepted(kinds) => HasCandidate(kinds)
    BY <2>5 DEF HasCandidate
  <2>9. (prepared /\ k \in Accepted(kinds)) \/ k \in counted
    BY <1>3, <2>4, <2>7, <2>8
  <2> HIDE DEF counted
  <2> QED BY <1>5, <1>6, <1>8, <1>9, <2>2, <2>9
<1> QED BY <1>10, <1>11

\* The commit sets the cursor behind the lines it took, all of them older than what is left.
LEMMA CommitKeepsInv ==
    ASSUME TailInv, reading.on, LineEnds(Buffer) # {},
           \A i \in 1..ProcessedBytes(Buffer) : Buffer[i].kind # "binary",
           NEW kinds \in KindsTaken(Buffer), NEW prepared \in BOOLEAN,
           prepared => HasCandidate(kinds),
           handed' = IF prepared THEN handed \o LinesAt(Buffer, Accepted(kinds)) ELSE handed,
           settled' = settled \cup
               Range(LinesAt(Buffer, IF HasCandidate(kinds) /\ ~prepared THEN DOMAIN kinds
                                     ELSE CountedAs(kinds, "skipped") \cup CountedAs(kinds, "malformed"))),
           cursor' = reading.offset + ProcessedBytes(Buffer), sameFile' = TRUE,
           reading' = NotReading, UNCHANGED <<file, written, faults>>,
           strayed' = (strayed \/ (reading.offset > 0 /\ ~sameFile))
    PROVE  TailInv'
<1> DEFINE o == reading.offset
           p == ProcessedBytes(Buffer)
           ends == Accepted(kinds)
           new == LinesAt(Buffer, ends)
<1>0. /\ o \in Nat /\ Len(file) \in Nat /\ Len(handed) \in Nat /\ faults \in Nat
      /\ \A i \in 1..Len(file) : file[i].line \in Nat
      /\ \A h \in 1..Len(handed) : handed[h] \in Nat
  BY TailBasics
<1>1. /\ Buffer \in Seq(Byte) /\ Len(Buffer) \in Nat
      /\ \A k \in 1..Len(Buffer) : o + k \in 1..Len(file) /\ Buffer[k] = file[o + k]
  BY BufferFacts, LenProperties DEF TailInv
<1>2. p \in TakenEnds(Buffer) /\ TakenEnds(Buffer) \in SUBSET LineEnds(Buffer)
  BY <1>1, TakenFacts
<1>3. p \in 1..Len(Buffer) /\ Buffer[p].end
  <2>1. LineEnds(Buffer) \in SUBSET (1..Len(Buffer))
    BY <1>1, TakenFacts
  <2> QED BY <1>2, <2>1 DEF LineEnds
<1>4. o + p \in 1..Len(file) /\ file[o + p].end /\ p \in Nat
  BY <1>1, <1>3
<1>5. ends \in SUBSET TakenEnds(Buffer)
  BY DEF KindsTaken, Accepted
<1>6. handed' \in {handed, handed \o new} /\ written' = written
  OBVIOUS
<1>7. /\ handed' \in Seq(Nat) /\ Range(handed) \subseteq Range(handed')
      /\ \A h \in 1..Len(handed') : handed'[h] <= written'
  BY <1>5, <1>6, HandedTyped
<1>8. TailTypes'
  <2>1. NotReading \in [on : BOOLEAN, offset : Nat, len : Nat, base : Bases]
    BY DEF NotReading, Bases
  <2>2. cursor' \in Nat
    BY <1>0, <1>4
  <2>3. strayed' \in BOOLEAN
    BY DEF TailInv, TailTypes
  <2> QED BY <1>7, <2>1, <2>2, <2>3 DEF TailInv, TailTypes
<1>9. LinesInOrder'
  BY <1>7 DEF TailInv, LinesInOrder
<1>10. TickAgrees' /\ CursorAtEnd'
  BY <1>4 DEF TickAgrees, CursorAtEnd, NotReading
<1>11. PassedTaken'
  <2> SUFFICES ASSUME ~strayed', NEW i \in 1..cursor', NonBlankEnd(file', i)
               PROVE  file'[i].line \in Range(handed') \cup settled'
    BY DEF PassedTaken
  <2>1. ~strayed /\ (o = 0 \/ sameFile)
    <3>1. ~strayed /\ (~(o > 0) \/ sameFile)
      BY Zenon
    <3> QED BY <1>0, <3>1
  <2>2. i \in 1 .. reading.offset + ProcessedBytes(Buffer) /\ NonBlankEnd(file, i)
    BY DEF NonBlankEnd
  <2>3. file[i].line \in Range(handed') \cup settled'
    BY <2>1, <2>2, CommitTakes
  <2> QED BY <2>3
<1>12. HandedBehind'
  <2> SUFFICES ASSUME faults = 0, ~strayed'
               PROVE  /\ \A g, h \in 1..Len(handed') : g < h => handed'[g] < handed'[h]
                      /\ \A i \in 1..Len(file), h \in 1..Len(handed') :
                            i > cursor' => handed'[h] < file[i].line
    BY DEF HandedBehind
  <2>1. ~strayed /\ (o = 0 \/ sameFile)
    <3>1. ~strayed /\ (~(o > 0) \/ sameFile)
      BY Zenon
    <3> QED BY <1>0, <3>1
  <2>2. \A i \in 1..Len(file), h \in 1..Len(handed) : i > o => handed[h] < file[i].line
    BY <2>1, OffsetFacts
  <2>3. \A g, h \in 1..Len(handed) : g < h => handed[g] < handed[h]
    BY <2>1 DEF TailInv, HandedBehind
  <2>4. /\ new \in Seq(Nat)
        /\ \A k, l \in 1..Len(new) : k < l => new[k] < new[l]
        /\ \A k \in 1..Len(new) : \E i \in 1..Len(file) : i > o /\ new[k] = file[i].line
        /\ \A k \in 1..Len(new), i \in 1..Len(file) : i > o + p => new[k] < file[i].line
    BY <1>5, NewLines
  <2>5. \A i \in 1..Len(file) : i > o + p => i > o
    BY <1>0, <1>4
  <2>6. cursor' = o + p
    OBVIOUS
  <2> HIDE DEF new, p, o
  <2>7. CASE handed' = handed
    BY <2>2, <2>3, <2>5, <2>6, <2>7
  <2>8. CASE handed' = handed \o new
    <3>1. handed \in Seq(Nat) /\ Len(new) \in Nat
      BY <2>4, LenProperties DEF TailInv, TailTypes
    <3>2. /\ Len(handed') = Len(handed) + Len(new)
          /\ \A h \in 1..Len(handed') :
                \/ h \in 1..Len(handed) /\ handed'[h] = handed[h]
                \/ h - Len(handed) \in 1..Len(new) /\ handed'[h] = new[h - Len(handed)]
      <4>1. /\ Len(handed \o new) = Len(handed) + Len(new)
            /\ \A h \in 1..Len(handed \o new) :
                  \/ h \in 1..Len(handed) /\ (handed \o new)[h] = handed[h]
                  \/ /\ h - Len(handed) \in 1..Len(new)
                     /\ (handed \o new)[h] = new[h - Len(handed)]
        BY <2>4, <3>1, HandOver
      <4> QED BY <2>8, <4>1, Zenon
    <3>3. ASSUME NEW i \in 1..Len(file), NEW h \in 1..Len(handed'), i > cursor'
          PROVE  handed'[h] < file[i].line
      BY <2>2, <2>4, <2>5, <2>6, <3>2, <3>3
    <3>4. ASSUME NEW g \in 1..Len(handed'), NEW h \in 1..Len(handed'), g < h
          PROVE  handed'[g] < handed'[h]
      <4>1. CASE h \in 1..Len(handed) /\ handed'[h] = handed[h]
        <5>1. g \in 1..Len(handed) /\ ~(g - Len(handed) \in 1..Len(new))
          BY <1>0, <3>1, <3>2, <3>4, <4>1
        <5> QED BY <2>3, <3>2, <3>4, <4>1, <5>1
      <4>2. CASE h - Len(handed) \in 1..Len(new) /\ handed'[h] = new[h - Len(handed)]
        <5>1. CASE g \in 1..Len(handed) /\ handed'[g] = handed[g]
          <6>1. PICK i \in 1..Len(file) : i > o /\ new[h - Len(handed)] = file[i].line
            BY <2>4, <4>2
          <6> QED BY <2>2, <4>2, <5>1, <6>1
        <5>2. CASE g - Len(handed) \in 1..Len(new) /\ handed'[g] = new[g - Len(handed)]
          <6>1. g - Len(handed) < h - Len(handed)
            BY <1>0, <3>1, <3>2, <3>4
          <6> QED BY <2>4, <4>2, <5>2, <6>1
        <5> QED BY <3>2, <5>1, <5>2
      <4> QED BY <3>2, <4>1, <4>2
    <3> QED BY <3>3, <3>4
  <2> QED BY <1>6, <2>7, <2>8 DEF new
<1> QED BY <1>8, <1>9, <1>10, <1>11, <1>12 DEF TailInv

\* A tick that reads lines keeps the invariant, however it ends.
LEMMA ReadLinesKeepsInv ==
    ASSUME TailInv, NEW prepared \in BOOLEAN, NEW failed \in BOOLEAN, ReadLines(prepared, failed)
    PROVE  TailInv'
<1>1. /\ reading.on /\ LineEnds(Buffer) # {} /\ reading' = NotReading
      /\ \A i \in 1..ProcessedBytes(Buffer) : Buffer[i].kind # "binary"
      /\ strayed' = (strayed \/ (reading.offset > 0 /\ ~sameFile))
      /\ UNCHANGED <<file, written>>
  BY DEF ReadLines, fileVars
<1>2. strayed' \in BOOLEAN /\ (strayed => strayed')
  <2>1. strayed \in BOOLEAN
    BY DEF TailInv, TailTypes
  <2> QED BY <1>1, <2>1, Zenon
<1>3. PICK kinds \in KindsTaken(Buffer) :
        \/ UNCHANGED <<cursor, handed, settled, faults, sameFile>>
        \/ /\ faults' = faults + 1
           /\ handed' \in {handed, handed \o LinesAt(Buffer, Accepted(kinds))}
           /\ UNCHANGED <<cursor, settled, sameFile>>
        \/ /\ prepared => HasCandidate(kinds)
           /\ handed' = IF prepared THEN handed \o LinesAt(Buffer, Accepted(kinds)) ELSE handed
           /\ settled' = settled \cup
                Range(LinesAt(Buffer, IF HasCandidate(kinds) /\ ~prepared THEN DOMAIN kinds
                                      ELSE CountedAs(kinds, "skipped") \cup CountedAs(kinds, "malformed")))
           /\ cursor' = reading.offset + ProcessedBytes(Buffer)
           /\ sameFile' = TRUE
           /\ UNCHANGED faults
  BY DEF ReadLines
<1>4. Accepted(kinds) \in SUBSET TakenEnds(Buffer)
  BY DEF KindsTaken, Accepted
<1>5. CASE UNCHANGED <<cursor, handed, settled, faults, sameFile>>
  BY <1>1, <1>2, <1>5, TickEndsKeepsInv
<1>6. CASE /\ faults' = faults + 1
           /\ handed' \in {handed, handed \o LinesAt(Buffer, Accepted(kinds))}
           /\ UNCHANGED <<cursor, settled, sameFile>>
  BY <1>1, <1>2, <1>4, <1>6, FaultKeepsInv
<1>7. CASE /\ prepared => HasCandidate(kinds)
           /\ handed' = IF prepared THEN handed \o LinesAt(Buffer, Accepted(kinds)) ELSE handed
           /\ settled' = settled \cup
                Range(LinesAt(Buffer, IF HasCandidate(kinds) /\ ~prepared THEN DOMAIN kinds
                                      ELSE CountedAs(kinds, "skipped") \cup CountedAs(kinds, "malformed")))
           /\ cursor' = reading.offset + ProcessedBytes(Buffer)
           /\ sameFile' = TRUE
           /\ UNCHANGED faults
  BY <1>1, <1>7, CommitKeepsInv
<1> QED BY <1>3, <1>5, <1>6, <1>7

-----------------------------------------------------------------------------
(* The theorems about the tail reader.                                     *)

\* The invariant of the tail reader holds for every writer and every sequence of commands
\* and ticks (read_tail_file, run_reader_watch_tick).
THEOREM TailInvariant == TailSpec => []TailInv
<1>1. TailInit => TailInv
  <2> SUFFICES ASSUME TailInit PROVE TailInv
    OBVIOUS
  <2>1. /\ file = <<>> /\ handed = <<>> /\ written = 0 /\ cursor = 0 /\ faults = 0
        /\ sameFile = TRUE /\ strayed = FALSE /\ reading = NotReading
    BY DEF TailInit
  <2>2. /\ file \in Seq(Byte) /\ handed \in Seq(Nat) /\ Len(file) = 0 /\ Len(handed) = 0
        /\ 1..Len(file) = {} /\ 1..Len(handed) = {}
    BY <2>1, EmptySeq
  <2>3. NotReading \in [on : BOOLEAN, offset : Nat, len : Nat, base : Bases]
    BY DEF NotReading, Bases
  <2>4. TailTypes /\ LinesInOrder
    BY <2>1, <2>2, <2>3 DEF TailTypes, LinesInOrder
  <2>5. TickAgrees /\ CursorAtEnd /\ PassedTaken /\ HandedBehind
    BY <2>1, <2>2 DEF TickAgrees, CursorAtEnd, PassedTaken, HandedBehind, NotReading
  <2> QED BY <2>4, <2>5 DEF TailInv
<1>2. TailInv /\ [TailNext]_tailVars => TailInv'
  <2> SUFFICES ASSUME TailInv, [TailNext]_tailVars PROVE TailInv'
    OBVIOUS
  <2>0. strayed \in BOOLEAN
    BY DEF TailInv, TailTypes
  <2>1. ASSUME NEW kind \in LineKinds, BeginLine(kind) PROVE TailInv'
    BY <2>1, BeginLineKeepsInv
  <2>2. ASSUME NEW end \in BOOLEAN, GrowLine(end) PROVE TailInv'
    BY <2>2, GrowLineKeepsInv
  <2>3. CASE ReplaceFile
    BY <2>3, ReplaceFileKeepsInv
  <2>4. CASE \/ \E kind \in Readers : ConfirmSource(kind)
             \/ \E to \in {"Enabled", "Paused", "Disabled"} : TransitionSource(to)
             \/ StatFails \/ OpenFails \/ ReadBinary
             \/ UNCHANGED tailVars
    <3>1. /\ reading' \in {reading, NotReading}
          /\ UNCHANGED <<file, written, cursor, handed, settled, faults, sameFile, strayed>>
      BY <2>4 DEF ConfirmSource, TransitionSource, StatFails, OpenFails, ReadBinary, ReadFails,
                  tailVars, fileVars, sourceVars, tailHistory
    <3> QED BY <2>0, <3>1, TickEndsKeepsInv
  <2>5. CASE RevokeSource \/ ClearInactive
    BY <2>5, DropKeepsInv DEF RevokeSource, ClearInactive
  <2>6. CASE StatFile
    BY <2>6, StatFileKeepsInv
  <2>7. CASE ReadNoLine
    <3>1. /\ reading.on /\ NothingRead(reading.offset, reading.base)
          /\ UNCHANGED <<fileVars, handed, settled, faults, strayed>>
      BY <2>7 DEF ReadNoLine
    <3>2. reading.offset \in Nat /\ cursor \in Nat
      BY TailBasics
    <3>3. reading.base # "Idle" => reading.offset = 0 /\ (cursor = 0 \/ ~sameFile)
      BY <3>1 DEF TailInv, TickAgrees
    <3> QED BY <3>1, <3>2, <3>3, NothingReadKeepsInv
  <2>8. ASSUME NEW prepared \in BOOLEAN, NEW failed \in BOOLEAN, ReadLines(prepared, failed)
        PROVE  TailInv'
    BY <2>8, ReadLinesKeepsInv
  <2> QED BY <2>1, <2>2, <2>3, <2>4, <2>5, <2>6, <2>7, <2>8 DEF TailNext
<1> QED BY <1>1, <1>2, PTL DEF TailSpec

\* Every line of a followed file is handed over or counted, and once, whatever the writer
\* does and wherever the ticks fall (read_tail_file, commit).
THEOREM LinesAreReadOnce == TailSpec => []LinesReadOnce
<1>1. TailInv => LinesReadOnce
  <2> SUFFICES ASSUME TailInv PROVE LinesReadOnce
    OBVIOUS
  <2>0. /\ handed \in Seq(Nat) /\ cursor \in Nat /\ Len(file) \in Nat
        /\ DOMAIN handed = 1..Len(handed)
        /\ \A i \in 1..Len(file) : file[i].line \in Nat
        /\ \A h \in 1..Len(handed) : handed[h] \in Nat
    BY TailBasics, LenProperties DEF TailInv, TailTypes
  <2>1. NoLineLost
    BY DEF TailInv, NoLineLost, CursorAtEnd, PassedTaken
  <2>2. NoRedelivery
    <3> SUFFICES ASSUME faults = 0, ~strayed
                 PROVE  /\ \A i, j \in DOMAIN handed : i < j => handed[i] < handed[j]
                        /\ \A i \in cursor + 1 .. Len(file) : file[i].line \notin Range(handed)
      BY DEF NoRedelivery
    <3>1. \A i, j \in DOMAIN handed : i < j => handed[i] < handed[j]
      BY <2>0 DEF TailInv, HandedBehind
    <3>2. ASSUME NEW i \in cursor + 1 .. Len(file), NEW h \in DOMAIN handed, file[i].line = handed[h]
          PROVE  FALSE
      <4>1. i \in 1..Len(file) /\ i > cursor
        BY <2>0
      <4>2. handed[h] < file[i].line /\ handed[h] \in Nat
        BY <2>0, <4>1 DEF TailInv, HandedBehind
      <4> QED BY <3>2, <4>2
    <3> QED BY <3>1, <3>2 DEF Range
  <2> QED BY <2>1, <2>2 DEF LinesReadOnce
<1> QED BY <1>1, TailInvariant, PTL

\* A tick with a complete line that is not blank, in a buffer that is UTF-8, moves the
\* cursor or fails in the hand-over; no mixture of skipped, malformed and blank lines holds
\* a source up (run_reader_watch_tick).
THEOREM TicksMakeProgress == TailSpec => TickMakesProgress
<1>1. TailInv /\ [TailNext]_tailVars =>
        [reading.on /\ present /\ ~reading'.on /\ (sameFile \/ reading.offset = 0)
         /\ (\E i \in DOMAIN Buffer : NonBlankEnd(Buffer, i))
         /\ (\A i \in DOMAIN Buffer : Buffer[i].kind # "binary")
         => cursor' > reading.offset \/ faults' > faults]_tailVars
  <2> SUFFICES ASSUME TailInv, TailNext, reading.on, present, ~reading'.on,
                      sameFile \/ reading.offset = 0,
                      NEW n \in DOMAIN Buffer, NonBlankEnd(Buffer, n),
                      \A i \in DOMAIN Buffer : Buffer[i].kind # "binary"
               PROVE  cursor' > reading.offset \/ faults' > faults
    OBVIOUS
  <2>0. faults \in Nat /\ reading.offset \in Nat
    BY TailBasics
  <2>1. /\ Buffer \in Seq(Byte) /\ Len(Buffer) \in Nat /\ DOMAIN Buffer = 1..Len(Buffer)
    BY BufferFacts, LenProperties DEF TailInv
  <2>2. n \in LineEnds(Buffer) /\ LineEnds(Buffer) # {}
    BY DEF LineEnds, NonBlankEnd
  <2>3. /\ LineEnds(Buffer) \in SUBSET (1..Len(Buffer))
        /\ ProcessedBytes(Buffer) \in 1..Len(Buffer)
        /\ ~Backpressured(Buffer) => n \in TakenEnds(Buffer)
    BY <2>1, <2>2, TakenFacts
  <2>4. ~BeginsInLine
    BY OffsetFacts
  <2>5. reading' # reading
    OBVIOUS
  <2>6. CASE ReadBinary
    <3>1. \E i \in 1..ProcessedBytes(Buffer) : Buffer[i].kind = "binary"
      BY <2>6 DEF ReadBinary
    <3> QED BY <2>1, <2>3, <3>1
  <2>7. CASE ReadNoLine
    BY <2>2, <2>7 DEF ReadNoLine
  <2>8. ASSUME NEW prepared \in BOOLEAN, NEW failed \in BOOLEAN, ReadLines(prepared, failed)
        PROVE  cursor' > reading.offset \/ faults' > faults
    <3>1. PICK kinds \in KindsTaken(Buffer) :
            \/ NothingToReport(HasCandidate(kinds), CountedAs(kinds, "skipped"),
                               CountedAs(kinds, "malformed"), Backpressured(Buffer))
            \/ faults' = faults + 1
            \/ cursor' = reading.offset + ProcessedBytes(Buffer)
      BY <2>8 DEF ReadLines
    <3>2. CASE NothingToReport(HasCandidate(kinds), CountedAs(kinds, "skipped"),
                               CountedAs(kinds, "malformed"), Backpressured(Buffer))
      <4>1. /\ ~HasCandidate(kinds) /\ CountedAs(kinds, "skipped") = {}
            /\ CountedAs(kinds, "malformed") = {} /\ n \in TakenEnds(Buffer)
        BY <2>3, <3>2 DEF NothingToReport
      <4>2. /\ kinds \in [TakenEnds(Buffer) -> LineKinds] /\ DOMAIN kinds = TakenEnds(Buffer)
            /\ kinds[n] = Buffer[n].kind
        BY <2>4, <4>1 DEF KindsTaken
      <4>3. kinds[n] # "blank" /\ kinds[n] # "binary" /\ kinds[n] \in LineKinds
        BY <4>1, <4>2 DEF NonBlankEnd
      <4>4. n \notin Accepted(kinds)
        BY <4>1, <4>3 DEF HasCandidate
      <4> QED BY <4>1, <4>2, <4>3, <4>4 DEF LineKinds, Accepted, CountedAs
    <3>3. CASE faults' = faults + 1
      BY <2>0, <3>3
    <3>4. CASE cursor' = reading.offset + ProcessedBytes(Buffer)
      BY <2>0, <2>1, <2>3, <3>4
    <3> QED BY <3>1, <3>2, <3>3, <3>4
  <2>9. ReadBinary \/ ReadNoLine \/ \E prepared, failed \in BOOLEAN : ReadLines(prepared, failed)
    BY <2>5 DEF TailNext, BeginLine, GrowLine, ReplaceFile, ConfirmSource, TransitionSource,
                RevokeSource, ClearInactive, StatFails, StatFile, OpenFails, sourceVars
  <2> QED BY <2>6, <2>7, <2>8, <2>9
<1> QED BY <1>1, TailInvariant, PTL DEF TailSpec, TickMakesProgress

-----------------------------------------------------------------------------
(* Part 3, the pipeline: the inductive invariant.                          *)

\* Type correctness of the dag, the locals of the sort and the plan.
PipeTypes ==
    /\ Known \subseteq PipeNodes
    /\ dag \in [Known -> [deps : [PipeNodes -> 0..2], enabled : BOOLEAN]]
    /\ phase \in {"open", "sorting", "planned"}
    /\ ready \in Seq(PipeNodes) /\ ordered \in Seq(PipeNodes) /\ plan \in Seq(PipeNodes)

\* validate has let the dag pass.
Validated == phase # "open" => \A n \in Known : DependsOn(n) \subseteq Known

\* The entries of a dependency list that name a node outside S.
EntriesOutside(n, S) == {e \in Entries(n) : e[1] \notin S}

\* What an order has of each node's dependencies stands before the node.
DependenciesBefore(order) ==
    \A i \in DOMAIN order : \A d \in DependsOn(order[i]) : \E j \in 1 .. i - 1 : order[j] = d

\* The loop of topological_order: nodes are ordered behind their dependencies, each one's
\* count is that of its entries that are still to come, and the queue holds the nodes that
\* wait for none.
Sorting ==
    phase = "sorting" =>
        /\ IsInjective(ordered) /\ ToSet(ordered) \subseteq Known
        /\ DependenciesBefore(ordered)
        /\ indegree \in [Known -> Nat]
        /\ \A m \in Known : indegree[m] = Cardinality(EntriesOutside(m, ToSet(ordered)))
        /\ IsInjective(ready)
        /\ ToSet(ready) = {m \in Known \ ToSet(ordered) : indegree[m] = 0}

\* The answer is about the dag as it is now.
Answered ==
    /\ answer = "plan" <=> phase = "planned"
    /\ answer = "cycle" => ~Acyclic
    /\ answer = "missing" => \E n \in Known : ~(DependsOn(n) \subseteq Known)

\* Every enabled node has one step, behind the steps of all it needs.
Planned ==
    phase = "planned" =>
        /\ Acyclic
        /\ IsInjective(plan)
        /\ ToSet(plan) = {n \in Known : dag[n].enabled}
        /\ \A i \in DOMAIN plan : \A m \in NeededBy(plan[i]) :
              dag[m].enabled => \E j \in 1 .. i - 1 : plan[j] = m

\* A run has executed a first part of the plan.
Executed ==
    /\ phase # "planned" => ~running /\ completed = {}
    /\ \E k \in 0 .. Len(plan) : completed = {plan[i] : i \in 1..k}

PipeInv == PipeTypes /\ Validated /\ Sorting /\ Answered /\ Planned /\ Executed

-----------------------------------------------------------------------------
(* Sequences without repetition, and what nodes need.                      *)

\* The members of a sequence.
LEMMA MembersFacts ==
    ASSUME NEW S, NEW q \in Seq(S)
    PROVE  /\ Len(q) \in Nat /\ DOMAIN q = 1..Len(q)
           /\ ToSet(q) \in SUBSET S
           /\ \A x : x \in ToSet(q) <=> \E i \in 1..Len(q) : q[i] = x
           /\ IsInjective(q) <=> \A i, j \in 1..Len(q) : q[i] = q[j] => i = j
<1>1. Len(q) \in Nat /\ DOMAIN q = 1..Len(q) /\ q \in [1..Len(q) -> S]
  BY LenProperties
<1>2. \A x : x \in ToSet(q) <=> \E i \in 1..Len(q) : q[i] = x
  BY <1>1 DEF ToSet
<1>3. ToSet(q) \in SUBSET S
  BY <1>1, <1>2
<1> QED BY <1>1, <1>2, <1>3 DEF IsInjective

\* A sequence of members of a finite set, without repetition, has all of them exactly when
\* it is as long as the set is large.
LEMMA AllMembers ==
    ASSUME NEW S, IsFiniteSet(S), NEW q \in Seq(S), IsInjective(q)
    PROVE  Len(q) = Cardinality(S) <=> ToSet(q) = S
<1>1. Len(q) \in Nat /\ q \in [1..Len(q) -> S] /\ DOMAIN q = 1..Len(q)
  BY LenProperties
<1>2. q \in Injection(1..Len(q), S)
  BY <1>1 DEF Injection, IsInjective
<1>3. Cardinality(1..Len(q)) = Len(q)
  <2>1. 1 \in Int /\ Len(q) \in Int
    BY <1>1
  <2>2. Cardinality(1..Len(q)) = IF 1 > Len(q) THEN 0 ELSE Len(q) - 1 + 1
    BY <2>1, FS_Interval
  <2> QED BY <1>1, <2>2
<1>4. Len(q) = Cardinality(S) <=> q \in Surjection(1..Len(q), S)
  BY <1>2, <1>3, FS_Injection
<1>5. q \in Surjection(1..Len(q), S) <=> ToSet(q) = S
  BY <1>1 DEF Surjection, ToSet
<1> QED BY <1>4, <1>5

\* What a node needs lies in every closed set with all that it depends on.
LEMMA NeededInClosed ==
    ASSUME NEW n, NEW C \in SUBSET PipeNodes, DependsOn(n) \subseteq C, Closed(C)
    PROVE  NeededBy(n) \subseteq C
BY DEF NeededBy

\* A node needs what it depends on, and all that those need.
LEMMA NeededThrough ==
    ASSUME PipeTypes, NEW n \in Known, NEW d \in DependsOn(n), d \in Known
    PROVE  d \in NeededBy(n) /\ NeededBy(d) \subseteq NeededBy(n)
<1>1. d \in NeededBy(n)
  BY DEF NeededBy, DependsOn
<1>2. ASSUME NEW C \in SUBSET PipeNodes, DependsOn(n) \subseteq C, Closed(C)
      PROVE  DependsOn(d) \subseteq C
  BY <1>2 DEF Closed
<1>3. ASSUME NEW m \in NeededBy(d) PROVE m \in NeededBy(n)
  BY <1>2 DEF NeededBy
<1> QED BY <1>1, <1>3

\* In an order that has every node behind its dependencies, what a node needs is before it.
LEMMA NeededBefore ==
    ASSUME NEW order \in Seq(PipeNodes), DependenciesBefore(order), NEW i \in 1..Len(order)
    PROVE  \A m \in NeededBy(order[i]) : \E j \in 1 .. i - 1 : order[j] = m
<1> DEFINE C == {order[j] : j \in 1 .. i - 1}
<1>1. Len(order) \in Nat /\ DOMAIN order = 1..Len(order)
  BY LenProperties
<1>2. \A j \in 1 .. i - 1 : j \in 1..Len(order) /\ order[j] \in PipeNodes
  <2> SUFFICES ASSUME NEW j \in 1 .. i - 1 PROVE j \in 1..Len(order) /\ order[j] \in PipeNodes
    OBVIOUS
  <2>1. j \in 1..Len(order)
    BY <1>1
  <2> QED BY <2>1, ElementOfSeq
<1>3. C \in SUBSET PipeNodes
  BY <1>2
<1>4. DependsOn(order[i]) \subseteq C
  BY <1>1 DEF DependenciesBefore
<1>5. ASSUME NEW c \in C, NEW d \in DependsOn(c) PROVE d \in C
  <2>1. PICK j \in 1 .. i - 1 : c = order[j]
    OBVIOUS
  <2>2. j \in DOMAIN order
    BY <1>1, <1>2
  <2>3. PICK k \in 1 .. j - 1 : order[k] = d
    BY <1>5, <2>1, <2>2 DEF DependenciesBefore
  <2>4. k \in 1 .. i - 1
    BY <1>1
  <2> QED BY <2>3, <2>4
<1>6. Closed(C)
  BY <1>5 DEF Closed
<1> HIDE DEF C
<1>7. NeededBy(order[i]) \subseteq C
  BY <1>3, <1>4, <1>6, NeededInClosed
<1> QED BY <1>7 DEF C

\* Nodes that each depend on one of them contain a cycle: one of those that need least
\* would need less than itself.
LEMMA CycleExists ==
    ASSUME PipeTypes, NEW R \in SUBSET Known, R # {},
           \A m \in R : \E d \in R : d \in DependsOn(m)
    PROVE  ~Acyclic
<1> SUFFICES ASSUME Acyclic PROVE FALSE
  OBVIOUS
<1> DEFINE less == StrictSubsetOrdering(PipeNodes)
           N == {NeededBy(m) : m \in R}
<1>1. IsWellFoundedOn(less, SUBSET PipeNodes)
  BY PipeNodesAssumption, FS_StrictSubsetOrderingWellFounded, FS_FiniteSubsetsOfFinite
<1>2. N \in SUBSET (SUBSET PipeNodes) /\ N # {}
  BY DEF NeededBy
<1>3. PICK X \in N : \A Y \in N : <<Y, X>> \notin less
  <2> HIDE DEF less, N
  <2> QED BY <1>1, <1>2, WFMin
<1>4. PICK m \in R : X = NeededBy(m)
  BY <1>3
<1>5. PICK d \in R : d \in DependsOn(m)
  BY <1>4
<1>6. d \in NeededBy(m) /\ NeededBy(d) \subseteq NeededBy(m)
  BY <1>4, <1>5, NeededThrough
<1>7. d \notin NeededBy(d)
  BY <1>5 DEF Acyclic
<1>8. NeededBy(d) # NeededBy(m)
  BY <1>6, <1>7
<1>9. NeededBy(d) \in SUBSET PipeNodes /\ NeededBy(m) \in SUBSET PipeNodes
  BY DEF NeededBy
<1>10. <<NeededBy(d), NeededBy(m)>> \in less
  <2> DEFINE A == NeededBy(d)
             B == NeededBy(m)
  <2>1. A \in SUBSET PipeNodes /\ B \in SUBSET PipeNodes /\ A \subseteq B /\ A # B
    BY <1>6, <1>8, <1>9
  <2> HIDE DEF A, B
  <2>2. <<A, B>> \in less
    BY <2>1 DEF StrictSubsetOrdering
  <2> QED BY <2>2 DEF A, B
<1>11. NeededBy(d) \in N
  BY <1>5
<1> QED BY <1>3, <1>4, <1>10, <1>11

\* Two sequences without repetition that have nothing in common, one behind the other.
LEMMA JoinedFacts ==
    ASSUME NEW S, NEW a \in Seq(S), NEW b \in Seq(S),
           \A i, j \in 1..Len(a) : a[i] = a[j] => i = j,
           IsInjective(b), ToSet(a) \cap ToSet(b) = {}
    PROVE  a \o b \in Seq(S) /\ IsInjective(a \o b) /\ ToSet(a \o b) = ToSet(a) \cup ToSet(b)
<1> DEFINE c == a \o b
<1>1. /\ c \in Seq(S) /\ Len(c) = Len(a) + Len(b) /\ Len(a) \in Nat /\ Len(b) \in Nat
      /\ \A i \in 1 .. Len(a) + Len(b) : c[i] = IF i <= Len(a) THEN a[i] ELSE b[i - Len(a)]
  BY ConcatProperties, LenProperties
<1>2. /\ \A x : x \in ToSet(a) <=> \E i \in 1..Len(a) : a[i] = x
      /\ \A x : x \in ToSet(b) <=> \E i \in 1..Len(b) : b[i] = x
      /\ \A i, j \in 1..Len(b) : b[i] = b[j] => i = j
  BY MembersFacts
<1>3. /\ \A x : x \in ToSet(c) <=> \E i \in 1..Len(c) : c[i] = x
      /\ IsInjective(c) <=> \A i, j \in 1..Len(c) : c[i] = c[j] => i = j
  BY <1>1, MembersFacts
<1> HIDE DEF c
<1>4. ASSUME NEW i \in 1..Len(c)
      PROVE  \/ i \in 1..Len(a) /\ c[i] = a[i] /\ c[i] \in ToSet(a)
             \/ i - Len(a) \in 1..Len(b) /\ c[i] = b[i - Len(a)] /\ c[i] \in ToSet(b)
  <2>1. CASE i <= Len(a)
    <3>1. i \in 1..Len(a) /\ c[i] = a[i]
      BY <1>1, <2>1
    <3> QED BY <1>2, <3>1
  <2>2. CASE ~(i <= Len(a))
    <3>1. i - Len(a) \in 1..Len(b) /\ c[i] = b[i - Len(a)]
      BY <1>1, <2>2
    <3> QED BY <1>2, <3>1
  <2> QED BY <2>1, <2>2
<1>5. ASSUME NEW i \in 1..Len(c), NEW j \in 1..Len(c), c[i] = c[j]
      PROVE  i = j
  <2>1. CASE i \in 1..Len(a) /\ c[i] = a[i] /\ c[i] \in ToSet(a)
    <3>1. j \in 1..Len(a) /\ c[j] = a[j]
      BY <1>4, <1>5, <2>1
    <3> QED BY <1>5, <2>1, <3>1
  <2>2. CASE i - Len(a) \in 1..Len(b) /\ c[i] = b[i - Len(a)] /\ c[i] \in ToSet(b)
    <3>1. j - Len(a) \in 1..Len(b) /\ c[j] = b[j - Len(a)]
      BY <1>4, <1>5, <2>2
    <3>2. i - Len(a) = j - Len(a)
      BY <1>2, <1>5, <2>2, <3>1
    <3> QED BY <1>1, <3>2
  <2> QED BY <1>4, <2>1, <2>2
<1>6. ASSUME NEW x \in ToSet(a) PROVE x \in ToSet(c)
  <2>1. PICK i \in 1..Len(a) : a[i] = x
    BY <1>2
  <2>2. i \in 1..Len(c) /\ c[i] = x
    BY <1>1, <2>1
  <2> QED BY <1>3, <2>2
<1>7. ASSUME NEW x \in ToSet(b) PROVE x \in ToSet(c)
  <2>1. PICK i \in 1..Len(b) : b[i] = x
    BY <1>2
  <2> DEFINE j == Len(a) + i
  <2>2. j \in 1..Len(c) /\ j \in 1 .. Len(a) + Len(b) /\ ~(j <= Len(a)) /\ j - Len(a) = i
    BY <1>1
  <2> HIDE DEF j
  <2>3. c[j] = x
    BY <1>1, <2>1, <2>2
  <2> QED BY <1>3, <2>2, <2>3
<1>8. ToSet(c) = ToSet(a) \cup ToSet(b)
  BY <1>3, <1>4, <1>6, <1>7
<1> QED BY <1>1, <1>3, <1>5, <1>8 DEF c

-----------------------------------------------------------------------------
(* The steps of the construction.                                          *)

\* What is said of a dag only depends on the dag.
LEMMA SameDag ==
    ASSUME dag' = dag
    PROVE  /\ Known' = Known
           /\ \A n : DependsOn(n)' = DependsOn(n)
           /\ \A n : Entries(n)' = Entries(n)
           /\ \A n : NeededBy(n)' = NeededBy(n)
           /\ Acyclic' = Acyclic
<1>1. Known' = Known
  BY DEF Known
<1>2. ASSUME NEW n PROVE DependsOn(n)' = DependsOn(n)
  BY DEF DependsOn
<1>3. ASSUME NEW n PROVE Entries(n)' = Entries(n)
  BY DEF Entries
<1>4. ASSUME NEW C PROVE Closed(C)' = Closed(C)
  BY <1>1, <1>2 DEF Closed
<1>5. ASSUME NEW n PROVE NeededBy(n)' = NeededBy(n)
  BY <1>2, <1>4 DEF NeededBy
<1>6. Acyclic' = Acyclic
  BY <1>1, <1>5 DEF Acyclic
<1> QED BY <1>1, <1>2, <1>3, <1>5, <1>6

\* The entries of a dependency list that are still to come, and what is left of them when
\* one more node has been ordered.
LEMMA EntriesFacts ==
    ASSUME PipeTypes, NEW m \in Known, NEW S
    PROVE  /\ Cardinality(EntriesOutside(m, S)) \in Nat
           /\ Cardinality(EntriesOutside(m, S)) = 0 <=> DependsOn(m) \subseteq S
           /\ \A n \in PipeNodes \ S :
                 /\ Cardinality(EntriesOutside(m, S \cup {n}))
                      = Cardinality(EntriesOutside(m, S)) - dag[m].deps[n]
                 /\ n \in DependsOn(m) <=> dag[m].deps[n] # 0
                 /\ dag[m].deps[n] \in Nat
<1> DEFINE deps == dag[m].deps
           out == EntriesOutside(m, S)
<1>1. deps \in [PipeNodes -> 0..2]
  BY DEF PipeTypes
<1>2. \A e \in Entries(m) : e \in PipeNodes \X (1..2) /\ e[2] <= deps[e[1]]
  BY DEF Entries
<1>3. IsFiniteSet(PipeNodes \X (1..2))
  <2>0. 1 \in Int /\ 2 \in Int
    OBVIOUS
  <2>1. IsFiniteSet(1..2)
    BY <2>0, FS_Interval
  <2> QED BY <2>1, PipeNodesAssumption, FS_Product
<1>4. IsFiniteSet(out) /\ Cardinality(out) \in Nat
  <2>1. out \in SUBSET (PipeNodes \X (1..2))
    BY DEF EntriesOutside, Entries
  <2> HIDE DEF out
  <2> QED BY <1>3, <2>1, FS_Subset, FS_CardinalityType
<1>5. out = {} <=> DependsOn(m) \subseteq S
  <2>1. ASSUME NEW d \in DependsOn(m), d \notin S PROVE <<d, 1>> \in out
    <3>1. d \in PipeNodes /\ deps[d] > 0
      BY DEF DependsOn
    <3>2. deps[d] \in 0..2
      BY <1>1, <3>1
    <3>3. 1 <= deps[d] /\ 1 \in 1..2
      BY <3>1, <3>2
    <3> QED BY <2>1, <3>1, <3>3 DEF EntriesOutside, Entries
  <2>2. ASSUME NEW e \in out PROVE e[1] \in DependsOn(m) /\ e[1] \notin S
    <3>1. e \in PipeNodes \X (1..2) /\ e[2] <= deps[e[1]] /\ e[1] \notin S
      BY <1>2 DEF EntriesOutside
    <3>2. e[1] \in PipeNodes /\ e[2] \in 1..2 /\ deps[e[1]] \in 0..2
      BY <1>1, <3>1
    <3>3. deps[e[1]] > 0
      BY <3>1, <3>2
    <3> QED BY <3>1, <3>2, <3>3 DEF DependsOn
  <2> HIDE DEF out
  <2> QED BY <2>1, <2>2
<1>6. Cardinality(out) = 0 <=> out = {}
  BY <1>4, FS_EmptySet
<1>7. ASSUME NEW n \in PipeNodes \ S
      PROVE  /\ Cardinality(EntriesOutside(m, S \cup {n})) = Cardinality(out) - deps[n]
             /\ n \in DependsOn(m) <=> deps[n] # 0
             /\ deps[n] \in Nat
  <2> DEFINE naming == {<<n, k>> : k \in 1 .. deps[n]}
             rest == EntriesOutside(m, S \cup {n})
  <2>1. deps[n] \in 0..2
    BY <1>1
  <2>2. n \in DependsOn(m) <=> deps[n] # 0
    BY <2>1 DEF DependsOn
  <2>3. IsFiniteSet(naming) /\ Cardinality(naming) = deps[n]
    <3> DEFINE f == [k \in 1 .. deps[n] |-> <<n, k>>]
    <3>1. f \in Bijection(1 .. deps[n], naming)
      BY DEF Bijection, Injection, Surjection, IsInjective
    <3>2. /\ IsFiniteSet(1 .. deps[n])
          /\ Cardinality(1 .. deps[n]) = IF 1 > deps[n] THEN 0 ELSE deps[n] - 1 + 1
      BY <2>1, FS_Interval
    <3>3. Cardinality(1 .. deps[n]) = deps[n]
      BY <2>1, <3>2
    <3> HIDE DEF naming, f
    <3>4. ExistsBijection(1 .. deps[n], naming)
      BY <3>1 DEF ExistsBijection
    <3> QED BY <3>2, <3>3, <3>4, FS_Bijection
  <2>4. out = rest \cup naming /\ rest \cap naming = {}
    <3>1. ASSUME NEW e \in out, e \notin rest PROVE e \in naming
      <4>1. e \in Entries(m) /\ e[1] = n
        BY <3>1 DEF EntriesOutside
      <4>2. e \in PipeNodes \X (1..2) /\ e[2] <= deps[n]
        BY <1>2, <4>1
      <4>3. e = <<n, e[2]>> /\ e[2] \in 1..2
        BY <4>1, <4>2
      <4>4. e[2] \in 1 .. deps[n]
        BY <2>1, <4>2, <4>3
      <4> QED BY <4>3, <4>4
    <3>2. ASSUME NEW e \in rest PROVE e \in out /\ e \notin naming
      BY DEF EntriesOutside
    <3>3. ASSUME NEW e \in naming PROVE e \in out
      <4>1. PICK k \in 1 .. deps[n] : e = <<n, k>>
        OBVIOUS
      <4>2. k \in 1..2 /\ k <= deps[n]
        BY <2>1
      <4> QED BY <4>1, <4>2 DEF EntriesOutside, Entries
    <3> HIDE DEF out, rest, naming
    <3> QED BY <3>1, <3>2, <3>3
  <2>5. IsFiniteSet(rest) /\ Cardinality(rest) \in Nat
    <3> HIDE DEF out, rest, naming
    <3>1. rest \in SUBSET out
      BY <2>4
    <3> QED BY <1>4, <3>1, FS_Subset, FS_CardinalityType
  <2> HIDE DEF out, rest, naming
  <2>6. Cardinality(rest \cup naming)
          = Cardinality(rest) + Cardinality(naming) - Cardinality(rest \cap naming)
    BY <2>3, <2>5, FS_Union
  <2>7. Cardinality(rest \cap naming) = 0
    BY <2>4, FS_EmptySet
  <2>8. Cardinality(out) = Cardinality(rest) + deps[n]
    BY <2>1, <2>3, <2>4, <2>5, <2>6, <2>7
  <2>9. Cardinality(rest) = Cardinality(out) - deps[n]
    BY <1>4, <2>1, <2>5, <2>8
  <2> QED BY <2>1, <2>2, <2>9 DEF rest
<1> QED BY <1>4, <1>5, <1>6, <1>7

\* A dag that grows is still being built, and no answer is about it.
LEMMA GrowKeepsInv ==
    ASSUME PipeInv, phase = "open", answer' = "none",
           UNCHANGED <<phase, planVars, plan, runVars>>,
           Known' \subseteq PipeNodes,
           dag' \in [Known' -> [deps : [PipeNodes -> 0..2], enabled : BOOLEAN]]
    PROVE  PipeInv'
<1>1. /\ phase' = "open" /\ plan' = plan /\ completed' = completed /\ running' = running
      /\ ready' = ready /\ ordered' = ordered
  BY DEF planVars, runVars
<1>2. PipeTypes'
  BY <1>1 DEF PipeInv, PipeTypes
<1>3. Validated' /\ Sorting' /\ Answered' /\ Planned'
  BY <1>1 DEF Validated, Sorting, Answered, Planned
<1>4. Executed'
  <2>1. PICK k \in 0 .. Len(plan) : completed = {plan[i] : i \in 1..k}
    BY DEF PipeInv, Executed
  <2>2. completed' = {plan'[i] : i \in 1..k} /\ k \in 0 .. Len(plan')
    BY <1>1, <2>1
  <2>3. phase' # "planned" => ~running' /\ completed' = {}
    BY <1>1 DEF PipeInv, Executed
  <2> QED BY <2>2, <2>3 DEF Executed
<1> QED BY <1>2, <1>3, <1>4 DEF PipeInv

LEMMA AddNodeKeepsInv ==
    ASSUME PipeInv, NEW n \in PipeNodes, NEW deps \in DependencyList, NEW on \in BOOLEAN,
           AddNode(n, deps, on)
    PROVE  PipeInv'
<1> DEFINE Node == [deps : [PipeNodes -> 0..2], enabled : BOOLEAN]
<1>1. /\ phase = "open" /\ answer' = "none" /\ UNCHANGED <<phase, planVars, plan, runVars>>
      /\ dag' = [m \in Known \cup {n} |->
                   IF m = n THEN [deps |-> deps, enabled |-> on] ELSE dag[m]]
  BY DEF AddNode
<1>2. Known \subseteq PipeNodes /\ \A m \in Known : dag[m] \in Node
  BY DEF PipeInv, PipeTypes
<1>3. deps \in [PipeNodes -> 0..2]
  BY DEF DependencyList
<1>4. [deps |-> deps, enabled |-> on] \in Node
  BY <1>3
<1>5. Known' = Known \cup {n}
  <2>1. Known' = DOMAIN dag'
    BY DEF Known
  <2> QED BY <1>1, <2>1
<1> HIDE DEF Node
<1>6. dag' \in [Known' -> Node]
  BY <1>1, <1>2, <1>4, <1>5
<1>7. Known' \subseteq PipeNodes
  BY <1>2, <1>5
<1> QED BY <1>1, <1>6, <1>7, GrowKeepsInv DEF Node

LEMMA AddDependencyKeepsInv ==
    ASSUME PipeInv, NEW n \in PipeNodes, NEW d \in PipeNodes, AddDependency(n, d)
    PROVE  PipeInv'
<1>1. /\ phase = "open" /\ answer' = "none" /\ UNCHANGED <<phase, planVars, plan, runVars>>
      /\ n \in Known /\ dag' = [dag EXCEPT ![n].deps[d] = 1]
  BY DEF AddDependency
<1>2. Known \subseteq PipeNodes
      /\ dag \in [Known -> [deps : [PipeNodes -> 0..2], enabled : BOOLEAN]]
  BY DEF PipeInv, PipeTypes
<1>3. dag' \in [Known -> [deps : [PipeNodes -> 0..2], enabled : BOOLEAN]]
  BY <1>1, <1>2
<1>4. Known' = Known
  <2>1. Known' = DOMAIN dag'
    BY DEF Known
  <2> QED BY <1>3, <2>1
<1> QED BY <1>1, <1>2, <1>3, <1>4, GrowKeepsInv

\* validate refuses a dag that names a node that is not there.
LEMMA RefusedMissingKeepsInv ==
    ASSUME PipeInv, BuildRefusedMissing
    PROVE  PipeInv'
<1>1. /\ phase' = "open" /\ phase = "open" /\ answer' = "missing" /\ dag' = dag
      /\ UNCHANGED <<ready, ordered, plan, completed, running>>
      /\ \E n \in Known : ~(DependsOn(n) \subseteq Known)
  BY DEF BuildRefusedMissing, planVars, runVars
<1>2. Known' = Known /\ \A n : DependsOn(n)' = DependsOn(n)
  BY <1>1, SameDag
<1>3. PipeTypes'
  BY <1>1, <1>2 DEF PipeInv, PipeTypes
<1>4. Validated' /\ Sorting' /\ Planned'
  BY <1>1 DEF Validated, Sorting, Planned
<1>5. Answered'
  BY <1>1, <1>2 DEF Answered
<1>6. Executed'
  <2>1. PICK k \in 0 .. Len(plan) : completed = {plan[i] : i \in 1..k}
    BY DEF PipeInv, Executed
  <2>2. completed' = {plan'[i] : i \in 1..k} /\ k \in 0 .. Len(plan')
    BY <1>1, <2>1
  <2>3. phase' # "planned" => ~running' /\ completed' = {}
    BY <1>1 DEF PipeInv, Executed
  <2> QED BY <2>2, <2>3 DEF Executed
<1> QED BY <1>3, <1>4, <1>5, <1>6 DEF PipeInv

-----------------------------------------------------------------------------
(* The steps of the sort.                                                  *)

\* Nothing of a run moves while a plan is made.
LEMMA ExecutedStays ==
    ASSUME Executed, UNCHANGED <<plan, completed, running>>, phase # "planned" \/ phase' = phase
    PROVE  Executed'
<1>1. PICK k \in 0 .. Len(plan) : completed = {plan[i] : i \in 1..k}
  BY DEF Executed
<1>2. completed' = {plan'[i] : i \in 1..k} /\ k \in 0 .. Len(plan')
  BY <1>1
<1>3. phase' # "planned" => ~running' /\ completed' = {}
  BY DEF Executed
<1> QED BY <1>2, <1>3 DEF Executed

\* At its start the queue holds the nodes without dependencies.
LEMMA BuildBeginsKeepsInv ==
    ASSUME PipeInv, BuildBegins
    PROVE  PipeInv'
<1> DEFINE free == {n \in Known : InDegree(n) = 0}
<1>1. /\ phase = "open" /\ phase' = "sorting" /\ dag' = dag /\ answer' = answer
      /\ UNCHANGED <<plan, completed, running>>
      /\ \A n \in Known : DependsOn(n) \subseteq Known
      /\ indegree' = [n \in Known |-> InDegree(n)]
      /\ ready' = Ascending(free) /\ ordered' = <<>>
  BY DEF BuildBegins, runVars
<1>2. /\ Known' = Known /\ Acyclic' = Acyclic
      /\ \A n : DependsOn(n)' = DependsOn(n)
      /\ \A n : Entries(n)' = Entries(n)
  BY <1>1, SameDag
<1>3. Known \in SUBSET PipeNodes /\ PipeTypes
  BY DEF PipeInv, PipeTypes
<1>4. free \in SUBSET PipeNodes /\ free \in SUBSET Nat /\ IsFiniteSet(free)
  <2>1. free \in SUBSET PipeNodes
    BY <1>3
  <2> HIDE DEF free
  <2>2. free \in SUBSET Nat
    BY <2>1, PipeNodesAssumption
  <2> QED BY <2>1, <2>2, PipeNodesAssumption, FS_Subset
<1> HIDE DEF free
<1>5. /\ Cardinality(free) \in Nat /\ ready' \in [1..Cardinality(free) -> free]
      /\ \A x \in free : \E i \in 1..Cardinality(free) : ready'[i] = x
      /\ IsInjective(ready')
  BY <1>1, <1>4, AscendingFacts
<1>6. ready' \in Seq(PipeNodes)
  <2>1. ready' \in [1..Cardinality(free) -> PipeNodes]
    BY <1>4, <1>5
  <2> QED BY <1>5, <2>1, SeqDef
<1>7. ToSet(ready') = free
  BY <1>5 DEF ToSet
<1>8. ordered' \in Seq(PipeNodes) /\ ToSet(ordered') = {} /\ DOMAIN ordered' = {}
  BY <1>1, EmptySeq DEF ToSet
<1>9. PipeTypes'
  BY <1>1, <1>2, <1>6, <1>8 DEF PipeInv, PipeTypes
<1>10. Validated'
  BY <1>1, <1>2 DEF Validated
<1>11. \A m \in Known :
         /\ EntriesOutside(m, {}) = Entries(m) /\ EntriesOutside(m, {})' = Entries(m)
         /\ InDegree(m) = Cardinality(Entries(m))
         /\ Cardinality(Entries(m)) \in Nat
  <2> SUFFICES ASSUME NEW m \in Known
               PROVE  /\ EntriesOutside(m, {}) = Entries(m) /\ EntriesOutside(m, {})' = Entries(m)
                      /\ InDegree(m) = Cardinality(Entries(m))
                      /\ Cardinality(Entries(m)) \in Nat
    OBVIOUS
  <2>1. EntriesOutside(m, {}) = Entries(m) /\ EntriesOutside(m, {})' = Entries(m)
    BY <1>2 DEF EntriesOutside
  <2>2. Cardinality(EntriesOutside(m, {})) \in Nat
    BY <1>3, EntriesFacts
  <2> QED BY <2>1, <2>2 DEF InDegree
<1>12. Sorting'
  <2>1. IsInjective(ordered') /\ ToSet(ordered') \subseteq Known' /\ DependenciesBefore(ordered)'
    BY <1>8 DEF IsInjective, DependenciesBefore
  <2>2. indegree' \in [Known' -> Nat]
    BY <1>1, <1>2, <1>11
  <2>3. ASSUME NEW m \in Known
        PROVE  indegree'[m] = Cardinality(EntriesOutside(m, ToSet(ordered)))'
    BY <1>1, <1>8, <1>11
  <2>4. ToSet(ready') = {m \in Known' \ ToSet(ordered') : indegree'[m] = 0}
    BY <1>1, <1>2, <1>7, <1>8 DEF free
  <2> QED BY <1>2, <1>5, <2>1, <2>2, <2>3, <2>4 DEF Sorting
<1>13. Answered' /\ Planned'
  BY <1>1, <1>2 DEF PipeInv, Answered, Planned
<1>14. Executed'
  BY <1>1, ExecutedStays DEF PipeInv
<1> QED BY <1>9, <1>10, <1>12, <1>13, <1>14 DEF PipeInv

\* Taking a node from the queue and appending those it frees: what is ordered stays behind
\* its dependencies, the counts stay those of the entries to come, and the queue has again
\* exactly the nodes that wait for none.
LEMMA TakeReadyKeepsInv ==
    ASSUME PipeInv, TakeReady
    PROVE  PipeInv'
<1> DEFINE n == Head(ready)
           rest == Tail(ready)
           done == ToSet(ordered)
           freed == {m \in Known : n \in DependsOn(m) /\ Lowered(n)[m] = 0}
           new == Ascending(freed)
<1>1. /\ phase = "sorting" /\ phase' = phase /\ ready # <<>> /\ dag' = dag /\ answer' = answer
      /\ UNCHANGED <<plan, completed, running>>
      /\ ordered' = Append(ordered, n) /\ indegree' = Lowered(n) /\ ready' = rest \o new
  BY DEF TakeReady, Freed, runVars
<1>2. /\ Known' = Known /\ Acyclic' = Acyclic
      /\ \A m : DependsOn(m)' = DependsOn(m)
      /\ \A m : Entries(m)' = Entries(m)
  BY <1>1, SameDag
<1>3. /\ PipeTypes /\ Known \in SUBSET PipeNodes
      /\ ready \in Seq(PipeNodes) /\ ordered \in Seq(PipeNodes)
  BY DEF PipeInv, PipeTypes
<1>4. /\ IsInjective(ordered) /\ done \subseteq Known /\ DependenciesBefore(ordered)
      /\ indegree \in [Known -> Nat]
      /\ \A m \in Known : indegree[m] = Cardinality(EntriesOutside(m, done))
      /\ IsInjective(ready)
      /\ ToSet(ready) = {m \in Known \ done : indegree[m] = 0}
      /\ \A m \in Known : DependsOn(m) \subseteq Known
  BY <1>1 DEF PipeInv, Sorting, Validated
<1>5. /\ Len(ready) \in Nat /\ Len(ordered) \in Nat
      /\ \A x : x \in ToSet(ready) <=> \E i \in 1..Len(ready) : ready[i] = x
      /\ \A x : x \in done <=> \E i \in 1..Len(ordered) : ordered[i] = x
      /\ \A i, j \in 1..Len(ready) : ready[i] = ready[j] => i = j
      /\ \A i, j \in 1..Len(ordered) : ordered[i] = ordered[j] => i = j
      /\ DOMAIN ordered = 1..Len(ordered)
  BY <1>3, <1>4, MembersFacts
<1>6. /\ n = ready[1] /\ rest \in Seq(PipeNodes) /\ Len(rest) = Len(ready) - 1
      /\ \A i \in 1..Len(rest) : rest[i] = ready[i + 1]
      /\ Len(ready) # 0
  BY <1>1, <1>3, HeadTailProperties, EmptySeq
<1> HIDE DEF rest
<1>7. /\ Len(rest) \in Nat
      /\ \A m : m \in ToSet(rest) <=> m \in ToSet(ready) /\ m # n
      /\ \A i, j \in 1..Len(rest) : rest[i] = rest[j] => i = j
  <2>0. /\ Len(rest) \in Nat /\ 1 \in 1..Len(ready)
        /\ \A i \in 1..Len(rest) : i + 1 \in 1..Len(ready) /\ i + 1 # 1
    BY <1>5, <1>6
  <2>1. \A m : m \in ToSet(rest) <=> \E i \in 1..Len(rest) : rest[i] = m
    BY <1>6, MembersFacts
  <2>2. ASSUME NEW m \in ToSet(rest) PROVE m \in ToSet(ready) /\ m # n
    <3>1. PICK i \in 1..Len(rest) : rest[i] = m
      BY <2>1
    <3>2. ready[i + 1] = m /\ i + 1 \in 1..Len(ready) /\ i + 1 # 1
      BY <1>6, <2>0, <3>1
    <3> QED BY <1>5, <1>6, <2>0, <3>2
  <2>3. ASSUME NEW m \in ToSet(ready), m # n PROVE m \in ToSet(rest)
    <3>1. PICK i \in 1..Len(ready) : ready[i] = m
      BY <1>5
    <3>2. i # 1
      BY <1>6, <2>3, <3>1
    <3>3. i - 1 \in 1..Len(rest) /\ (i - 1) + 1 = i
      BY <1>5, <1>6, <3>2
    <3>4. rest[i - 1] = m
      BY <1>6, <3>1, <3>3
    <3> QED BY <2>1, <3>3, <3>4
  <2>4. ASSUME NEW i \in 1..Len(rest), NEW j \in 1..Len(rest), rest[i] = rest[j] PROVE i = j
    <3>1. i + 1 = j + 1
      BY <1>5, <1>6, <2>0, <2>4
    <3> QED BY <2>0, <3>1
  <2> QED BY <2>0, <2>2, <2>3, <2>4
<1>8. n \in ToSet(ready) /\ n \in Known /\ n \notin done /\ indegree[n] = 0 /\ n \in PipeNodes
  <2>1. 1 \in 1..Len(ready)
    BY <1>5, <1>6
  <2>2. n \in ToSet(ready)
    BY <1>5, <1>6, <2>1
  <2> QED BY <1>3, <1>4, <2>2
<1> HIDE DEF n
<1>9. ASSUME NEW m \in Known
      PROVE  /\ indegree[m] = 0 <=> DependsOn(m) \subseteq done
             /\ Lowered(n)[m] = Cardinality(EntriesOutside(m, done \cup {n}))
             /\ Lowered(n)[m] \in Nat
             /\ Lowered(n)[m] = 0 <=> DependsOn(m) \subseteq done \cup {n}
  <2>1. /\ Cardinality(EntriesOutside(m, done)) = 0 <=> DependsOn(m) \subseteq done
        /\ Cardinality(EntriesOutside(m, done \cup {n}))
             = Cardinality(EntriesOutside(m, done)) - dag[m].deps[n]
    BY <1>3, <1>8, EntriesFacts
  <2>2. /\ Cardinality(EntriesOutside(m, done \cup {n})) \in Nat
        /\ Cardinality(EntriesOutside(m, done \cup {n})) = 0 <=> DependsOn(m) \subseteq done \cup {n}
    BY <1>3, EntriesFacts
  <2>3. Lowered(n)[m] = indegree[m] - dag[m].deps[n]
    BY DEF Lowered
  <2> QED BY <1>4, <2>1, <2>2, <2>3
<1>10. DependsOn(n) \subseteq done
  BY <1>8, <1>9
<1>11. ASSUME NEW m \in done PROVE n \notin DependsOn(m)
  <2>1. PICK i \in 1..Len(ordered) : ordered[i] = m
    BY <1>5
  <2>2. ASSUME n \in DependsOn(m) PROVE FALSE
    <3>1. PICK j \in 1 .. i - 1 : ordered[j] = n
      BY <1>4, <1>5, <2>1, <2>2 DEF DependenciesBefore
    <3>2. j \in 1..Len(ordered)
      BY <1>5
    <3> QED BY <1>5, <1>8, <3>1, <3>2
  <2> QED BY <2>2
<1>12. /\ ordered' \in Seq(PipeNodes) /\ Len(ordered') = Len(ordered) + 1
       /\ \A i \in 1..Len(ordered) : ordered'[i] = ordered[i]
       /\ ordered'[Len(ordered) + 1] = n
       /\ DOMAIN ordered' = 1 .. Len(ordered) + 1
  <2>1. /\ ordered' \in Seq(PipeNodes) /\ Len(ordered') = Len(ordered) + 1
        /\ \A i \in 1..Len(ordered) : ordered'[i] = ordered[i]
        /\ ordered'[Len(ordered) + 1] = n
    BY <1>1, <1>3, <1>8, AppendProperties
  <2> QED BY <2>1, LenProperties
<1>13. ToSet(ordered') = done \cup {n}
  <2>1. \A x : x \in ToSet(ordered') <=> \E i \in 1 .. Len(ordered) + 1 : ordered'[i] = x
    BY <1>12, MembersFacts
  <2>2. /\ Len(ordered) + 1 \in 1 .. Len(ordered) + 1
        /\ \A i \in 1 .. Len(ordered) + 1 : i \in 1..Len(ordered) \/ i = Len(ordered) + 1
        /\ \A i \in 1..Len(ordered) : i \in 1 .. Len(ordered) + 1
    BY <1>5
  <2>3. ASSUME NEW x \in ToSet(ordered') PROVE x \in done \cup {n}
    BY <1>5, <1>12, <2>1, <2>2
  <2>4. ASSUME NEW x \in done PROVE x \in ToSet(ordered')
    BY <1>5, <1>12, <2>1, <2>2
  <2>5. n \in ToSet(ordered')
    BY <1>12, <2>1, <2>2
  <2> QED BY <2>3, <2>4, <2>5
<1>14. IsInjective(ordered')
  <2> SUFFICES ASSUME NEW i \in 1 .. Len(ordered) + 1, NEW j \in 1 .. Len(ordered) + 1,
                      ordered'[i] = ordered'[j]
               PROVE  i = j
    BY <1>12 DEF IsInjective
  <2>1. \A k \in 1..Len(ordered) : ordered[k] # n
    BY <1>5, <1>8
  <2>2. (i \in 1..Len(ordered) \/ i = Len(ordered) + 1) /\ (j \in 1..Len(ordered) \/ j = Len(ordered) + 1)
    BY <1>5
  <2> QED BY <1>5, <1>12, <2>1, <2>2
<1>15. DependenciesBefore(ordered)'
  <2> SUFFICES ASSUME NEW i \in 1 .. Len(ordered) + 1, NEW d \in DependsOn(ordered'[i])
               PROVE  \E j \in 1 .. i - 1 : ordered'[j] = d
    BY <1>2, <1>12 DEF DependenciesBefore
  <2>1. CASE i \in 1..Len(ordered)
    <3>1. PICK j \in 1 .. i - 1 : ordered[j] = d
      BY <1>4, <1>5, <1>12, <2>1 DEF DependenciesBefore
    <3>2. j \in 1..Len(ordered)
      BY <1>5, <2>1
    <3> QED BY <1>12, <3>1, <3>2
  <2>2. CASE i = Len(ordered) + 1
    <3>1. d \in done
      BY <1>10, <1>12, <2>2
    <3>2. PICK j \in 1..Len(ordered) : ordered[j] = d
      BY <1>5, <3>1
    <3>3. j \in 1 .. i - 1
      BY <1>5, <2>2
    <3> QED BY <1>12, <3>2, <3>3
  <2> QED BY <1>5, <2>1, <2>2
<1>16. freed \in SUBSET PipeNodes /\ freed \in SUBSET Nat /\ IsFiniteSet(freed)
  <2>1. freed \in SUBSET PipeNodes
    BY <1>3
  <2> HIDE DEF freed
  <2>2. freed \in SUBSET Nat
    BY <2>1, PipeNodesAssumption
  <2> QED BY <2>1, <2>2, PipeNodesAssumption, FS_Subset
<1>17. \A m : m \in freed <=> m \in Known /\ n \in DependsOn(m) /\ Lowered(n)[m] = 0
  OBVIOUS
<1> HIDE DEF freed
<1>18. new \in Seq(PipeNodes) /\ ToSet(new) = freed /\ IsInjective(new)
  <2>1. /\ Cardinality(freed) \in Nat /\ new \in [1..Cardinality(freed) -> freed]
        /\ \A x \in freed : \E i \in 1..Cardinality(freed) : new[i] = x
        /\ IsInjective(new)
    BY <1>16, AscendingFacts
  <2> HIDE DEF new
  <2>2. new \in [1..Cardinality(freed) -> PipeNodes]
    BY <1>16, <2>1
  <2>3. new \in Seq(PipeNodes)
    BY <2>1, <2>2, SeqDef
  <2> QED BY <2>1, <2>3 DEF ToSet
<1> HIDE DEF new
<1>19. ToSet(rest) \cap freed = {}
  <2> SUFFICES ASSUME NEW m \in ToSet(rest), m \in freed PROVE FALSE
    OBVIOUS
  <2>1. m \in Known /\ indegree[m] = 0 /\ n \in DependsOn(m)
    BY <1>4, <1>7, <1>17
  <2>2. n \in done
    BY <1>9, <2>1
  <2> QED BY <1>8, <2>2
<1>20. ready' \in Seq(PipeNodes) /\ IsInjective(ready') /\ ToSet(ready') = ToSet(rest) \cup freed
  <2>1. ToSet(rest) \cap ToSet(new) = {}
    BY <1>18, <1>19
  <2>2. /\ rest \o new \in Seq(PipeNodes) /\ IsInjective(rest \o new)
        /\ ToSet(rest \o new) = ToSet(rest) \cup ToSet(new)
    BY <1>6, <1>7, <1>18, <2>1, JoinedFacts
  <2> QED BY <1>1, <1>18, <2>2
<1>21. ToSet(ready') = {m \in Known \ (done \cup {n}) : Lowered(n)[m] = 0}
  <2>1. ASSUME NEW m \in ToSet(rest)
        PROVE  m \in Known /\ m \notin done \cup {n} /\ Lowered(n)[m] = 0
    <3>1. m \in Known /\ m \notin done /\ indegree[m] = 0 /\ m # n
      BY <1>4, <1>7
    <3>2. DependsOn(m) \subseteq done \cup {n}
      BY <1>9, <3>1
    <3> QED BY <1>9, <3>1, <3>2
  <2>2. ASSUME NEW m \in freed
        PROVE  m \in Known /\ m \notin done \cup {n} /\ Lowered(n)[m] = 0
    <3>1. m \in Known /\ n \in DependsOn(m) /\ Lowered(n)[m] = 0
      BY <1>17
    <3>2. m \notin done
      BY <1>11, <3>1
    <3>3. m # n
      BY <1>8, <1>10, <3>1
    <3> QED BY <3>1, <3>2, <3>3
  <2>3. ASSUME NEW m \in Known, m \notin done \cup {n}, Lowered(n)[m] = 0, m \notin freed
        PROVE  m \in ToSet(rest)
    <3>1. n \notin DependsOn(m)
      BY <1>17, <2>3
    <3>2. DependsOn(m) \subseteq done
      BY <1>9, <2>3, <3>1
    <3>3. indegree[m] = 0
      BY <1>9, <3>2
    <3> QED BY <1>4, <1>7, <2>3, <3>3
  <2> QED BY <1>20, <2>1, <2>2, <2>3
<1>22. Sorting'
  <2>1. indegree' \in [Known' -> Nat]
    <3>1. Lowered(n) = [m \in Known |-> indegree[m] - dag[m].deps[n]]
      BY DEF Lowered
    <3> QED BY <1>1, <1>2, <1>9, <3>1
  <2>2. ASSUME NEW m \in Known
        PROVE  indegree'[m] = Cardinality(EntriesOutside(m, ToSet(ordered)))'
    <3>1. EntriesOutside(m, ToSet(ordered))' = EntriesOutside(m, done \cup {n})
      BY <1>2, <1>13 DEF EntriesOutside
    <3> QED BY <1>1, <1>9, <3>1
  <2>3. ToSet(ready') = {m \in Known' \ ToSet(ordered') : indegree'[m] = 0}
    BY <1>1, <1>2, <1>13, <1>21
  <2>4. ToSet(ordered') \subseteq Known'
    BY <1>2, <1>4, <1>8, <1>13
  <2> QED BY <1>2, <1>14, <1>15, <1>20, <2>1, <2>2, <2>3, <2>4 DEF Sorting
<1>23. PipeTypes'
  BY <1>1, <1>2, <1>12, <1>20 DEF PipeInv, PipeTypes
<1>24. Validated'
  BY <1>2, <1>4 DEF Validated
<1>25. Answered' /\ Planned'
  BY <1>1, <1>2, <1>4 DEF PipeInv, Answered, Planned
<1>26. Executed'
  BY <1>1, ExecutedStays DEF PipeInv
<1> QED BY <1>22, <1>23, <1>24, <1>25, <1>26 DEF PipeInv

\* With an empty queue and nodes left, each of these depends on another one of them.
LEMMA RefusedCycleKeepsInv ==
    ASSUME PipeInv, BuildRefusedCycle
    PROVE  PipeInv'
<1> DEFINE done == ToSet(ordered)
           left == Known \ done
<1>1. /\ phase = "sorting" /\ phase' = "open" /\ answer' = "cycle" /\ dag' = dag
      /\ ready = <<>> /\ ready' = ready /\ ordered' = <<>> /\ Len(ordered) # Cardinality(Known)
      /\ UNCHANGED <<plan, completed, running>>
  BY DEF BuildRefusedCycle, runVars
<1>2. Known' = Known /\ Acyclic' = Acyclic
  BY <1>1, SameDag
<1>3. /\ PipeTypes /\ Known \in SUBSET PipeNodes
      /\ ready \in Seq(PipeNodes) /\ ordered \in Seq(PipeNodes)
  BY DEF PipeInv, PipeTypes
<1>4. /\ IsInjective(ordered) /\ done \subseteq Known
      /\ \A m \in Known : indegree[m] = Cardinality(EntriesOutside(m, done))
      /\ ToSet(ready) = {m \in Known \ done : indegree[m] = 0}
      /\ \A m \in Known : DependsOn(m) \subseteq Known
  BY <1>1 DEF PipeInv, Sorting, Validated
<1>5. left # {}
  <2>1. IsFiniteSet(Known)
    BY <1>3, PipeNodesAssumption, FS_Subset
  <2>2. ordered \in Seq(Known)
    <3>1. Len(ordered) \in Nat /\ DOMAIN ordered = 1..Len(ordered)
          /\ ordered \in [1..Len(ordered) -> PipeNodes]
      BY <1>3, LenProperties
    <3>2. \A i \in 1..Len(ordered) : ordered[i] \in Known
      BY <1>4, <3>1 DEF ToSet
    <3>3. ordered \in [1..Len(ordered) -> Known]
      BY <3>1, <3>2
    <3> QED BY <3>1, <3>3, SeqDef
  <2>3. done # Known
    BY <1>1, <1>4, <2>1, <2>2, AllMembers
  <2> QED BY <1>4, <2>3
<1>6. ToSet(ready) = {}
  BY <1>1 DEF ToSet
<1>7. ASSUME NEW m \in left PROVE \E d \in left : d \in DependsOn(m)
  <2>1. indegree[m] # 0
    BY <1>4, <1>6
  <2>2. ~(DependsOn(m) \subseteq done)
    BY <1>3, <1>4, <2>1, EntriesFacts
  <2> QED BY <1>4, <2>2
<1>8. ~Acyclic
  <2>1. left \in SUBSET Known
    OBVIOUS
  <2> HIDE DEF left
  <2> QED BY <1>3, <1>5, <1>7, <2>1, CycleExists
<1>9. PipeTypes'
  <2>1. ordered' \in Seq(PipeNodes)
    BY <1>1, EmptySeq
  <2> QED BY <1>1, <1>2, <2>1 DEF PipeInv, PipeTypes
<1>10. Validated' /\ Sorting' /\ Planned'
  BY <1>1 DEF Validated, Sorting, Planned
<1>11. Answered'
  BY <1>1, <1>2, <1>8 DEF Answered
<1>12. Executed'
  BY <1>1, ExecutedStays DEF PipeInv
<1> QED BY <1>9, <1>10, <1>11, <1>12 DEF PipeInv

\* With all nodes ordered, none needs itself, and leaving the disabled ones out keeps the
\* others behind all they need.
LEMMA BuildEndsKeepsInv ==
    ASSUME PipeInv, BuildEnds
    PROVE  PipeInv'
<1> DEFINE done == ToSet(ordered)
           P == {i \in DOMAIN ordered : dag[ordered[i]].enabled}
           pos == Ascending(P)
           len == Cardinality(P)
<1>1. /\ phase = "sorting" /\ phase' = "planned" /\ answer' = "plan" /\ dag' = dag
      /\ ready' = ready /\ ordered' = <<>> /\ Len(ordered) = Cardinality(Known)
      /\ plan' = [k \in 1..len |-> ordered[pos[k]]]
      /\ UNCHANGED <<completed, running>>
  BY DEF BuildEnds, Picked, runVars
<1>2. /\ Known' = Known /\ Acyclic' = Acyclic
      /\ \A m : DependsOn(m)' = DependsOn(m)
      /\ \A m : NeededBy(m)' = NeededBy(m)
  BY <1>1, SameDag
<1>3. PipeTypes /\ Known \in SUBSET PipeNodes /\ ordered \in Seq(PipeNodes)
  BY DEF PipeInv, PipeTypes
<1>4. /\ IsInjective(ordered) /\ done \subseteq Known /\ DependenciesBefore(ordered)
      /\ \A m \in Known : DependsOn(m) \subseteq Known
  BY <1>1 DEF PipeInv, Sorting, Validated
<1>5. /\ Len(ordered) \in Nat /\ DOMAIN ordered = 1..Len(ordered)
      /\ \A x : x \in done <=> \E i \in 1..Len(ordered) : ordered[i] = x
      /\ \A i, j \in 1..Len(ordered) : ordered[i] = ordered[j] => i = j
  BY <1>3, <1>4, MembersFacts
<1>6. done = Known
  <2>1. IsFiniteSet(Known)
    BY <1>3, PipeNodesAssumption, FS_Subset
  <2>2. ordered \in Seq(Known)
    <3>1. ordered \in [1..Len(ordered) -> PipeNodes]
      BY <1>3, LenProperties
    <3>2. \A i \in 1..Len(ordered) : ordered[i] \in Known
      BY <1>4, <1>5
    <3>3. ordered \in [1..Len(ordered) -> Known]
      BY <3>1, <3>2
    <3> QED BY <1>5, <3>3, SeqDef
  <2> QED BY <1>1, <1>4, <2>1, <2>2, AllMembers
<1>7. \A i \in 1..Len(ordered) : \A m \in NeededBy(ordered[i]) : \E j \in 1 .. i - 1 : ordered[j] = m
  BY <1>3, <1>4, NeededBefore
<1>8. Acyclic
  <2> SUFFICES ASSUME NEW n \in Known, n \in NeededBy(n) PROVE FALSE
    BY DEF Acyclic
  <2>1. PICK i \in 1..Len(ordered) : ordered[i] = n
    BY <1>5, <1>6
  <2>2. PICK j \in 1 .. i - 1 : ordered[j] = n
    BY <1>7, <2>1
  <2>3. j \in 1..Len(ordered) /\ j # i
    BY <1>5
  <2> QED BY <1>5, <2>1, <2>2, <2>3
<1>9. /\ P \in SUBSET (1..Len(ordered))
      /\ \A i \in 1..Len(ordered) : i \in P <=> dag[ordered[i]].enabled
  BY <1>5
<1> HIDE DEF P
<1>10. P \in SUBSET Nat /\ IsFiniteSet(P)
  <2>1. 1 \in Int /\ Len(ordered) \in Int /\ P \in SUBSET Nat
    BY <1>5, <1>9
  <2> QED BY <1>9, <2>1, FS_Interval, FS_Subset
<1>11. /\ len \in Nat /\ pos \in [1..len -> P]
       /\ \A i, j \in 1..len : i < j => pos[i] < pos[j]
       /\ \A x \in P : \E i \in 1..len : pos[i] = x
       /\ IsInjective(pos)
  BY <1>10, AscendingFacts
<1> HIDE DEF pos, len
<1>12. ASSUME NEW k \in 1..len
       PROVE  /\ plan'[k] = ordered[pos[k]] /\ pos[k] \in P /\ pos[k] \in 1..Len(ordered)
              /\ ordered[pos[k]] \in Known /\ dag[ordered[pos[k]]].enabled
  BY <1>1, <1>5, <1>6, <1>9, <1>11
<1>13. plan' \in Seq(PipeNodes) /\ Len(plan') = len /\ DOMAIN plan' = 1..len
  <2>1. plan' \in [1..len -> PipeNodes]
    BY <1>1, <1>3, <1>12
  <2>2. plan' \in Seq(PipeNodes)
    BY <1>11, <2>1, SeqDef
  <2>3. DOMAIN plan' = 1..len
    BY <2>1
  <2>4. Len(plan') = len
    BY <1>11, <2>1
  <2> QED BY <2>2, <2>3, <2>4
<1>14. IsInjective(plan')
  <2> SUFFICES ASSUME NEW k \in 1..len, NEW l \in 1..len, plan'[k] = plan'[l] PROVE k = l
    BY <1>13 DEF IsInjective
  <2>1. pos[k] = pos[l]
    BY <1>5, <1>12
  <2> QED BY <1>11, <2>1 DEF IsInjective
<1>15. ToSet(plan') = {n \in Known : dag[n].enabled}
  <2>1. ASSUME NEW n \in Known, dag[n].enabled PROVE \E k \in 1..len : plan'[k] = n
    <3>1. PICK i \in 1..Len(ordered) : ordered[i] = n
      BY <1>5, <1>6
    <3>2. i \in P
      BY <1>9, <2>1, <3>1
    <3>3. PICK k \in 1..len : pos[k] = i
      BY <1>11, <3>2
    <3> QED BY <1>12, <3>1, <3>3
  <2>2. \A k \in 1..len : plan'[k] \in Known /\ dag[plan'[k]].enabled
    BY <1>12
  <2> QED BY <1>13, <2>1, <2>2 DEF ToSet
<1>16. ASSUME NEW k \in 1..len, NEW m \in NeededBy(plan'[k]), dag[m].enabled
       PROVE  \E l \in 1 .. k - 1 : plan'[l] = m
  <2>1. pos[k] \in 1..Len(ordered) /\ plan'[k] = ordered[pos[k]]
    BY <1>12
  <2>2. PICK j \in 1 .. pos[k] - 1 : ordered[j] = m
    BY <1>7, <1>16, <2>1
  <2>3. j \in 1..Len(ordered) /\ j < pos[k]
    BY <1>5, <2>1
  <2>4. j \in P
    BY <1>9, <1>16, <2>2, <2>3
  <2>5. PICK l \in 1..len : pos[l] = j
    BY <1>11, <2>4
  <2>6. l < k
    <3>1. l # k
      BY <2>1, <2>3, <2>5
    <3>2. ~(k < l)
      BY <1>5, <1>11, <2>1, <2>3, <2>5
    <3> QED BY <1>11, <3>1, <3>2
  <2>7. l \in 1 .. k - 1
    BY <1>11, <2>6
  <2> QED BY <1>12, <2>2, <2>5, <2>7
<1>17. Planned'
  <2>1. \A i \in DOMAIN plan' : \A m \in NeededBy(plan'[i]) :
           dag[m].enabled => \E j \in 1 .. i - 1 : plan'[j] = m
    BY <1>13, <1>16
  <2>2. \A i \in DOMAIN plan' : (NeededBy(plan[i]))' = NeededBy(plan'[i])
    BY <1>1, <1>2 DEF NeededBy, DependsOn, Closed, Known
  <2>3. Acyclic'
    BY <1>2, <1>8
  <2>4. ToSet(plan') = {n \in Known' : dag'[n].enabled}
    BY <1>1, <1>2, <1>15
  <2> QED BY <1>1, <1>14, <2>1, <2>2, <2>3, <2>4 DEF Planned
<1>18. PipeTypes'
  <2>1. ordered' \in Seq(PipeNodes)
    BY <1>1, EmptySeq
  <2> QED BY <1>1, <1>2, <1>13, <2>1 DEF PipeInv, PipeTypes
<1>19. Validated' /\ Sorting' /\ Answered'
  BY <1>1, <1>2, <1>4 DEF Validated, Sorting, Answered
<1>20. Executed'
  <2>1. completed' = {}
    BY <1>1 DEF PipeInv, Executed
  <2>2. 0 \in 0 .. Len(plan') /\ {plan'[i] : i \in 1..0} = {}
    BY <1>11, <1>13
  <2> QED BY <1>1, <2>1, <2>2 DEF Executed
<1> QED BY <1>17, <1>18, <1>19, <1>20 DEF PipeInv

-----------------------------------------------------------------------------
(* The steps of a run.                                                     *)

\* decide_ready answers with the first step that a run has not executed.
LEMMA ReadyFacts ==
    ASSUME PipeInv, running
    PROVE  \E k \in 0 .. Len(plan) :
              /\ completed = {plan[i] : i \in 1..k} /\ Cardinality(completed) = k
              /\ k < Len(plan) => DecideReady # <<>> /\ Head(DecideReady) = plan[k + 1]
<1>1. phase = "planned" /\ plan \in Seq(PipeNodes) /\ IsInjective(plan)
  BY DEF PipeInv, PipeTypes, Executed, Planned
<1>2. /\ Len(plan) \in Nat /\ DOMAIN plan = 1..Len(plan)
      /\ \A i, j \in 1..Len(plan) : plan[i] = plan[j] => i = j
      /\ \A i \in 1..Len(plan) : plan[i] \in PipeNodes
  BY <1>1, MembersFacts, ElementOfSeq
<1>3. PICK k \in 0 .. Len(plan) : completed = {plan[i] : i \in 1..k}
  BY DEF PipeInv, Executed
<1>4. \A i \in 1..k : i \in 1..Len(plan)
  BY <1>2
<1>5. Cardinality(completed) = k
  <2> DEFINE f == [i \in 1..k |-> plan[i]]
  <2>1. f \in Bijection(1..k, completed)
    BY <1>2, <1>3, <1>4 DEF Bijection, Injection, Surjection, IsInjective
  <2>2. ExistsBijection(1..k, completed)
    BY <2>1 DEF ExistsBijection
  <2>3. k \in Nat
    BY <1>2
  <2> QED BY <2>2, <2>3, FS_CountingElements
<1>6. ASSUME k < Len(plan)
      PROVE  DecideReady # <<>> /\ Head(DecideReady) = plan[k + 1]
  <2> DEFINE P == {i \in DOMAIN plan : plan[i] \notin completed}
             len == Cardinality(P)
             pos == Ascending(P)
             q == [j \in 1..len |-> plan[pos[j]]]
  <2>1. ASSUME NEW i \in 1..Len(plan) PROVE i \in P <=> i \notin 1..k
    BY <1>2, <1>3, <1>4
  <2>2. P \in SUBSET (1..Len(plan))
    BY <1>2
  <2> HIDE DEF P
  <2>3. P \in SUBSET Nat /\ IsFiniteSet(P)
    <3>1. 1 \in Int /\ Len(plan) \in Int /\ P \in SUBSET Nat
      BY <1>2, <2>2
    <3> QED BY <2>2, <3>1, FS_Interval, FS_Subset
  <2>4. /\ len \in Nat /\ pos \in [1..len -> P]
        /\ \A i, j \in 1..len : i < j => pos[i] < pos[j]
        /\ \A x \in P : \E i \in 1..len : pos[i] = x
    BY <2>3, AscendingFacts
  <2>5. DecideReady = q
    BY DEF DecideReady, Picked, P
  <2> HIDE DEF len, pos
  <2>6. k + 1 \in P
    <3>1. k + 1 \in 1..Len(plan) /\ k + 1 \notin 1..k
      BY <1>2, <1>6
    <3> QED BY <2>1, <3>1
  <2>7. PICK j \in 1..len : pos[j] = k + 1
    BY <2>4, <2>6
  <2>8. 1 \in 1..len /\ pos[1] \in P /\ pos[1] \in 1..Len(plan)
    <3>1. 1 \in 1..len
      BY <2>4, <2>7
    <3> QED BY <2>2, <2>4, <3>1
  <2>9. pos[1] = k + 1
    <3>1. ~(pos[1] < k + 1)
      BY <1>2, <2>1, <2>8
    <3>2. j = 1 \/ pos[1] < pos[j]
      BY <2>4, <2>7, <2>8
    <3> QED BY <2>7, <3>1, <3>2
  <2>10. q \in Seq(PipeNodes) /\ Len(q) = len
    <3>1. q \in [1..len -> PipeNodes]
      BY <1>2, <2>2, <2>4
    <3> HIDE DEF q
    <3> QED BY <2>4, <3>1
  <2>11. q[1] = plan[k + 1]
    BY <2>8, <2>9
  <2> HIDE DEF q
  <2>12. q # <<>> /\ Head(q) = q[1]
    BY <2>4, <2>8, <2>10
  <2> QED BY <2>5, <2>11, <2>12
<1> QED BY <1>3, <1>5, <1>6

\* A stage of a run adds the next step of the plan to those that are completed.
LEMMA RunKeepsInv ==
    ASSUME PipeInv, RunBegins \/ RunStage \/ RunEnds \/ UNCHANGED pipeVars
    PROVE  PipeInv'
<1>1. UNCHANGED <<dag, phase, answer, indegree, ready, ordered, plan>>
  BY DEF RunBegins, RunStage, RunEnds, pipeVars, planVars
<1>2. /\ Known' = Known /\ Acyclic' = Acyclic
      /\ \A m : DependsOn(m)' = DependsOn(m)
      /\ \A m : Entries(m)' = Entries(m)
      /\ \A m : NeededBy(m)' = NeededBy(m)
  BY <1>1, SameDag
<1>3. PipeTypes' /\ Validated'
  BY <1>1, <1>2 DEF PipeInv, PipeTypes, Validated
<1>4. Sorting'
  <2>1. \A m : EntriesOutside(m, ToSet(ordered))' = EntriesOutside(m, ToSet(ordered))
    BY <1>1, <1>2 DEF EntriesOutside
  <2>2. DependenciesBefore(ordered)' = DependenciesBefore(ordered)
    BY <1>1, <1>2 DEF DependenciesBefore, DependsOn
  <2> QED BY <1>1, <1>2, <2>1, <2>2 DEF PipeInv, Sorting
<1>5. Answered'
  BY <1>1, <1>2 DEF PipeInv, Answered
<1>6. Planned'
  <2>1. \A i \in DOMAIN plan : NeededBy(plan[i])' = NeededBy(plan[i])
    BY <1>1, <1>2 DEF NeededBy, DependsOn, Closed, Known
  <2> QED BY <1>1, <1>2, <2>1 DEF PipeInv, Planned
<1>7. Executed'
  <2>0. PICK k \in 0 .. Len(plan) : completed = {plan[i] : i \in 1..k}
    BY DEF PipeInv, Executed
  <2>1. CASE RunBegins
    <3>1. completed' = {} /\ phase = "planned"
      BY <2>1 DEF RunBegins
    <3>2. Len(plan) \in Nat
      BY LenProperties DEF PipeInv, PipeTypes
    <3>3. 0 \in 0 .. Len(plan) /\ {plan[i] : i \in 1..0} = {}
      BY <3>2
    <3> QED BY <1>1, <3>1, <3>3 DEF Executed
  <2>2. CASE RunStage
    <3>1. /\ running /\ running' = running /\ Cardinality(completed) < Len(plan)
          /\ completed' = completed \cup {Head(DecideReady)}
      BY <2>2 DEF RunStage
    <3>2. PICK l \in 0 .. Len(plan) :
            /\ completed = {plan[i] : i \in 1..l} /\ Cardinality(completed) = l
            /\ l < Len(plan) => DecideReady # <<>> /\ Head(DecideReady) = plan[l + 1]
      BY <3>1, ReadyFacts
    <3>3. Len(plan) \in Nat
      BY LenProperties DEF PipeInv, PipeTypes
    <3>4. completed' = {plan[i] : i \in 1..l} \cup {plan[l + 1]}
      BY <3>1, <3>2
    <3>5. l + 1 \in 0 .. Len(plan) /\ 1 .. l + 1 = (1..l) \cup {l + 1}
      BY <3>1, <3>2, <3>3
    <3>6. completed' = {plan[i] : i \in 1 .. l + 1}
      BY <3>4, <3>5
    <3>7. phase = "planned"
      BY <3>1 DEF PipeInv, Executed
    <3> QED BY <1>1, <3>5, <3>6, <3>7 DEF Executed
  <2>3. CASE RunEnds \/ UNCHANGED pipeVars
    <3>1. completed' = completed /\ (running' = running \/ running' = FALSE)
      BY <2>3 DEF RunEnds, pipeVars, runVars
    <3>2. phase # "planned" => ~running /\ completed = {}
      BY DEF PipeInv, Executed
    <3> QED BY <1>1, <2>0, <3>1, <3>2 DEF Executed
  <2> QED BY <2>1, <2>2, <2>3
<1> QED BY <1>3, <1>4, <1>5, <1>6, <1>7 DEF PipeInv

-----------------------------------------------------------------------------
(* The theorems about the pipeline.                                        *)

\* The invariant of the pipeline holds for every set of nodes and every way to put a dag
\* together (PipelineDag, build_execution_plan and the loops that run a plan).
THEOREM PipeInvariant == PipeSpec => []PipeInv
<1>1. PipeInit => PipeInv
  <2> SUFFICES ASSUME PipeInit PROVE PipeInv
    OBVIOUS
  <2>1. /\ dag = <<>> /\ phase = "open" /\ answer = "none" /\ ready = <<>> /\ ordered = <<>>
        /\ plan = <<>> /\ completed = {} /\ running = FALSE
    BY DEF PipeInit
  <2>2. Known = {} /\ <<>> \in Seq(PipeNodes) /\ Len(<<>>) = 0
    BY <2>1, EmptySeq DEF Known
  <2>3. dag \in [Known -> [deps : [PipeNodes -> 0..2], enabled : BOOLEAN]]
    <3>1. dag = [m \in {} |-> 0]
      BY <2>1
    <3> QED BY <2>2, <3>1
  <2>4. PipeTypes
    BY <2>1, <2>2, <2>3 DEF PipeTypes
  <2>5. Validated /\ Sorting /\ Answered /\ Planned
    BY <2>1 DEF Validated, Sorting, Answered, Planned
  <2>6. Executed
    <3>1. 0 \in 0 .. Len(plan) /\ {plan[i] : i \in 1..0} = {}
      BY <2>1, <2>2
    <3> QED BY <2>1, <3>1 DEF Executed
  <2> QED BY <2>4, <2>5, <2>6 DEF PipeInv
<1>2. PipeInv /\ [PipeNext]_pipeVars => PipeInv'
  <2> SUFFICES ASSUME PipeInv, [PipeNext]_pipeVars PROVE PipeInv'
    OBVIOUS
  <2>1. ASSUME NEW n \in PipeNodes, NEW deps \in DependencyList, NEW on \in BOOLEAN,
               AddNode(n, deps, on)
        PROVE  PipeInv'
    BY <2>1, AddNodeKeepsInv
  <2>2. ASSUME NEW n \in PipeNodes, NEW d \in PipeNodes, AddDependency(n, d) PROVE PipeInv'
    BY <2>2, AddDependencyKeepsInv
  <2>3. CASE BuildRefusedMissing
    BY <2>3, RefusedMissingKeepsInv
  <2>4. CASE BuildBegins
    BY <2>4, BuildBeginsKeepsInv
  <2>5. CASE TakeReady
    BY <2>5, TakeReadyKeepsInv
  <2>6. CASE BuildRefusedCycle
    BY <2>6, RefusedCycleKeepsInv
  <2>7. CASE BuildEnds
    BY <2>7, BuildEndsKeepsInv
  <2>8. CASE RunBegins \/ RunStage \/ RunEnds \/ UNCHANGED pipeVars
    BY <2>8, RunKeepsInv
  <2> QED BY <2>1, <2>2, <2>3, <2>4, <2>5, <2>6, <2>7, <2>8 DEF PipeNext
<1> QED BY <1>1, <1>2, PTL DEF PipeSpec

\* build_execution_plan answers every dag correctly: a plan with one step for every enabled
\* node exactly when no node needs itself and nothing is missing, an error otherwise.
THEOREM PlansAreRight == PipeSpec => []PlanIsRight
<1>1. PipeInv => PlanIsRight
  BY DEF PipeInv, Answered, Planned, PlanIsRight
<1> QED BY <1>1, PipeInvariant, PTL

\* No run executes a stage before the enabled stages it needs, though decide_ready asks for
\* none of them, and no run is without a ready node before it is done.
THEOREM RunsFollowDependencies == PipeSpec => DependenciesFirst
<1>1. PipeInv /\ [PipeNext]_pipeVars =>
        [/\ \A n \in completed' \ completed :
               {m \in NeededBy(n) : dag[m].enabled} \subseteq completed
         /\ running /\ Cardinality(completed) < Len(plan) => DecideReady # <<>>]_pipeVars
  <2> SUFFICES ASSUME PipeInv, PipeNext
               PROVE  /\ \A n \in completed' \ completed :
                            {m \in NeededBy(n) : dag[m].enabled} \subseteq completed
                      /\ running /\ Cardinality(completed) < Len(plan) => DecideReady # <<>>
    OBVIOUS
  <2>1. running /\ Cardinality(completed) < Len(plan) => DecideReady # <<>>
    BY ReadyFacts
  <2>2. ASSUME NEW n \in completed' \ completed
        PROVE  {m \in NeededBy(n) : dag[m].enabled} \subseteq completed
    <3>1. RunStage
      BY <2>2 DEF PipeNext, AddNode, AddDependency, BuildRefusedMissing, BuildBegins, TakeReady,
                  BuildRefusedCycle, BuildEnds, RunBegins, RunEnds, runVars
    <3>2. /\ running /\ Cardinality(completed) < Len(plan)
          /\ completed' = completed \cup {Head(DecideReady)}
      BY <3>1 DEF RunStage
    <3>3. PICK k \in 0 .. Len(plan) :
            /\ completed = {plan[i] : i \in 1..k} /\ Cardinality(completed) = k
            /\ k < Len(plan) => DecideReady # <<>> /\ Head(DecideReady) = plan[k + 1]
      BY <3>2, ReadyFacts
    <3>4. n = plan[k + 1]
      BY <2>2, <3>2, <3>3
    <3>5. phase = "planned" /\ Len(plan) \in Nat /\ DOMAIN plan = 1..Len(plan)
      BY <3>2, LenProperties DEF PipeInv, PipeTypes, Executed
    <3>6. k + 1 \in DOMAIN plan /\ (k + 1) - 1 = k
      BY <3>2, <3>3, <3>5
    <3>7. ASSUME NEW m \in NeededBy(n), dag[m].enabled PROVE m \in completed
      <4>1. PICK j \in 1 .. (k + 1) - 1 : plan[j] = m
        BY <3>4, <3>5, <3>6, <3>7 DEF PipeInv, Planned
      <4> QED BY <3>3, <3>6, <4>1
    <3> QED BY <3>7
  <2> QED BY <2>1, <2>2
<1> QED BY <1>1, PipeInvariant, PTL DEF PipeSpec, DependenciesFirst

=============================================================================
