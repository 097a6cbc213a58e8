-------------------------- MODULE StreamRuns_proofs --------------------------
(***************************************************************************)
(* Theorems about the streams of a peer over the runs of the interpreter,  *)
(* for all scripts and all current data.                                   *)
(***************************************************************************)
EXTENDS StreamRuns, FiniteSetTheorems, SequenceTheorems, TLAPS

-----------------------------------------------------------------------------
(* Matrices.                                                               *)

Matrix == Seq(Seq(Values))

\* The value x stands in cell j of generation i.
Cell(m, i, j, x) == i \in DOMAIN m /\ j \in DOMAIN m[i] /\ m[i][j] = x

\* The cells of a matrix.
Cells(m) == UNION {{<<i, j>> : j \in DOMAIN m[i]} : i \in DOMAIN m}

\* No value stands in two cells.
NoDup(m) == \A i1, i2 \in DOMAIN m : \A j1 \in DOMAIN m[i1], j2 \in DOMAIN m[i2] :
              m[i1][j1] = m[i2][j2] => i1 = i2 /\ j1 = j2

LEMMA NoDupCells ==
  ASSUME NEW m
  PROVE  NoDup(m) <=> \A i1, j1, i2, j2, x :
                        Cell(m, i1, j1, x) /\ Cell(m, i2, j2, x) => i1 = i2 /\ j1 = j2
  BY DEF NoDup, Cell

LEMMA InMatrixCell ==
  ASSUME NEW m
  PROVE  \A x : x \in InMatrix(m) <=> \E i, j : Cell(m, i, j, x)
  BY DEF InMatrix, Cell

\* What add_value_to_generation does: one more cell, the others stay.
LEMMA AddValueToGenerationCells ==
  ASSUME NEW m \in Matrix, NEW v \in Values, NEW gen \in Nat
  PROVE  LET a == AddValueToGeneration(m, v, gen)
             l == (IF gen < Len(m) THEN Len(m[gen + 1]) ELSE 0) + 1 IN
         /\ a \in Matrix /\ Len(a) >= Len(m) /\ a # <<>>
         /\ Len(a) = IF gen < Len(m) THEN Len(m) ELSE gen + 1
         /\ \A i, j, x : Cell(a, i, j, x) <=>
                           \/ Cell(m, i, j, x)
                           \/ i = gen + 1 /\ j = l /\ x = v
         /\ Cells(a) = Cells(m) \cup {<<gen + 1, l>>}
<1> DEFINE n == IF gen < Len(m) THEN Len(m) ELSE gen + 1
           old(i) == IF i <= Len(m) THEN m[i] ELSE <<>>
           g(i) == IF i = gen + 1 THEN Append(old(i), v) ELSE old(i)
           a == AddValueToGeneration(m, v, gen)
           l == (IF gen < Len(m) THEN Len(m[gen + 1]) ELSE 0) + 1
<1>1. Len(m) \in Nat /\ n \in Nat /\ n >= Len(m) /\ gen + 1 \in 1 .. n /\ DOMAIN m = 1 .. Len(m)
  BY DEF Matrix
<1>2. a = [i \in 1 .. n |-> g(i)]
  BY DEF AddValueToGeneration
<1>3. \A i \in 1 .. n : old(i) \in Seq(Values)
  BY <1>1 DEF Matrix
<1>4. \A i \in 1 .. n : g(i) \in Seq(Values)
  BY <1>3
<1> HIDE DEF n, a, l, g, old
<1>5. a \in Matrix /\ Len(a) = n /\ DOMAIN a = 1 .. n
  BY <1>1, <1>2, <1>4 DEF Matrix
<1>6. l = Len(old(gen + 1)) + 1 /\ l \in Nat
  BY <1>1, <1>3 DEF l, old, Matrix
<1>7. /\ DOMAIN a[gen + 1] = DOMAIN old(gen + 1) \cup {l}
      /\ a[gen + 1][l] = v /\ l \notin DOMAIN old(gen + 1)
      /\ \A j \in DOMAIN old(gen + 1) : a[gen + 1][j] = old(gen + 1)[j]
  <2>1. a[gen + 1] = Append(old(gen + 1), v) /\ old(gen + 1) \in Seq(Values)
    BY <1>1, <1>2, <1>3 DEF g
  <2>2. QED
    BY <1>6, <2>1
<1>8. \A i \in 1 .. n : i # gen + 1 => a[i] = old(i)
  BY <1>1, <1>2 DEF g
<1>9. ASSUME NEW i \in 1 .. n
      PROVE  /\ i \in DOMAIN m => old(i) = m[i]
             /\ i \notin DOMAIN m => DOMAIN old(i) = {}
  BY <1>1, <1>9 DEF old
<1>10. \A i, j, x : Cell(a, i, j, x) <=>
                      \/ Cell(m, i, j, x)
                      \/ i = gen + 1 /\ j = l /\ x = v
  <2>1. TAKE i, j, x
  <2>2. CASE i \notin 1 .. n
    BY <1>1, <1>5, <2>2 DEF Cell
  <2>3. CASE i \in 1 .. n /\ i # gen + 1
    BY <1>5, <1>8, <1>9, <2>3 DEF Cell
  <2>4. CASE i = gen + 1
    BY <1>1, <1>5, <1>7, <1>9, <2>4 DEF Cell
  <2>5. QED
    BY <2>2, <2>3, <2>4
<1>11. Cells(a) = Cells(m) \cup {<<gen + 1, l>>}
  <2>1. \A mm, c : c \in Cells(mm) <=> \E i, j, x : c = <<i, j>> /\ Cell(mm, i, j, x)
    BY DEF Cells, Cell
  <2>2. QED
    BY <1>10, <2>1
<1>12. QED
  BY <1>1, <1>5, <1>10, <1>11 DEF n, a, l

\* The members of a finite set of numbers have the ranks 0, 1, ... without a gap.
LEMMA Ranks ==
  ASSUME NEW L \in Nat, NEW S \in SUBSET (1 .. L)
  PROVE  LET Before(i) == {j \in S : j < i} IN
         /\ IsFiniteSet(S) /\ Cardinality(S) \in Nat
         /\ \A i \in S : Cardinality(Before(i)) \in 0 .. Cardinality(S) - 1
         /\ \A i \in S : Cardinality(Before(i)) <= i - 1
         /\ \A i, k \in S : i < k => Cardinality(Before(i)) < Cardinality(Before(k))
         /\ \A n \in 0 .. Cardinality(S) - 1 : \E i \in S : Cardinality(Before(i)) = n
<1> DEFINE Before(i) == {j \in S : j < i}
           r == [i \in S |-> Cardinality(Before(i))]
           C == Cardinality(S)
<1>1. IsFiniteSet(S) /\ C \in Nat
  <2>1. IsFiniteSet(1 .. L)
    BY FS_Interval
  <2>2. IsFiniteSet(S)
    BY <2>1, FS_Subset
  <2>3. QED
    BY <2>2, FS_CardinalityType
<1>2. \A i : IsFiniteSet(Before(i)) /\ Cardinality(Before(i)) \in Nat
  <2>1. TAKE i
  <2>2. Before(i) \in SUBSET S
    OBVIOUS
  <2> HIDE DEF Before
  <2>3. QED
    BY <1>1, <2>2, FS_Subset, FS_CardinalityType
<1>3. \A i, k \in S : i < k => Cardinality(Before(i)) < Cardinality(Before(k))
  <2> SUFFICES ASSUME NEW i \in S, NEW k \in S, i < k
               PROVE  Cardinality(Before(i)) < Cardinality(Before(k))
    OBVIOUS
  <2>1. i \in Nat /\ k \in Nat
    OBVIOUS
  <2>2. Before(i) \in SUBSET Before(k) /\ Before(i) # Before(k)
    <3>1. i \in Before(k) /\ i \notin Before(i)
      BY <2>1
    <3>2. \A j \in S : j < i => j < k
      <4>1. TAKE j \in S
      <4>2. j \in Nat
        OBVIOUS
      <4>3. QED
        BY <2>1, <4>2
    <3>3. Before(i) \subseteq Before(k)
      BY <3>2
    <3>4. QED
      BY <3>1, <3>3
  <2> HIDE DEF Before
  <2>3. /\ Cardinality(Before(i)) <= Cardinality(Before(k))
        /\ Cardinality(Before(i)) # Cardinality(Before(k))
    BY <1>2, <2>2, FS_Subset
  <2>4. QED
    BY <1>2, <2>3
<1>4. \A i \in S : Cardinality(Before(i)) \in 0 .. C - 1
  <2> SUFFICES ASSUME NEW i \in S PROVE Cardinality(Before(i)) \in 0 .. C - 1
    OBVIOUS
  <2>1. Before(i) \in SUBSET S /\ Before(i) # S
    <3>1. i \in Nat /\ i \notin Before(i)
      OBVIOUS
    <3>2. QED
      BY <3>1
  <2> HIDE DEF Before
  <2>2. Cardinality(Before(i)) <= C /\ Cardinality(Before(i)) # C
    BY <1>1, <2>1, FS_Subset
  <2>3. QED
    BY <1>1, <1>2, <2>2
<1>5. \A i \in S : Cardinality(Before(i)) <= i - 1
  <2> SUFFICES ASSUME NEW i \in S PROVE Cardinality(Before(i)) <= i - 1
    OBVIOUS
  <2>1. i \in Nat /\ i >= 1 /\ i - 1 \in Nat
    OBVIOUS
  <2>2. IsFiniteSet(1 .. i - 1) /\ Cardinality(1 .. i - 1) = i - 1
    <3>1. /\ IsFiniteSet(1 .. i - 1)
          /\ Cardinality(1 .. i - 1) = IF 1 > i - 1 THEN 0 ELSE i - 1 - 1 + 1
      BY <2>1, FS_Interval
    <3>2. QED
      BY <2>1, <3>1
  <2>3. Before(i) \in SUBSET (1 .. i - 1)
    <3>1. SUFFICES ASSUME NEW j \in S, j < i PROVE j \in 1 .. i - 1
      OBVIOUS
    <3>2. j \in Nat /\ j >= 1
      OBVIOUS
    <3>3. QED
      BY <2>1, <3>1, <3>2
  <2> HIDE DEF Before
  <2>4. QED
    BY <2>2, <2>3, FS_Subset
<1>6. \A n \in 0 .. C - 1 : \E i \in S : Cardinality(Before(i)) = n
  <2>1. IsFiniteSet(0 .. C - 1) /\ Cardinality(0 .. C - 1) = C
    <3>1. /\ IsFiniteSet(0 .. C - 1)
          /\ Cardinality(0 .. C - 1) = IF 0 > C - 1 THEN 0 ELSE C - 1 - 0 + 1
      BY <1>1, FS_Interval
    <3> HIDE DEF C
    <3>2. QED
      BY <1>1, <3>1
  <2>2. r \in [S -> 0 .. C - 1]
    BY <1>4
  <2>3. \A i, k \in S : r[i] = r[k] => i = k
    <3>1. SUFFICES ASSUME NEW i \in S, NEW k \in S, i # k PROVE r[i] # r[k]
      OBVIOUS
    <3>2. i \in Nat /\ k \in Nat /\ (i < k \/ k < i)
      BY <3>1
    <3>3. r[i] = Cardinality(Before(i)) /\ r[k] = Cardinality(Before(k))
      OBVIOUS
    <3> HIDE DEF r, Before
    <3>4. QED
      BY <1>2, <1>3, <3>2, <3>3
  <2> HIDE DEF r, C
  <2>4. r \in Injection(S, 0 .. C - 1)
    BY <2>2, <2>3 DEF Injection, IsInjective
  <2>5. r \in Surjection(S, 0 .. C - 1)
    BY <2>1, <2>4, FS_Injection DEF C
  <2>6. \A n \in 0 .. C - 1 : \E i \in S : r[i] = n
    BY <2>5 DEF Surjection
  <2>7. QED
    BY <2>6 DEF r
<1>7. QED
  BY <1>1, <1>3, <1>4, <1>5, <1>6

\* The generations that are kept, and where they were: e lists the places in
\* ascending order.
Enumerates(e, m) ==
  LET all == NonEmpty(m) IN
  /\ e \in [1 .. Len(all) -> DOMAIN m]
  /\ \A n, k \in 1 .. Len(all) : n < k => e[n] < e[k]
  /\ \A n \in 1 .. Len(all) : n <= e[n] /\ all[n] = m[e[n]] /\ m[e[n]] # <<>>
  /\ \A i \in DOMAIN m : m[i] # <<>> => \E n \in 1 .. Len(all) : e[n] = i

LEMMA NonEmptyEnumerated ==
  ASSUME NEW m \in Matrix
  PROVE  NonEmpty(m) \in Matrix /\ \E e : Enumerates(e, m)
<1> DEFINE kept == {i \in DOMAIN m : m[i] # <<>>}
           B(i) == {j \in kept : j < i}
           C == Cardinality(kept)
           Nth(n) == CHOOSE i \in kept : Cardinality(B(i)) = n - 1
           e == [n \in 1 .. C |-> Nth(n)]
<1>1. Len(m) \in Nat /\ DOMAIN m = 1 .. Len(m) /\ kept \in SUBSET (1 .. Len(m))
  BY DEF Matrix
<1>2. /\ C \in Nat
      /\ \A i \in kept : Cardinality(B(i)) \in 0 .. C - 1
      /\ \A i \in kept : Cardinality(B(i)) <= i - 1
      /\ \A i, k \in kept : i < k => Cardinality(B(i)) < Cardinality(B(k))
      /\ \A n \in 0 .. C - 1 : \E i \in kept : Cardinality(B(i)) = n
  <2> HIDE DEF kept
  <2>1. QED
    BY <1>1, Ranks
<1>3. NonEmpty(m) = [n \in 1 .. C |-> m[e[n]]]
  BY DEF NonEmpty
<1>4. \A i \in kept : i \in DOMAIN m /\ m[i] # <<>> /\ i \in Nat
  BY <1>1
<1>5. \A i \in DOMAIN m : m[i] # <<>> => i \in kept
  OBVIOUS
<1> HIDE DEF kept, C, B
<1>6. ASSUME NEW n \in 1 .. C
      PROVE  Nth(n) \in kept /\ Cardinality(B(Nth(n))) = n - 1
  <2>1. n - 1 \in 0 .. C - 1
    BY <1>2
  <2>2. \E i \in kept : Cardinality(B(i)) = n - 1
    BY <1>2, <2>1
  <2>3. QED
    BY <2>2
<1> HIDE DEF Nth
<1>7. \A n \in 1 .. C : e[n] \in kept /\ Cardinality(B(e[n])) = n - 1
  BY <1>6
<1> HIDE DEF e
<1>8. NonEmpty(m) \in Matrix /\ Len(NonEmpty(m)) = C
  <2>1. \A n \in 1 .. C : m[e[n]] \in Seq(Values)
    BY <1>4, <1>7 DEF Matrix
  <2>2. QED
    BY <1>2, <1>3, <2>1 DEF Matrix
<1>9. e \in [1 .. C -> DOMAIN m]
  BY <1>4, <1>7 DEF e
<1>10. ASSUME NEW n \in 1 .. C, NEW k \in 1 .. C, n < k PROVE e[n] < e[k]
  <2>1. e[n] \in Nat /\ e[k] \in Nat /\ e[n] \in kept /\ e[k] \in kept
    BY <1>4, <1>7
  <2>2. CASE e[k] < e[n]
    <3>1. k - 1 < n - 1
      BY <1>2, <1>7, <2>1, <2>2
    <3>2. QED
      BY <1>2, <1>10, <3>1
  <2>3. CASE e[k] = e[n]
    <3>1. k - 1 = n - 1
      BY <1>7, <2>3
    <3>2. QED
      BY <1>2, <1>10, <3>1
  <2>4. QED
    BY <2>1, <2>2, <2>3
<1>11. \A n \in 1 .. C : n <= e[n] /\ NonEmpty(m)[n] = m[e[n]] /\ m[e[n]] # <<>>
  <2>1. ASSUME NEW n \in 1 .. C PROVE n <= e[n]
    <3>1. e[n] \in kept /\ e[n] \in Nat /\ n - 1 <= e[n] - 1
      BY <1>2, <1>4, <1>7
    <3>2. QED
      BY <1>2, <3>1
  <2>2. QED
    BY <1>3, <1>4, <1>7, <2>1
<1>12. ASSUME NEW i \in DOMAIN m, m[i] # <<>> PROVE \E n \in 1 .. C : e[n] = i
  <2>1. i \in kept /\ i \in Nat
    BY <1>4, <1>5, <1>12
  <2> DEFINE n == Cardinality(B(i)) + 1
  <2>2. n \in 1 .. C /\ n - 1 = Cardinality(B(i))
    BY <1>2, <2>1
  <2> HIDE DEF n
  <2>3. e[n] \in kept /\ e[n] \in Nat /\ Cardinality(B(e[n])) = Cardinality(B(i))
    BY <1>4, <1>7, <2>2
  <2>4. Cardinality(B(i)) \in Nat
    BY <1>2, <2>1
  <2>5. ~(e[n] < i) /\ ~(i < e[n])
    BY <1>2, <2>1, <2>3, <2>4
  <2>6. QED
    BY <2>1, <2>2, <2>3, <2>5
<1>13. Enumerates(e, m)
  BY <1>8, <1>9, <1>10, <1>11, <1>12 DEF Enumerates
<1>14. QED
  BY <1>8, <1>13

-----------------------------------------------------------------------------
(* The inductive invariant.                                                *)

Streams == [prev : Matrix, cur : Matrix, new : Matrix]

Cursors == [prev : Nat, cur : Nat, new : Nat]

Frames == [id : Nat, cursor : Cursors, todo : Matrix, seen : Seq(Values)]

TypeInv ==
  /\ script \in Scripts
  /\ stream \in Streams
  /\ \A v \in DOMAIN stored : stored[v] \in Nat
  /\ \A v \in DOMAIN incoming : incoming[v] \in Nat
  /\ pc \in Nat
  /\ fold # <<>> => fold = <<Frame>> /\ Frame \in Frames

\* Every stream has passed check_stream_size_limit.
SizeInv ==
  /\ IsFiniteSet(Cells(stream.prev))
  /\ IsFiniteSet(Cells(stream.cur))
  /\ IsFiniteSet(Cells(stream.new))
  /\ StreamSize(stream) < StreamMaxSize

\* The values that the previous data has are in the generations it has them in,
\* of the others those that the current data has in the ones it has them in.
PlaceInv ==
  /\ \A i \in DOMAIN stream.prev : \A j \in DOMAIN stream.prev[i] :
       LET x == stream.prev[i][j] IN x \in DOMAIN stored /\ stored[x] = i - 1
  /\ \A i \in DOMAIN stream.cur : \A j \in DOMAIN stream.cur[i] :
       LET x == stream.cur[i][j] IN
       x \notin DOMAIN stored /\ x \in DOMAIN incoming /\ incoming[x] = i - 1
  /\ \A i \in DOMAIN stream.new : \A j \in DOMAIN stream.new[i] :
       LET x == stream.new[i][j] IN x \notin DOMAIN stored /\ x \notin DOMAIN incoming

\* What is written so far: by the items behind, or by the fold for the values
\* it was run with.
IsChild(f, S, x) == \E w \in DOMAIN script.child[f] \cap S : x = script.child[f][w]

Writes(item, x) ==
  \/ item.op = "write" /\ item.v = x
  \/ item.op = "fold" /\ IsChild(item.id, DOMAIN script.child[item.id], x)

Seen(f) == {f.seen[n] : n \in DOMAIN f.seen}

Written ==
  {x \in Values : \/ \E i \in DOMAIN script.items : i < pc /\ Writes(script.items[i], x)
                  \/ fold # <<>> /\ IsChild(Frame.id, Seen(Frame), x)}

OnceInv ==
  /\ NoDup(stream.prev) /\ NoDup(stream.cur) /\ NoDup(stream.new)
  /\ InStream(stream) \subseteq Written

\* The values in the first n generations of a matrix.
Upto(m, n) == {x \in InMatrix(m) : \E i \in DOMAIN m : i <= n /\ \E j \in DOMAIN m[i] : m[i][j] = x}

\* The values that are behind a cursor.
Behind(s, c) == Upto(s.prev, c.prev) \cup Upto(s.cur, c.cur) \cup Upto(s.new, c.new)

\* What a fold was or will be run with in this round is behind its cursor.
FoldInv ==
  fold # <<>> =>
    /\ pc \in DOMAIN script.items /\ Item.op = "fold" /\ Item.id = Frame.id
    /\ \A n \in DOMAIN Frame.todo : Frame.todo[n] # <<>>
    /\ NoDup(Frame.todo)
    /\ Seen(Frame) \cap InMatrix(Frame.todo) = {}
    /\ \A n, k \in DOMAIN Frame.seen : Frame.seen[n] = Frame.seen[k] => n = k
    /\ Frame.cursor.prev <= Len(stream.prev)
    /\ Frame.cursor.cur <= Len(stream.cur)
    /\ Frame.cursor.new + 1 = Len(stream.new)
    /\ Seen(Frame) \cup InMatrix(Frame.todo) \subseteq Behind(stream, Frame.cursor)

RunsInv ==
  /\ TypeInv
  /\ SizeInv
  /\ pc # 0 => PlaceInv /\ OnceInv
  /\ FoldInv
  /\ StoredGenerationsDense
  /\ StoredDataReplays

-----------------------------------------------------------------------------
(* Operations on matrices.                                                 *)

LEMMA UptoCells ==
  ASSUME NEW m, NEW n
  PROVE  \A x : x \in Upto(m, n) <=> \E i, j : Cell(m, i, j, x) /\ i <= n
  BY DEF Upto, InMatrix, Cell

\* A value that is added to a matrix.
LEMMA AddedValue ==
  ASSUME NEW m \in Matrix, NEW v \in Values, NEW gen \in Nat
  PROVE  LET a == AddValueToGeneration(m, v, gen) IN
         /\ a \in Matrix /\ Len(a) >= Len(m) /\ Len(m) \in Nat /\ Len(a) \in Nat
         /\ gen < Len(m) => Len(a) = Len(m)
         /\ IsFiniteSet(Cells(m)) => IsFiniteSet(Cells(a))
         /\ InMatrix(a) = InMatrix(m) \cup {v}
         /\ NoDup(m) /\ v \notin InMatrix(m) => NoDup(a)
         /\ \A n : Upto(m, n) \subseteq Upto(a, n)
         /\ \A i \in DOMAIN a : \A j \in DOMAIN a[i] :
              Cell(m, i, j, a[i][j]) \/ (i = gen + 1 /\ a[i][j] = v)
<1> DEFINE a == AddValueToGeneration(m, v, gen)
           l == (IF gen < Len(m) THEN Len(m[gen + 1]) ELSE 0) + 1
<1>1. /\ a \in Matrix /\ Len(a) >= Len(m) /\ a # <<>>
      /\ Len(a) = IF gen < Len(m) THEN Len(m) ELSE gen + 1
      /\ \A i, j, x : Cell(a, i, j, x) <=>
                        \/ Cell(m, i, j, x)
                        \/ i = gen + 1 /\ j = l /\ x = v
      /\ Cells(a) = Cells(m) \cup {<<gen + 1, l>>}
  BY AddValueToGenerationCells
<1>2. Len(m) \in Nat /\ Len(a) \in Nat
  <2> HIDE DEF a
  <2>1. QED
    BY <1>1 DEF Matrix
<1> HIDE DEF a, l
<1>3. gen < Len(m) => Len(a) = Len(m)
  BY <1>1
<1>4. IsFiniteSet(Cells(m)) => IsFiniteSet(Cells(a))
  BY <1>1, FS_AddElement
<1>5. InMatrix(a) = InMatrix(m) \cup {v}
  <2>1. \A x : x \in InMatrix(a) <=> x \in InMatrix(m) \/ x = v
    <3>1. /\ \A x : x \in InMatrix(a) <=> \E i, j : Cell(a, i, j, x)
          /\ \A x : x \in InMatrix(m) <=> \E i, j : Cell(m, i, j, x)
      BY InMatrixCell
    <3>2. Cell(a, gen + 1, l, v)
      BY <1>1
    <3>3. \A x : (\E i, j : Cell(a, i, j, x)) <=> (\E i, j : Cell(m, i, j, x)) \/ x = v
      BY <1>1, <3>2
    <3>4. QED
      BY <3>1, <3>3
  <2>2. QED
    BY <2>1
<1>6. NoDup(m) /\ v \notin InMatrix(m) => NoDup(a)
  <2>1. SUFFICES ASSUME NoDup(m), v \notin InMatrix(m),
                        NEW i1, NEW j1, NEW i2, NEW j2, NEW x,
                        Cell(a, i1, j1, x), Cell(a, i2, j2, x)
                 PROVE  i1 = i2 /\ j1 = j2
    BY NoDupCells
  <2>2. CASE x = v
    <3>1. ~Cell(m, i1, j1, x) /\ ~Cell(m, i2, j2, x)
      BY <2>1, <2>2, InMatrixCell
    <3>2. QED
      BY <1>1, <2>1, <3>1
  <2>3. CASE x # v
    BY <1>1, <2>1, <2>3, NoDupCells
  <2>4. QED
    BY <2>2, <2>3
<1>7. \A n : Upto(m, n) \subseteq Upto(a, n)
  BY <1>1, UptoCells
<1>8. \A i \in DOMAIN a : \A j \in DOMAIN a[i] :
        Cell(m, i, j, a[i][j]) \/ (i = gen + 1 /\ a[i][j] = v)
  <2>1. \A i \in DOMAIN a : \A j \in DOMAIN a[i] : Cell(a, i, j, a[i][j])
    BY DEF Cell
  <2>2. QED
    BY <1>1, <2>1
<1>9. QED
  BY <1>1, <1>2, <1>3, <1>4, <1>5, <1>6, <1>7, <1>8 DEF a

\* Two matrices with the same values in the same cells, whatever empty
\* generations they end with.
SameCells(m, a) == \A i, j, x : Cell(a, i, j, x) <=> Cell(m, i, j, x)

LEMMA SameCellsFacts ==
  ASSUME NEW m, NEW a, SameCells(m, a)
  PROVE  /\ Cells(a) = Cells(m) /\ SizeOf(a) = SizeOf(m)
         /\ InMatrix(a) = InMatrix(m)
         /\ NoDup(m) => NoDup(a)
         /\ \A n : Upto(a, n) = Upto(m, n)
         /\ \A i \in DOMAIN a : \A j \in DOMAIN a[i] : Cell(m, i, j, a[i][j])
<1>1. \A mm, c : c \in Cells(mm) <=> \E i, j, x : c = <<i, j>> /\ Cell(mm, i, j, x)
  BY DEF Cells, Cell
<1>2. Cells(a) = Cells(m)
  BY <1>1 DEF SameCells
<1>3. SizeOf(a) = SizeOf(m)
  BY <1>2 DEF SizeOf, Cells
<1>4. InMatrix(a) = InMatrix(m)
  <2>1. \A x : x \in InMatrix(a) <=> x \in InMatrix(m)
    BY InMatrixCell DEF SameCells
  <2>2. QED
    BY <2>1
<1>5. NoDup(m) => NoDup(a)
  BY NoDupCells DEF SameCells
<1>6. \A n : Upto(a, n) = Upto(m, n)
  <2>1. \A n, x : x \in Upto(a, n) <=> x \in Upto(m, n)
    BY UptoCells DEF SameCells
  <2>2. QED
    BY <2>1
<1>7. \A i \in DOMAIN a : \A j \in DOMAIN a[i] : Cell(m, i, j, a[i][j])
  <2>1. \A i \in DOMAIN a : \A j \in DOMAIN a[i] : Cell(a, i, j, a[i][j])
    BY DEF Cell
  <2>2. QED
    BY <2>1 DEF SameCells
<1>8. QED
  BY <1>2, <1>3, <1>4, <1>5, <1>6, <1>7

\* An empty generation is added to, or removed from, the end.
LEMMA EmptyGenerations ==
  ASSUME NEW m \in Matrix
  PROVE  /\ AddNewEmptyGeneration(m) \in Matrix
         /\ Len(AddNewEmptyGeneration(m)) = Len(m) + 1
         /\ SameCells(m, AddNewEmptyGeneration(m))
         /\ RemoveLastIfEmpty(m) \in Matrix /\ Len(RemoveLastIfEmpty(m)) <= Len(m)
         /\ SameCells(m, RemoveLastIfEmpty(m))
<1>1. m \in Seq(Seq(Values)) /\ Len(m) \in Nat /\ DOMAIN m = 1 .. Len(m)
  BY DEF Matrix
<1> DEFINE a == Append(m, <<>>)
<1>2. /\ a \in Seq(Seq(Values)) /\ Len(a) = Len(m) + 1 /\ DOMAIN a = 1 .. Len(m) + 1
      /\ a[Len(m) + 1] = <<>> /\ \A i \in 1 .. Len(m) : a[i] = m[i]
  BY <1>1
<1> HIDE DEF a
<1>3. SameCells(m, a)
  <2>1. ASSUME NEW i, NEW j, NEW x PROVE Cell(a, i, j, x) <=> Cell(m, i, j, x)
    <3>1. CASE i \in 1 .. Len(m)
      <4>1. i \in 1 .. Len(m) + 1
        BY <1>1, <3>1
      <4>2. QED
        BY <1>1, <1>2, <3>1, <4>1 DEF Cell
    <3>2. CASE i = Len(m) + 1
      <4>1. i \notin 1 .. Len(m) /\ DOMAIN a[i] = {}
        BY <1>1, <1>2, <3>2
      <4>2. QED
        BY <1>1, <4>1 DEF Cell
    <3>3. CASE i \notin 1 .. Len(m) + 1
      <4>1. i \notin 1 .. Len(m)
        BY <1>1, <3>3
      <4>2. QED
        BY <1>1, <1>2, <3>3, <4>1 DEF Cell
    <3>4. QED
      BY <1>1, <3>1, <3>2, <3>3
  <2>2. QED
    BY <2>1 DEF SameCells
<1>4. CASE ~(m # <<>> /\ m[Len(m)] = <<>>)
  <2>1. RemoveLastIfEmpty(m) = m
    BY <1>4 DEF RemoveLastIfEmpty
  <2>2. QED
    BY <1>1, <1>2, <1>3, <2>1 DEF AddNewEmptyGeneration, a, Matrix, SameCells
<1>5. CASE m # <<>> /\ m[Len(m)] = <<>>
  <2> DEFINE n == Len(m) - 1
             b == SubSeq(m, 1, n)
  <2>1. n \in Nat /\ Len(m) = n + 1 /\ RemoveLastIfEmpty(m) = b
    BY <1>1, <1>5, EmptySeq DEF RemoveLastIfEmpty
  <2>2. \A i \in 1 .. n : m[i] \in Seq(Values)
    BY <1>1, <2>1
  <2> HIDE DEF n
  <2>3. /\ b \in Seq(Seq(Values))
        /\ Len(b) = IF 1 <= n THEN n - 1 + 1 ELSE 0
        /\ \A i \in 1 .. n - 1 + 1 : b[i] = m[1 + i - 1]
    BY <2>1, <2>2, SubSeqProperties
  <2>4. n - 1 + 1 = n /\ \A i \in 1 .. n : 1 + i - 1 = i
    BY <2>1
  <2> HIDE DEF b
  <2>5. Len(b) = n /\ DOMAIN b = 1 .. n /\ \A i \in 1 .. n : b[i] = m[i]
    BY <2>1, <2>3, <2>4
  <2>6. ASSUME NEW i, NEW j, NEW x PROVE Cell(b, i, j, x) <=> Cell(m, i, j, x)
    <3>1. CASE i \in 1 .. n
      BY <1>1, <2>1, <2>5, <3>1 DEF Cell
    <3>2. CASE i = n + 1
      <4>1. i \notin 1 .. n /\ m[i] = <<>>
        BY <1>5, <2>1, <3>2
      <4>2. QED
        BY <2>5, <4>1 DEF Cell
    <3>3. CASE i \notin 1 .. n + 1
      BY <1>1, <2>1, <2>5, <3>3 DEF Cell
    <3>4. QED
      BY <2>1, <3>1, <3>2, <3>3
  <2>7. SameCells(m, b)
    BY <2>6 DEF SameCells
  <2>8. QED
    BY <1>1, <1>2, <1>3, <2>1, <2>3, <2>5, <2>7 DEF AddNewEmptyGeneration, a, Matrix
<1>6. QED
  BY <1>4, <1>5

-----------------------------------------------------------------------------
(* Writes.                                                                 *)

\* A stream within the limit has fewer than STREAM_MAX_SIZE values.
LEMMA SizeBelow ==
  ASSUME NEW s, IsFiniteSet(Cells(s.prev)), IsFiniteSet(Cells(s.cur)),
         IsFiniteSet(Cells(s.new)), ~SizeLimitExceeded(s)
  PROVE  StreamSize(s) \in Nat /\ StreamSize(s) < StreamMaxSize
<1>1. SizeOf(s.prev) \in Nat /\ SizeOf(s.cur) \in Nat /\ SizeOf(s.new) \in Nat
  BY FS_CardinalityType DEF SizeOf, Cells
<1>2. QED
  BY <1>1, StreamMaxSizeAssumption DEF StreamSize, SizeLimitExceeded

LEMMA StreamFacts ==
  ASSUME NEW s \in Streams
  PROVE  /\ s.prev \in Matrix /\ s.cur \in Matrix /\ s.new \in Matrix
         /\ Len(s.prev) \in Nat /\ Len(s.cur) \in Nat /\ Len(s.new) \in Nat
<1>1. s.prev \in Matrix /\ s.cur \in Matrix /\ s.new \in Matrix
  BY DEF Streams
<1>2. QED
  BY <1>1 DEF Matrix

\* A write adds its value to the generation that the data have it in.
LEMMA WriteStep ==
  ASSUME RunsInv, pc # 0, NEW v \in Values, v \notin InStream(stream),
         stream' = AddValue(stream, v, GenerationOf(v)), ~SizeLimitExceeded(stream'),
         UNCHANGED <<script, stored, incoming>>
  PROVE  /\ stream' \in Streams /\ SizeInv' /\ PlaceInv'
         /\ NoDup(stream'.prev) /\ NoDup(stream'.cur) /\ NoDup(stream'.new)
         /\ InStream(stream') = InStream(stream) \cup {v}
         /\ Len(stream'.prev) >= Len(stream.prev) /\ Len(stream'.cur) >= Len(stream.cur)
         /\ Len(stream.new) > 0 => Len(stream'.new) = Len(stream.new)
         /\ \A n : /\ Upto(stream.prev, n) \subseteq Upto(stream'.prev, n)
                   /\ Upto(stream.cur, n) \subseteq Upto(stream'.cur, n)
                   /\ Upto(stream.new, n) \subseteq Upto(stream'.new, n)
<1>1. /\ stream \in Streams
      /\ stream.prev \in Matrix /\ stream.cur \in Matrix /\ stream.new \in Matrix
      /\ Len(stream.prev) \in Nat /\ Len(stream.cur) \in Nat /\ Len(stream.new) \in Nat
  BY StreamFacts DEF RunsInv, TypeInv
<1>2. /\ v \notin InMatrix(stream.prev) /\ v \notin InMatrix(stream.cur)
      /\ v \notin InMatrix(stream.new)
  BY DEF InStream
<1>3. SizeInv /\ PlaceInv /\ NoDup(stream.prev) /\ NoDup(stream.cur) /\ NoDup(stream.new)
  BY DEF RunsInv, OnceInv
<1>4. CASE v \in DOMAIN stored
  <2> DEFINE a == AddValueToGeneration(stream.prev, v, stored[v])
  <2>1. stored[v] \in Nat
    BY <1>4 DEF RunsInv, TypeInv
  <2>2. stream' = [stream EXCEPT !.prev = a]
    BY <1>4 DEF GenerationOf, Previous, AddValue
  <2>3. /\ a \in Matrix /\ Len(a) >= Len(stream.prev)
        /\ IsFiniteSet(Cells(stream.prev)) => IsFiniteSet(Cells(a))
        /\ InMatrix(a) = InMatrix(stream.prev) \cup {v}
        /\ NoDup(a)
        /\ \A n : Upto(stream.prev, n) \subseteq Upto(a, n)
        /\ \A i \in DOMAIN a : \A j \in DOMAIN a[i] :
             Cell(stream.prev, i, j, a[i][j]) \/ (i = stored[v] + 1 /\ a[i][j] = v)
    BY <1>1, <1>2, <1>3, <2>1, AddedValue
  <2> HIDE DEF a
  <2>4. /\ stream' \in Streams /\ stream'.prev = a /\ stream'.cur = stream.cur
        /\ stream'.new = stream.new
    BY <1>1, <2>2, <2>3 DEF Streams
  <2>5. SizeInv'
    <3>1. StreamSize(stream') < StreamMaxSize
      BY SizeBelow, <1>3, <2>3, <2>4 DEF SizeInv
    <3>2. QED
      BY <1>3, <2>3, <2>4, <3>1 DEF SizeInv
  <2>6. PlaceInv'
    <3>1. \A i \in DOMAIN a : \A j \in DOMAIN a[i] :
            a[i][j] \in DOMAIN stored /\ stored[a[i][j]] = i - 1
      <4>1. TAKE i \in DOMAIN a
      <4>2. TAKE j \in DOMAIN a[i]
      <4>3. CASE Cell(stream.prev, i, j, a[i][j])
        BY <1>3, <4>3 DEF PlaceInv, Cell
      <4>4. CASE i = stored[v] + 1 /\ a[i][j] = v
        BY <1>4, <2>1, <4>4
      <4>5. QED
        BY <2>3, <4>3, <4>4
    <3>2. QED
      BY <1>3, <2>4, <3>1 DEF PlaceInv
  <2>7. InStream(stream') = InStream(stream) \cup {v}
    BY <2>3, <2>4 DEF InStream
  <2>8. QED
    BY <1>1, <1>3, <2>3, <2>4, <2>5, <2>6, <2>7
<1>5. CASE v \notin DOMAIN stored /\ v \in DOMAIN incoming
  <2> DEFINE a == AddValueToGeneration(stream.cur, v, incoming[v])
  <2>1. incoming[v] \in Nat
    BY <1>5 DEF RunsInv, TypeInv
  <2>2. stream' = [stream EXCEPT !.cur = a]
    BY <1>5 DEF GenerationOf, Current, AddValue
  <2>3. /\ a \in Matrix /\ Len(a) >= Len(stream.cur)
        /\ IsFiniteSet(Cells(stream.cur)) => IsFiniteSet(Cells(a))
        /\ InMatrix(a) = InMatrix(stream.cur) \cup {v}
        /\ NoDup(a)
        /\ \A n : Upto(stream.cur, n) \subseteq Upto(a, n)
        /\ \A i \in DOMAIN a : \A j \in DOMAIN a[i] :
             Cell(stream.cur, i, j, a[i][j]) \/ (i = incoming[v] + 1 /\ a[i][j] = v)
    BY <1>1, <1>2, <1>3, <2>1, AddedValue
  <2> HIDE DEF a
  <2>4. /\ stream' \in Streams /\ stream'.cur = a /\ stream'.prev = stream.prev
        /\ stream'.new = stream.new
    BY <1>1, <2>2, <2>3 DEF Streams
  <2>5. SizeInv'
    <3>1. StreamSize(stream') < StreamMaxSize
      BY SizeBelow, <1>3, <2>3, <2>4 DEF SizeInv
    <3>2. QED
      BY <1>3, <2>3, <2>4, <3>1 DEF SizeInv
  <2>6. PlaceInv'
    <3>1. \A i \in DOMAIN a : \A j \in DOMAIN a[i] :
            /\ a[i][j] \notin DOMAIN stored /\ a[i][j] \in DOMAIN incoming
            /\ incoming[a[i][j]] = i - 1
      <4>1. TAKE i \in DOMAIN a
      <4>2. TAKE j \in DOMAIN a[i]
      <4>3. CASE Cell(stream.cur, i, j, a[i][j])
        BY <1>3, <4>3 DEF PlaceInv, Cell
      <4>4. CASE i = incoming[v] + 1 /\ a[i][j] = v
        BY <1>5, <2>1, <4>4
      <4>5. QED
        BY <2>3, <4>3, <4>4
    <3>2. QED
      BY <1>3, <2>4, <3>1 DEF PlaceInv
  <2>7. InStream(stream') = InStream(stream) \cup {v}
    BY <2>3, <2>4 DEF InStream
  <2>8. QED
    BY <1>1, <1>3, <2>3, <2>4, <2>5, <2>6, <2>7
<1>6. CASE v \notin DOMAIN stored /\ v \notin DOMAIN incoming
  <2> DEFINE gen == IF stream.new = <<>> THEN 0 ELSE Len(stream.new) - 1
             a == AddValueToGeneration(stream.new, v, gen)
  <2>1. gen \in Nat /\ (Len(stream.new) > 0 => gen < Len(stream.new))
    <3>1. stream.new # <<>> => Len(stream.new) > 0
      BY <1>1, EmptySeq DEF Matrix
    <3>2. Len(stream.new) > 0 => stream.new # <<>>
      BY <1>1
    <3>3. QED
      BY <1>1, <3>1, <3>2
  <2>2. stream' = [stream EXCEPT !.new = a]
    BY <1>6 DEF GenerationOf, New, AddValue, AddToLastGeneration
  <2> HIDE DEF gen
  <2>3. /\ a \in Matrix /\ Len(a) >= Len(stream.new)
        /\ gen < Len(stream.new) => Len(a) = Len(stream.new)
        /\ IsFiniteSet(Cells(stream.new)) => IsFiniteSet(Cells(a))
        /\ InMatrix(a) = InMatrix(stream.new) \cup {v}
        /\ NoDup(a)
        /\ \A n : Upto(stream.new, n) \subseteq Upto(a, n)
        /\ \A i \in DOMAIN a : \A j \in DOMAIN a[i] :
             Cell(stream.new, i, j, a[i][j]) \/ (i = gen + 1 /\ a[i][j] = v)
    BY <1>1, <1>2, <1>3, <2>1, AddedValue
  <2> HIDE DEF a
  <2>4. /\ stream' \in Streams /\ stream'.new = a /\ stream'.prev = stream.prev
        /\ stream'.cur = stream.cur
    BY <1>1, <2>2, <2>3 DEF Streams
  <2>5. SizeInv'
    <3>1. StreamSize(stream') < StreamMaxSize
      BY SizeBelow, <1>3, <2>3, <2>4 DEF SizeInv
    <3>2. QED
      BY <1>3, <2>3, <2>4, <3>1 DEF SizeInv
  <2>6. PlaceInv'
    <3>1. \A i \in DOMAIN a : \A j \in DOMAIN a[i] :
            a[i][j] \notin DOMAIN stored /\ a[i][j] \notin DOMAIN incoming
      <4>1. TAKE i \in DOMAIN a
      <4>2. TAKE j \in DOMAIN a[i]
      <4>3. CASE Cell(stream.new, i, j, a[i][j])
        BY <1>3, <4>3 DEF PlaceInv, Cell
      <4>4. CASE a[i][j] = v
        BY <1>6, <4>4
      <4>5. QED
        BY <2>3, <4>3, <4>4
    <3>2. QED
      BY <1>3, <2>4, <3>1 DEF PlaceInv
  <2>7. InStream(stream') = InStream(stream) \cup {v}
    BY <2>3, <2>4 DEF InStream
  <2>8. QED
    BY <1>1, <1>3, <2>1, <2>3, <2>4, <2>5, <2>6, <2>7
<1>7. QED
  BY <1>4, <1>5, <1>6

-----------------------------------------------------------------------------
(* What a fold is handed.                                                  *)

AllNonEmpty(m) == \A n \in DOMAIN m : m[n] # <<>>

\* Generations behind generations.
LEMMA ConcatCells ==
  ASSUME NEW a \in Matrix, NEW b \in Matrix
  PROVE  /\ a \o b \in Matrix /\ Len(a \o b) = Len(a) + Len(b)
         /\ Len(a) \in Nat /\ Len(b) \in Nat
         /\ \A i \in 1 .. Len(a) : (a \o b)[i] = a[i]
         /\ \A i \in 1 .. Len(b) : (a \o b)[Len(a) + i] = b[i]
         /\ InMatrix(a \o b) = InMatrix(a) \cup InMatrix(b)
         /\ AllNonEmpty(a) /\ AllNonEmpty(b) => AllNonEmpty(a \o b)
         /\ NoDup(a) /\ NoDup(b) /\ InMatrix(a) \cap InMatrix(b) = {} => NoDup(a \o b)
<1> DEFINE c == a \o b
           p == Len(a)
           q == Len(b)
<1>1. /\ p \in Nat /\ q \in Nat /\ c \in Matrix /\ Len(c) = p + q
      /\ DOMAIN a = 1 .. p /\ DOMAIN b = 1 .. q /\ DOMAIN c = 1 .. p + q
      /\ \A i \in 1 .. p : c[i] = a[i]
      /\ \A i \in 1 .. q : c[p + i] = b[i]
  BY DEF Matrix
<1> HIDE DEF c, p, q
<1>2. /\ \A i \in 1 .. p + q : i \in 1 .. p \/ i - p \in 1 .. q
      /\ \A i \in 1 .. p : i \in 1 .. p + q
      /\ \A i \in 1 .. q : p + i \in 1 .. p + q /\ p + i - p = i
      /\ \A i \in 1 .. p + q : p + (i - p) = i
      /\ \A i \in 1 .. p : i - p \notin 1 .. q
      /\ \A i \in Int : i - p \in 1 .. q => i \in 1 .. p + q /\ i \notin 1 .. p
      /\ \A i, k \in Int : i - p = k - p => i = k
  BY <1>1
<1>3. ASSUME NEW i \in 1 .. p + q
      PROVE  \/ i \in 1 .. p /\ c[i] = a[i]
             \/ i - p \in 1 .. q /\ c[i] = b[i - p]
  BY <1>1, <1>2
<1>4. InMatrix(c) = InMatrix(a) \cup InMatrix(b)
  <2>1. \A x \in InMatrix(c) : x \in InMatrix(a) \cup InMatrix(b)
    <3>1. TAKE x \in InMatrix(c)
    <3>2. PICK i \in DOMAIN c : \E j \in DOMAIN c[i] : c[i][j] = x
      BY DEF InMatrix
    <3>3. QED
      BY <1>1, <1>3, <3>2 DEF InMatrix
  <2>2. \A x \in InMatrix(a) : x \in InMatrix(c)
    <3>1. TAKE x \in InMatrix(a)
    <3>2. PICK i \in DOMAIN a : \E j \in DOMAIN a[i] : a[i][j] = x
      BY DEF InMatrix
    <3>3. i \in DOMAIN c /\ c[i] = a[i]
      BY <1>1, <1>2
    <3>4. QED
      BY <3>2, <3>3 DEF InMatrix
  <2>3. \A x \in InMatrix(b) : x \in InMatrix(c)
    <3>1. TAKE x \in InMatrix(b)
    <3>2. PICK i \in DOMAIN b : \E j \in DOMAIN b[i] : b[i][j] = x
      BY DEF InMatrix
    <3>3. p + i \in DOMAIN c /\ c[p + i] = b[i]
      BY <1>1, <1>2
    <3>4. QED
      BY <3>2, <3>3 DEF InMatrix
  <2>4. QED
    BY <2>1, <2>2, <2>3
<1>5. AllNonEmpty(a) /\ AllNonEmpty(b) => AllNonEmpty(c)
  BY <1>1, <1>3 DEF AllNonEmpty
<1>6. ASSUME NoDup(a), NoDup(b), InMatrix(a) \cap InMatrix(b) = {}
      PROVE  NoDup(c)
  <2>1. SUFFICES ASSUME NEW i1 \in 1 .. p + q, NEW i2 \in 1 .. p + q,
                        NEW j1 \in DOMAIN c[i1], NEW j2 \in DOMAIN c[i2],
                        c[i1][j1] = c[i2][j2]
                 PROVE  i1 = i2 /\ j1 = j2
    BY <1>1 DEF NoDup
  <2>2. CASE i1 \in 1 .. p /\ i2 \in 1 .. p
    <3>1. c[i1] = a[i1] /\ c[i2] = a[i2]
      BY <1>1, <2>2
    <3>2. QED
      BY <1>1, <1>6, <2>1, <2>2, <3>1 DEF NoDup
  <2>3. CASE i1 \notin 1 .. p /\ i2 \notin 1 .. p
    <3>1. /\ i1 - p \in 1 .. q /\ c[i1] = b[i1 - p]
          /\ i2 - p \in 1 .. q /\ c[i2] = b[i2 - p]
      BY <1>3, <2>3
    <3>2. i1 - p = i2 - p /\ j1 = j2
      <4>1. Cell(b, i1 - p, j1, c[i1][j1]) /\ Cell(b, i2 - p, j2, c[i1][j1])
        BY <1>1, <2>1, <3>1 DEF Cell
      <4>2. QED
        BY <1>6, <4>1, NoDupCells
    <3>3. i1 \in Int /\ i2 \in Int
      BY <1>1
    <3>4. QED
      BY <1>2, <3>2, <3>3
  <2>4. \A i \in 1 .. p, k \in 1 .. p + q : \A j \in DOMAIN c[i], l \in DOMAIN c[k] :
          k \notin 1 .. p => c[i][j] # c[k][l]
    <3>1. TAKE i \in 1 .. p, k \in 1 .. p + q
    <3>2. TAKE j \in DOMAIN c[i], l \in DOMAIN c[k]
    <3>3. SUFFICES ASSUME k \notin 1 .. p PROVE c[i][j] # c[k][l]
      OBVIOUS
    <3>4. c[i] = a[i] /\ k - p \in 1 .. q /\ c[k] = b[k - p]
      BY <1>1, <1>3, <3>3
    <3>5. c[i][j] \in InMatrix(a) /\ c[k][l] \in InMatrix(b)
      BY <1>1, <3>4 DEF InMatrix
    <3>6. QED
      BY <1>6, <3>5
  <2>5. CASE i1 \in 1 .. p /\ i2 \notin 1 .. p
    BY <2>1, <2>4, <2>5
  <2>6. CASE i1 \notin 1 .. p /\ i2 \in 1 .. p
    BY <2>1, <2>4, <2>6
  <2>7. QED
    BY <2>2, <2>3, <2>5, <2>6
<1>7. QED
  BY <1>1, <1>4, <1>5, <1>6 DEF c, p, q

\* slice_iter skips non-empty generations, so what it answers is behind as many
\* generations as it skips.
LEMMA SliceIterFacts ==
  ASSUME NEW m \in Matrix, NoDup(m), NEW skip \in Nat
  PROVE  LET t == SliceIter(m, skip) IN
         /\ t \in Matrix /\ AllNonEmpty(t) /\ NoDup(t)
         /\ InMatrix(t) \subseteq InMatrix(m)
         /\ InMatrix(t) \cap Upto(m, skip) = {}
<1> DEFINE all == NonEmpty(m)
           L == Len(all)
           t == SliceIter(m, skip)
<1>1. all \in Matrix /\ L \in Nat /\ DOMAIN m = 1 .. Len(m)
  BY NonEmptyEnumerated DEF Matrix
<1>2. PICK e : Enumerates(e, m)
  BY NonEmptyEnumerated
<1>3. /\ e \in [1 .. L -> DOMAIN m]
      /\ \A n, k \in 1 .. L : n < k => e[n] < e[k]
      /\ \A n \in 1 .. L : n <= e[n] /\ all[n] = m[e[n]] /\ m[e[n]] # <<>>
  BY <1>2 DEF Enumerates
<1> HIDE DEF all
<1>4. t = SubSeq(all, skip + 1, L)
  BY DEF SliceIter, all
<1> HIDE DEF L
<1>5. /\ t \in Matrix
      /\ DOMAIN t = 1 .. (IF skip + 1 <= L THEN L - skip ELSE 0)
      /\ \A n \in DOMAIN t : skip + n \in 1 .. L /\ t[n] = all[skip + n]
  <2> HIDE DEF t
  <2>1. /\ SubSeq(all, skip + 1, L) \in Seq(Seq(Values))
        /\ Len(SubSeq(all, skip + 1, L)) = IF skip + 1 <= L THEN L - (skip + 1) + 1 ELSE 0
        /\ \A i \in 1 .. L - (skip + 1) + 1 :
             SubSeq(all, skip + 1, L)[i] = all[skip + 1 + i - 1]
    <3>1. \A i \in skip + 1 .. L : all[i] \in Seq(Values)
      BY <1>1 DEF Matrix, L
    <3>2. QED
      BY <1>1, <3>1, SubSeqProperties DEF Matrix
  <2>2. DOMAIN t = 1 .. Len(t) /\ Len(t) = IF skip + 1 <= L THEN L - skip ELSE 0
    BY <1>1, <1>4, <2>1
  <2>3. ASSUME NEW n \in DOMAIN t PROVE skip + n \in 1 .. L /\ t[n] = all[skip + n]
    <3>1. /\ n \in Nat /\ n >= 1 /\ skip + n <= L /\ n \in 1 .. L - (skip + 1) + 1
          /\ skip + 1 + n - 1 = skip + n
      BY <1>1, <2>2
    <3>2. QED
      BY <1>1, <1>4, <2>1, <3>1
  <2>4. QED
    BY <1>4, <2>1, <2>2, <2>3 DEF Matrix
<1> HIDE DEF t
<1>6. ASSUME NEW n \in DOMAIN t
      PROVE  LET i == e[skip + n] IN
             i \in DOMAIN m /\ i \in Nat /\ i > skip /\ t[n] = m[i] /\ m[i] # <<>>
  <2>1. skip + n \in 1 .. L /\ t[n] = all[skip + n] /\ n \in Nat /\ n >= 1
    BY <1>1, <1>5
  <2>2. e[skip + n] \in DOMAIN m /\ e[skip + n] \in Nat /\ skip + n <= e[skip + n]
        /\ all[skip + n] = m[e[skip + n]] /\ m[e[skip + n]] # <<>>
    BY <1>1, <1>3, <2>1
  <2>3. QED
    BY <2>1, <2>2
<1>7. AllNonEmpty(t)
  BY <1>6 DEF AllNonEmpty
<1>8. NoDup(t)
  <2>1. SUFFICES ASSUME NEW n \in DOMAIN t, NEW k \in DOMAIN t,
                        NEW j \in DOMAIN t[n], NEW l \in DOMAIN t[k], t[n][j] = t[k][l]
                 PROVE  n = k /\ j = l
    BY DEF NoDup
  <2>2. e[skip + n] = e[skip + k] /\ j = l
    BY <1>6, <2>1 DEF NoDup
  <2>3. skip + n \in 1 .. L /\ skip + k \in 1 .. L /\ n \in Nat /\ k \in Nat
    BY <1>1, <1>5
  <2>4. ~(skip + n < skip + k) /\ ~(skip + k < skip + n)
    <3>1. \A x \in 1 .. L : e[x] \in Nat
      BY <1>1, <1>3
    <3>2. QED
      BY <1>3, <2>2, <2>3, <3>1
  <2>5. QED
    BY <2>2, <2>3, <2>4
<1>9. ASSUME NEW x \in InMatrix(t) PROVE x \in InMatrix(m) /\ x \notin Upto(m, skip)
  <2>1. PICK n \in DOMAIN t : \E j \in DOMAIN t[n] : t[n][j] = x
    BY <1>9 DEF InMatrix
  <2>2. PICK i \in DOMAIN m : i \in Nat /\ i > skip /\ \E j \in DOMAIN m[i] : m[i][j] = x
    BY <1>6, <2>1
  <2>3. x \notin Upto(m, skip)
    <3>1. \A k \in DOMAIN m : (\E j \in DOMAIN m[k] : m[k][j] = x) => k = i
      BY <2>2 DEF NoDup
    <3>2. QED
      BY <2>2, <3>1 DEF Upto
  <2>4. QED
    BY <2>2, <2>3 DEF InMatrix
<1>10. QED
  BY <1>5, <1>7, <1>8, <1>9 DEF t

\* No value is in two of the matrices.
LEMMA PlacesDisjoint ==
  ASSUME PlaceInv
  PROVE  /\ InMatrix(stream.prev) \cap InMatrix(stream.cur) = {}
         /\ InMatrix(stream.prev) \cap InMatrix(stream.new) = {}
         /\ InMatrix(stream.cur) \cap InMatrix(stream.new) = {}
<1>1. \A x \in InMatrix(stream.prev) : x \in DOMAIN stored
  BY DEF PlaceInv, InMatrix
<1>2. \A x \in InMatrix(stream.cur) : x \notin DOMAIN stored /\ x \in DOMAIN incoming
  BY DEF PlaceInv, InMatrix
<1>3. \A x \in InMatrix(stream.new) : x \notin DOMAIN stored /\ x \notin DOMAIN incoming
  BY DEF PlaceInv, InMatrix
<1>4. QED
  BY <1>1, <1>2, <1>3

\* What a fold is handed: values of the stream, each once, none from behind the
\* cursor.
LEMMA SlicesFacts ==
  ASSUME stream \in Streams, PlaceInv,
         NoDup(stream.prev), NoDup(stream.cur), NoDup(stream.new),
         NEW c \in Cursors
  PROVE  LET t == Slices(stream, c) IN
         /\ t \in Matrix /\ AllNonEmpty(t) /\ NoDup(t)
         /\ InMatrix(t) \subseteq InStream(stream)
         /\ InMatrix(t) \cap Behind(stream, c) = {}
<1> DEFINE p == SliceIter(stream.prev, c.prev)
           q == SliceIter(stream.cur, c.cur)
           r == SliceIter(stream.new, c.new)
<1>1. stream.prev \in Matrix /\ stream.cur \in Matrix /\ stream.new \in Matrix
  BY StreamFacts
<1>2. c.prev \in Nat /\ c.cur \in Nat /\ c.new \in Nat
  BY DEF Cursors
<1>3. /\ p \in Matrix /\ AllNonEmpty(p) /\ NoDup(p)
      /\ InMatrix(p) \subseteq InMatrix(stream.prev)
      /\ InMatrix(p) \cap Upto(stream.prev, c.prev) = {}
  BY <1>1, <1>2, SliceIterFacts
<1>4. /\ q \in Matrix /\ AllNonEmpty(q) /\ NoDup(q)
      /\ InMatrix(q) \subseteq InMatrix(stream.cur)
      /\ InMatrix(q) \cap Upto(stream.cur, c.cur) = {}
  BY <1>1, <1>2, SliceIterFacts
<1>5. /\ r \in Matrix /\ AllNonEmpty(r) /\ NoDup(r)
      /\ InMatrix(r) \subseteq InMatrix(stream.new)
      /\ InMatrix(r) \cap Upto(stream.new, c.new) = {}
  BY <1>1, <1>2, SliceIterFacts
<1> HIDE DEF p, q, r
<1>6. /\ InMatrix(stream.prev) \cap InMatrix(stream.cur) = {}
      /\ InMatrix(stream.prev) \cap InMatrix(stream.new) = {}
      /\ InMatrix(stream.cur) \cap InMatrix(stream.new) = {}
  BY PlacesDisjoint
<1>7. p \o q \in Matrix /\ AllNonEmpty(p \o q) /\ NoDup(p \o q)
      /\ InMatrix(p \o q) = InMatrix(p) \cup InMatrix(q)
  <2>1. InMatrix(p) \cap InMatrix(q) = {}
    BY <1>3, <1>4, <1>6
  <2>2. QED
    BY <1>3, <1>4, <2>1, ConcatCells
<1> DEFINE pq == p \o q
<1> HIDE DEF pq
<1>8. pq \o r \in Matrix /\ AllNonEmpty(pq \o r) /\ NoDup(pq \o r)
      /\ InMatrix(pq \o r) = InMatrix(pq) \cup InMatrix(r)
  <2>1. InMatrix(pq) \cap InMatrix(r) = {}
    BY <1>3, <1>4, <1>5, <1>6, <1>7 DEF pq
  <2>2. QED
    BY <1>5, <1>7, <2>1, ConcatCells DEF pq
<1> DEFINE t == pq \o r
<1>9. Slices(stream, c) = t
  BY DEF Slices, p, q, r, pq
<1> HIDE DEF t
<1>10. /\ InMatrix(t) \subseteq InStream(stream)
       /\ InMatrix(t) \cap Behind(stream, c) = {}
  <2>1. InMatrix(t) = InMatrix(p) \cup InMatrix(q) \cup InMatrix(r)
    BY <1>7, <1>8 DEF pq, t
  <2>2. /\ Upto(stream.prev, c.prev) \subseteq InMatrix(stream.prev)
        /\ Upto(stream.cur, c.cur) \subseteq InMatrix(stream.cur)
        /\ Upto(stream.new, c.new) \subseteq InMatrix(stream.new)
    BY DEF Upto
  <2>3. QED
    BY <1>3, <1>4, <1>5, <1>6, <2>1, <2>2 DEF InStream, Behind
<1>11. QED
  BY <1>8, <1>9, <1>10 DEF t

-----------------------------------------------------------------------------
(* Every value is written once.                                            *)

LEMMA ItemFacts ==
  ASSUME script \in Scripts, NEW i \in DOMAIN script.items
  PROVE  LET it == script.items[i] IN
         /\ i \in Nat
         /\ \/ it.op = "write" /\ it = [op |-> "write", v |-> it.v] /\ it.v \in Values
            \/ it.op = "fold" /\ it = [op |-> "fold", id |-> it.id] /\ it.id \in Nat
                 /\ it.id \in DOMAIN script.child
<1> DEFINE it == script.items[i]
<1>1. script.items \in Seq(Items)
  BY ScriptAssumption
<1>2. it \in Items /\ i \in Nat
  BY <1>1
<1>3. it.op = "fold" => it.id \in DOMAIN script.child
  BY ScriptAssumption
<1> HIDE DEF it
<1>4. CASE it \in [op : {"write"}, v : Values]
  BY <1>2, <1>4 DEF it
<1>5. CASE it \in [op : {"fold"}, id : Nat]
  BY <1>2, <1>3, <1>5 DEF it
<1>6. QED
  BY <1>2, <1>4, <1>5 DEF Items

LEMMA ItemNoChild ==
  ASSUME script \in Scripts, NEW i \in DOMAIN script.items,
         NEW f \in DOMAIN script.child, NEW v \in DOMAIN script.child[f]
  PROVE  script.items[i] # [op |-> "write", v |-> script.child[f][v]]
  BY NamesAssumption, Zenon

LEMMA ItemIsNew ==
  ASSUME TypeInv, AtItem("write")
  PROVE  Item.v \in Values /\ Item.v \notin Written
<1>1. /\ script \in Scripts /\ pc \in DOMAIN script.items /\ fold = <<>> /\ pc \in Nat
      /\ Item.op = "write"
  BY DEF TypeInv, AtItem
<1>2. Item = [op |-> "write", v |-> Item.v] /\ Item.v \in Values
  BY <1>1, ItemFacts DEF Item
<1>3. SUFFICES ASSUME NEW i \in DOMAIN script.items, i < pc, Writes(script.items[i], Item.v)
               PROVE  FALSE
  BY <1>1, <1>2 DEF Written
<1>4. CASE script.items[i].op = "write" /\ script.items[i].v = Item.v
  <2>1. script.items[i] = script.items[pc]
    BY <1>1, <1>2, <1>4, ItemFacts DEF Item
  <2>2. QED
    BY <1>1, <1>3, <2>1, NamesAssumption
<1>5. CASE /\ script.items[i].op = "fold"
           /\ IsChild(script.items[i].id, DOMAIN script.child[script.items[i].id], Item.v)
  <2>1. script.items[i].id \in DOMAIN script.child
    BY <1>1, <1>5, ItemFacts
  <2>2. PICK w \in DOMAIN script.child[script.items[i].id] :
          Item.v = script.child[script.items[i].id][w]
    BY <1>5 DEF IsChild
  <2>3. script.items[pc] # [op |-> "write", v |-> script.child[script.items[i].id][w]]
    BY <1>1, <2>1, <2>2, ItemNoChild
  <2>4. QED
    BY <1>2, <2>2, <2>3 DEF Item
<1>6. QED
  BY <1>3, <1>4, <1>5 DEF Writes

LEMMA ChildIsNew ==
  ASSUME TypeInv, FoldInv, fold # <<>>,
         NEW v \in DOMAIN script.child[Frame.id], v \notin Seen(Frame)
  PROVE  LET x == script.child[Frame.id][v] IN x \in Values /\ x \notin Written
<1> DEFINE x == script.child[Frame.id][v]
<1>1. /\ script \in Scripts /\ pc \in DOMAIN script.items /\ pc \in Nat
      /\ Item.op = "fold" /\ Item.id = Frame.id
  BY DEF TypeInv, FoldInv
<1>2. Item = [op |-> "fold", id |-> Frame.id] /\ Frame.id \in DOMAIN script.child
  BY <1>1, ItemFacts DEF Item
<1>3. x \in Values
  BY <1>1, <1>2, ScriptAssumption
<1>4. ASSUME NEW i \in DOMAIN script.items, i < pc, Writes(script.items[i], x)
      PROVE  FALSE
  <2>1. CASE script.items[i].op = "write" /\ script.items[i].v = x
    <3>1. script.items[i] = [op |-> "write", v |-> script.child[Frame.id][v]]
      BY <1>1, <2>1, ItemFacts
    <3>2. script.items[i] # [op |-> "write", v |-> script.child[Frame.id][v]]
      BY <1>1, <1>2, ItemNoChild
    <3>3. QED
      BY <3>1, <3>2
  <2>2. CASE /\ script.items[i].op = "fold"
             /\ IsChild(script.items[i].id, DOMAIN script.child[script.items[i].id], x)
    <3>1. /\ script.items[i].id \in DOMAIN script.child
          /\ script.items[i] = [op |-> "fold", id |-> script.items[i].id]
      BY <1>1, <2>2, ItemFacts
    <3>2. PICK w \in DOMAIN script.child[script.items[i].id] :
            x = script.child[script.items[i].id][w]
      BY <2>2 DEF IsChild
    <3>3. script.items[i].id = Frame.id
      BY <1>1, <1>2, <3>1, <3>2, NamesAssumption
    <3>4. script.items[i] = script.items[pc]
      BY <1>2, <3>1, <3>3 DEF Item
    <3>5. QED
      BY <1>1, <1>4, <3>4, NamesAssumption
  <2>3. QED
    BY <1>4, <2>1, <2>2 DEF Writes
<1>5. ~IsChild(Frame.id, Seen(Frame), x)
  <2>1. SUFFICES ASSUME NEW w \in DOMAIN script.child[Frame.id] \cap Seen(Frame),
                        x = script.child[Frame.id][w]
                 PROVE  FALSE
    BY DEF IsChild
  <2>2. v = w
    BY <1>1, <1>2, <2>1, NamesAssumption
  <2>3. QED
    BY <2>1, <2>2
<1>6. QED
  BY <1>3, <1>4, <1>5 DEF Written

\* What is written stays written when the fold or the item is done, or when the
\* fold was run with more values.
LEMMA WrittenGrows ==
  ASSUME TypeInv, FoldInv, script' = script,
         \/ pc \in DOMAIN script.items /\ pc' = pc + 1 /\ fold' = <<>>
         \/ pc' = pc /\ fold = <<>>
         \/ pc' = pc /\ fold' # <<>> /\ Frame'.id = Frame.id /\ Seen(Frame) \subseteq Seen(Frame')
  PROVE  Written \subseteq Written'
<1>1. pc \in Nat /\ script \in Scripts
  BY DEF TypeInv
<1>2. SUFFICES ASSUME NEW x \in Written PROVE x \in Written'
  OBVIOUS
<1>3. x \in Values
  BY DEF Written
<1>4. CASE \E i \in DOMAIN script.items : i < pc /\ Writes(script.items[i], x)
  <2>1. PICK i \in DOMAIN script.items : i < pc /\ Writes(script.items[i], x)
    BY <1>4
  <2>2. i \in Nat
    BY <1>1, ItemFacts
  <2>3. i < pc' /\ Writes(script.items[i], x)'
    <3>1. i < pc'
      BY <1>1, <2>1, <2>2
    <3>2. Writes(script.items[i], x)'
      BY <2>1 DEF Writes, IsChild
    <3>3. QED
      BY <3>1, <3>2
  <2>4. QED
    BY <1>3, <2>3 DEF Written
<1>5. CASE fold # <<>> /\ IsChild(Frame.id, Seen(Frame), x)
  <2>1. CASE pc \in DOMAIN script.items /\ pc' = pc + 1 /\ fold' = <<>>
    <3>1. PICK i \in DOMAIN script.items : i = pc
      BY <2>1
    <3>2. Writes(script.items[i], x)
      BY <1>5, <3>1 DEF FoldInv, Item, Writes, IsChild
    <3>3. Writes(script.items[i], x)' /\ i < pc'
      <4>1. Writes(script.items[i], x)'
        BY <3>2 DEF Writes, IsChild
      <4>2. QED
        BY <1>1, <2>1, <3>1, <4>1
    <3>4. QED
      BY <1>3, <3>3 DEF Written
  <2>2. CASE pc' = pc /\ fold' # <<>> /\ Frame'.id = Frame.id /\ Seen(Frame) \subseteq Seen(Frame')
    BY <1>3, <1>5, <2>2 DEF Written, IsChild
  <2>3. QED
    BY <1>5, <2>1, <2>2
<1>6. QED
  BY <1>4, <1>5 DEF Written

-----------------------------------------------------------------------------
(* The steps.                                                              *)

LEMMA EmptyStreamFacts ==
  /\ EmptyStream \in Streams
  /\ EmptyStream.prev = <<>> /\ EmptyStream.cur = <<>> /\ EmptyStream.new = <<>>
  /\ Cells(<<>>) = {} /\ InMatrix(<<>>) = {} /\ NoDup(<<>>)
  /\ IsFiniteSet({}) /\ StreamSize(EmptyStream) < StreamMaxSize
<1>1. <<>> \in Matrix /\ DOMAIN <<>> = {}
  BY DEF Matrix
<1>2. /\ EmptyStream \in Streams
      /\ EmptyStream.prev = <<>> /\ EmptyStream.cur = <<>> /\ EmptyStream.new = <<>>
  BY <1>1 DEF EmptyStream, Streams
<1>3. Cells(<<>>) = {} /\ InMatrix(<<>>) = {} /\ NoDup(<<>>)
  BY <1>1 DEF Cells, InMatrix, NoDup
<1>4. IsFiniteSet({}) /\ Cardinality({}) = 0
  BY FS_EmptySet
<1>5. SizeOf(<<>>) = 0
  BY <1>3, <1>4 DEF SizeOf, Cells
<1>6. QED
  BY <1>2, <1>3, <1>4, <1>5, StreamMaxSizeAssumption DEF StreamSize

LEMMA InitRuns == Init => RunsInv
<1> SUFFICES ASSUME Init PROVE RunsInv
  OBVIOUS
<1>1. TypeInv
  BY EmptyStreamFacts DEF Init, TypeInv
<1>2. SizeInv
  BY EmptyStreamFacts DEF Init, SizeInv
<1>3. DOMAIN stored = {} /\ IsFiniteSet({}) /\ Cardinality({}) = 0
  BY FS_EmptySet DEF Init
<1>4. StoredGenerationsDense
  <2>1. {stored[v] : v \in DOMAIN stored} = {}
    BY <1>3
  <2>2. 0 .. 0 - 1 = {}
    OBVIOUS
  <2>3. QED
    BY <1>3, <2>1, <2>2 DEF StoredGenerationsDense
<1>5. StoredDataReplays
  BY <1>3, StreamMaxSizeAssumption DEF StoredDataReplays
<1>6. QED
  BY <1>1, <1>2, <1>4, <1>5 DEF RunsInv, FoldInv, Init

\* What holds of the stored data holds until a run ends.
LEMMA StoredKept ==
  ASSUME RunsInv, UNCHANGED stored
  PROVE  StoredGenerationsDense' /\ StoredDataReplays'
  BY DEF RunsInv, StoredGenerationsDense, StoredDataReplays

LEMMA NoFoldBetweenRuns ==
  ASSUME RunsInv, pc \notin DOMAIN script.items
  PROVE  fold = <<>>
  BY DEF RunsInv, FoldInv

LEMMA StartRunStep == RunsInv /\ StartRun => RunsInv'
<1> SUFFICES ASSUME RunsInv, StartRun PROVE RunsInv'
  OBVIOUS
<1>1. /\ stream' = EmptyStream /\ pc' = 1 /\ script' = script /\ stored' = stored
      /\ fold' = fold /\ pc = 0 /\ incoming' \in script.arrivals
  BY DEF StartRun
<1>2. script \in Scripts /\ \A v \in DOMAIN stored : stored[v] \in Nat
  BY DEF RunsInv, TypeInv
<1>3. fold = <<>>
  <2>1. script.items \in Seq(Items)
    BY <1>2, ScriptAssumption
  <2>2. 0 \notin DOMAIN script.items
    BY <2>1
  <2>3. QED
    BY <1>1, <2>2, NoFoldBetweenRuns
<1>4. \A v \in DOMAIN incoming' : incoming'[v] \in Nat
  BY <1>1, <1>2, ScriptAssumption
<1>5. TypeInv' /\ SizeInv' /\ FoldInv'
  BY <1>1, <1>2, <1>3, <1>4, EmptyStreamFacts DEF TypeInv, SizeInv, FoldInv
<1>6. PlaceInv' /\ OnceInv'
  BY <1>1, EmptyStreamFacts DEF PlaceInv, OnceInv, InStream
<1>7. QED
  BY <1>1, <1>5, <1>6, StoredKept DEF RunsInv

LEMMA AbortStep == RunsInv /\ AbortRun => RunsInv'
<1> SUFFICES ASSUME RunsInv, AbortRun PROVE RunsInv'
  OBVIOUS
<1>1. /\ pc' = 0 /\ fold' = <<>> /\ script' = script /\ stored' = stored
      /\ incoming' = incoming /\ stream' = stream
  BY DEF AbortRun
<1>2. TypeInv' /\ SizeInv' /\ FoldInv'
  BY <1>1 DEF RunsInv, TypeInv, SizeInv, FoldInv
<1>3. QED
  BY <1>1, <1>2, StoredKept DEF RunsInv

LEMMA ExecWriteStep == RunsInv /\ ExecWrite => RunsInv'
<1> SUFFICES ASSUME RunsInv, ExecWrite PROVE RunsInv'
  OBVIOUS
<1>1. /\ TypeInv /\ FoldInv /\ SizeInv /\ AtItem("write")
      /\ pc \in DOMAIN script.items /\ pc \in Nat /\ script \in Scripts /\ fold = <<>>
  BY DEF RunsInv, ExecWrite, AtItem, TypeInv
<1>2. Item.v \in Values /\ Item.v \notin Written
  BY <1>1, ItemIsNew
<1>3. pc # 0
  <2>1. script.items \in Seq(Items)
    BY <1>1, ScriptAssumption
  <2>2. QED
    BY <1>1, <2>1
<1>4. PlaceInv /\ OnceInv
  BY <1>3 DEF RunsInv
<1>5. CASE AbortRun
  BY <1>5, AbortStep
<1> DEFINE done == pc' = pc + 1 /\ fold' = <<>> /\ UNCHANGED <<script, stored, incoming>>
<1>6. CASE /\ done /\ ~SizeLimitExceeded(stream')
           /\ stream' = AddValue(stream, Item.v, GenerationOf(Item.v))
  <2>1. Item.v \notin InStream(stream)
    BY <1>2, <1>4 DEF OnceInv
  <2>2. /\ stream' \in Streams /\ SizeInv' /\ PlaceInv'
        /\ NoDup(stream'.prev) /\ NoDup(stream'.cur) /\ NoDup(stream'.new)
        /\ InStream(stream') = InStream(stream) \cup {Item.v}
    BY <1>2, <1>3, <1>6, <2>1, WriteStep
  <2>3. Written \subseteq Written'
    BY <1>1, <1>6, WrittenGrows
  <2>4. Item.v \in Written'
    <3>1. PICK i \in DOMAIN script.items : i = pc
      BY <1>1
    <3>2. PICK x \in Values : x = Item.v
      BY <1>2
    <3>3. (i < pc /\ Writes(script.items[i], x))'
      BY <1>1, <1>6, <3>1, <3>2 DEF Writes, AtItem, Item
    <3>4. x \in Written'
      BY <1>6, <3>2, <3>3 DEF Written
    <3>5. QED
      BY <3>2, <3>4
  <2>5. OnceInv'
    BY <1>4, <2>2, <2>3, <2>4 DEF OnceInv
  <2>6. TypeInv' /\ FoldInv'
    BY <1>1, <1>6, <2>2 DEF TypeInv, FoldInv
  <2>7. QED
    BY <1>6, <2>2, <2>5, <2>6, StoredKept DEF RunsInv
<1>7. CASE done /\ stream' = stream
  <2>1. Written \subseteq Written'
    BY <1>1, <1>7, WrittenGrows
  <2>2. PlaceInv' /\ OnceInv'
    BY <1>4, <1>7, <2>1 DEF PlaceInv, OnceInv
  <2>3. TypeInv' /\ FoldInv' /\ SizeInv'
    BY <1>1, <1>7 DEF TypeInv, FoldInv, SizeInv
  <2>4. QED
    BY <1>7, <2>2, <2>3, StoredKept DEF RunsInv
<1>8. QED
  BY <1>5, <1>6, <1>7 DEF ExecWrite, Write, Wait

\* The generations that are left when a fold takes a value.
LEMMA RestFacts ==
  ASSUME NEW t \in Matrix, AllNonEmpty(t), NoDup(t), t # <<>>
  PROVE  /\ t[1][1] \in Values /\ t[1][1] \in InMatrix(t)
         /\ Rest(t) \in Matrix /\ AllNonEmpty(Rest(t)) /\ NoDup(Rest(t))
         /\ InMatrix(Rest(t)) \subseteq InMatrix(t)
         /\ t[1][1] \notin InMatrix(Rest(t))
<1> DEFINE r == Rest(t)
           d(i, j) == IF Len(t[1]) = 1 THEN <<i + 1, j>>
                      ELSE IF i = 1 THEN <<1, j + 1>> ELSE <<i, j>>
<1>1. /\ t \in Seq(Seq(Values)) /\ Len(t) \in Nat /\ Len(t) > 0 /\ DOMAIN t = 1 .. Len(t)
      /\ 1 \in DOMAIN t
  <2>1. t \in Seq(Seq(Values)) /\ Len(t) \in Nat /\ DOMAIN t = 1 .. Len(t)
    BY DEF Matrix
  <2>2. Len(t) # 0
    BY <2>1, EmptySeq
  <2>3. QED
    BY <2>1, <2>2
<1>2. /\ t[1] \in Seq(Values) /\ Len(t[1]) \in Nat /\ Len(t[1]) > 0
      /\ DOMAIN t[1] = 1 .. Len(t[1]) /\ 1 \in DOMAIN t[1]
  <2>1. t[1] \in Seq(Values) /\ t[1] # <<>>
    BY <1>1 DEF AllNonEmpty
  <2>2. Len(t[1]) \in Nat /\ DOMAIN t[1] = 1 .. Len(t[1]) /\ Len(t[1]) # 0
    BY <2>1, EmptySeq
  <2>3. QED
    BY <2>1, <2>2
<1>3. t[1][1] \in Values /\ t[1][1] \in InMatrix(t) /\ Cell(t, 1, 1, t[1][1])
  BY <1>1, <1>2 DEF InMatrix, Cell
<1>4. /\ r \in Matrix /\ AllNonEmpty(r)
      /\ \A i, j, x : Cell(r, i, j, x) =>
           /\ i \in Nat /\ i > 0 /\ j \in Nat /\ j > 0
           /\ Cell(t, d(i, j)[1], d(i, j)[2], x)
  <2>1. CASE Len(t[1]) = 1
    <3>1. r = Tail(t)
      BY <2>1 DEF Rest
    <3>2. /\ Tail(t) \in Seq(Seq(Values)) /\ Len(Tail(t)) = Len(t) - 1
          /\ \A i \in 1 .. Len(Tail(t)) : Tail(t)[i] = t[i + 1]
      BY <1>1, HeadTailProperties
    <3> HIDE DEF r
    <3>3. r \in Matrix /\ DOMAIN r = 1 .. Len(t) - 1 /\ \A i \in DOMAIN r : r[i] = t[i + 1]
      BY <1>1, <3>1, <3>2 DEF Matrix
    <3>4. ASSUME NEW i \in DOMAIN r
          PROVE i \in Nat /\ i > 0 /\ i + 1 \in DOMAIN t /\ r[i] = t[i + 1] /\ r[i] \in Seq(Values)
      BY <1>1, <3>3
    <3>5. AllNonEmpty(r)
      BY <3>4 DEF AllNonEmpty
    <3>6. ASSUME NEW i, NEW j, NEW x, Cell(r, i, j, x)
          PROVE  i \in Nat /\ i > 0 /\ j \in Nat /\ j > 0 /\ Cell(t, i + 1, j, x)
      <4>1. i \in DOMAIN r /\ j \in DOMAIN r[i] /\ r[i][j] = x
        BY <3>6 DEF Cell
      <4>2. r[i] \in Seq(Values) /\ i \in Nat /\ i > 0 /\ Cell(t, i + 1, j, x)
        BY <3>4, <4>1 DEF Cell
      <4>3. j \in Nat /\ j > 0
        BY <4>1, <4>2
      <4>4. QED
        BY <4>2, <4>3
    <3>7. QED
      BY <2>1, <3>3, <3>5, <3>6
  <2>2. CASE Len(t[1]) # 1
    <3>1. r = [t EXCEPT ![1] = Tail(t[1])]
      BY <2>2 DEF Rest
    <3>2. /\ Tail(t[1]) \in Seq(Values) /\ Len(Tail(t[1])) = Len(t[1]) - 1
          /\ \A j \in 1 .. Len(Tail(t[1])) : Tail(t[1])[j] = t[1][j + 1]
      BY <1>2, HeadTailProperties
    <3> HIDE DEF r
    <3>3. r \in Matrix /\ DOMAIN r = DOMAIN t /\ r[1] = Tail(t[1])
          /\ \A i \in DOMAIN r : i # 1 => r[i] = t[i]
      BY <1>1, <3>1, <3>2 DEF Matrix
    <3>4. /\ DOMAIN r[1] = 1 .. Len(t[1]) - 1 /\ r[1] # <<>>
          /\ \A j \in DOMAIN r[1] : j \in Nat /\ j > 0 /\ j + 1 \in DOMAIN t[1]
                                    /\ r[1][j] = t[1][j + 1]
      <4>1. r[1] \in Seq(Values) /\ Len(r[1]) = Len(t[1]) - 1 /\ Len(r[1]) > 0
        <5>1. r[1] \in Seq(Values) /\ Len(r[1]) = Len(t[1]) - 1
          BY <3>2, <3>3, Zenon
        <5>2. PICK n \in Nat : n = Len(t[1]) /\ n > 0 /\ n # 1
          BY <1>2, <2>2, Zenon
        <5>3. \A k \in Nat : k > 0 /\ k # 1 => k - 1 > 0
          OBVIOUS
        <5>4. QED
          BY <5>1, <5>2, <5>3, Zenon
      <4>2. DOMAIN r[1] = 1 .. Len(t[1]) - 1 /\ r[1] # <<>>
        BY <4>1
      <4>3. ASSUME NEW j \in DOMAIN r[1]
            PROVE  j \in Nat /\ j > 0 /\ j + 1 \in DOMAIN t[1]
        BY <1>2, <4>2
      <4>4. \A j \in DOMAIN r[1] : r[1][j] = t[1][j + 1]
        BY <3>2, <3>3, <4>1
      <4>5. QED
        BY <4>2, <4>3, <4>4
    <3>5. AllNonEmpty(r)
      BY <3>3, <3>4 DEF AllNonEmpty
    <3>6. ASSUME NEW i, NEW j, NEW x, Cell(r, i, j, x)
          PROVE  /\ i \in Nat /\ i > 0 /\ j \in Nat /\ j > 0
                 /\ i = 1 => Cell(t, 1, j + 1, x)
                 /\ i # 1 => Cell(t, i, j, x)
      <4>1. i \in DOMAIN r /\ j \in DOMAIN r[i] /\ r[i][j] = x /\ i \in DOMAIN t
        BY <3>3, <3>6 DEF Cell
      <4>2. i \in Nat /\ i > 0 /\ r[i] \in Seq(Values)
        BY <1>1, <3>3, <4>1 DEF Matrix
      <4>3. j \in Nat /\ j > 0
        BY <4>1, <4>2
      <4>4. i = 1 => Cell(t, 1, j + 1, x)
        BY <3>4, <4>1 DEF Cell
      <4>5. i # 1 => Cell(t, i, j, x)
        BY <3>3, <4>1 DEF Cell
      <4>6. QED
        BY <4>2, <4>3, <4>4, <4>5
    <3>7. QED
      BY <2>2, <3>3, <3>5, <3>6
  <2>3. QED
    BY <2>1, <2>2
<1> HIDE DEF r
<1>5. NoDup(r)
  <2>1. SUFFICES ASSUME NEW i1, NEW j1, NEW i2, NEW j2, NEW x,
                        Cell(r, i1, j1, x), Cell(r, i2, j2, x)
                 PROVE  i1 = i2 /\ j1 = j2
    BY NoDupCells
  <2>2. /\ i1 \in Nat /\ i1 > 0 /\ j1 \in Nat /\ j1 > 0
        /\ i2 \in Nat /\ i2 > 0 /\ j2 \in Nat /\ j2 > 0
        /\ Cell(t, d(i1, j1)[1], d(i1, j1)[2], x)
        /\ Cell(t, d(i2, j2)[1], d(i2, j2)[2], x)
    BY <1>4, <2>1
  <2>3. d(i1, j1)[1] = d(i2, j2)[1] /\ d(i1, j1)[2] = d(i2, j2)[2]
    <3> HIDE DEF d
    <3>1. QED
      BY <2>2, NoDupCells
  <2>4. QED
    BY <2>2, <2>3
<1>6. InMatrix(r) \subseteq InMatrix(t)
  BY <1>4, InMatrixCell
<1>7. t[1][1] \notin InMatrix(r)
  <2>1. SUFFICES ASSUME NEW i, NEW j, Cell(r, i, j, t[1][1]) PROVE FALSE
    BY InMatrixCell
  <2>2. /\ i \in Nat /\ i > 0 /\ j \in Nat /\ j > 0
        /\ Cell(t, d(i, j)[1], d(i, j)[2], t[1][1])
    BY <1>4, <2>1
  <2>3. d(i, j)[1] = 1 /\ d(i, j)[2] = 1
    <3> HIDE DEF d
    <3>1. QED
      BY <1>3, <2>2, NoDupCells
  <2>4. QED
    BY <2>2, <2>3
<1>8. QED
  BY <1>3, <1>4, <1>5, <1>6, <1>7 DEF r

LEMMA UptoAll ==
  ASSUME NEW m \in Matrix
  PROVE  Upto(m, Len(m)) = InMatrix(m)
<1>1. DOMAIN m = 1 .. Len(m) /\ Len(m) \in Nat
  BY DEF Matrix
<1>2. QED
  BY <1>1 DEF Upto, InMatrix

\* Empty generations at the end of the new values are invisible.
LEMMA NewGenerationStep ==
  ASSUME RunsInv, pc # 0, NEW n \in Matrix, SameCells(stream.new, n),
         stream' = [stream EXCEPT !.new = n], UNCHANGED <<script, stored, incoming>>
  PROVE  /\ stream' \in Streams /\ SizeInv' /\ PlaceInv'
         /\ stream'.prev = stream.prev /\ stream'.cur = stream.cur /\ stream'.new = n
         /\ NoDup(stream'.prev) /\ NoDup(stream'.cur) /\ NoDup(stream'.new)
         /\ InStream(stream') = InStream(stream)
<1>1. /\ stream \in Streams /\ SizeInv /\ PlaceInv
      /\ NoDup(stream.prev) /\ NoDup(stream.cur) /\ NoDup(stream.new)
  BY DEF RunsInv, TypeInv, OnceInv
<1>2. /\ stream' \in Streams /\ stream'.prev = stream.prev /\ stream'.cur = stream.cur
      /\ stream'.new = n
  BY <1>1 DEF Streams
<1>3. /\ Cells(n) = Cells(stream.new) /\ SizeOf(n) = SizeOf(stream.new)
      /\ InMatrix(n) = InMatrix(stream.new) /\ NoDup(n)
      /\ \A i \in DOMAIN n : \A j \in DOMAIN n[i] : Cell(stream.new, i, j, n[i][j])
  BY <1>1, SameCellsFacts
<1>4. SizeInv'
  BY <1>1, <1>2, <1>3 DEF SizeInv, StreamSize
<1>5. PlaceInv'
  BY <1>1, <1>2, <1>3 DEF PlaceInv, Cell
<1>6. QED
  BY <1>1, <1>2, <1>3, <1>4, <1>5 DEF InStream

LEMMA PcInRun ==
  ASSUME script \in Scripts, pc \in DOMAIN script.items
  PROVE  pc # 0
<1>1. script.items \in Seq(Items)
  BY ScriptAssumption
<1>2. QED
  BY <1>1

LEMMA IterationStep == RunsInv /\ Iteration => RunsInv'
<1> SUFFICES ASSUME RunsInv, Iteration PROVE RunsInv'
  OBVIOUS
<1>1. /\ TypeInv /\ FoldInv /\ SizeInv /\ script \in Scripts /\ pc \in DOMAIN script.items
      /\ fold # <<>> /\ fold = <<Frame>> /\ Frame \in Frames /\ stream \in Streams
      /\ Item.op = "fold" /\ Item.id = Frame.id /\ pc \in Nat
  BY DEF RunsInv, Iteration, TypeInv, FoldInv
<1>2. pc # 0 /\ PlaceInv /\ OnceInv
  BY <1>1, PcInRun DEF RunsInv
<1> DEFINE v == Frame.todo[1][1]
           g == [Frame EXCEPT !.todo = Rest(@), !.seen = Append(@, v)]
           x == script.child[Frame.id][v]
<1>3. /\ Frame.todo \in Matrix /\ Frame.todo # <<>> /\ Frame.seen \in Seq(Values)
      /\ Frame.cursor \in Cursors /\ AllNonEmpty(Frame.todo) /\ NoDup(Frame.todo)
  BY <1>1 DEF Frames, FoldInv, Iteration, AllNonEmpty
<1>4. /\ v \in Values /\ v \in InMatrix(Frame.todo)
      /\ Rest(Frame.todo) \in Matrix /\ AllNonEmpty(Rest(Frame.todo))
      /\ NoDup(Rest(Frame.todo))
      /\ InMatrix(Rest(Frame.todo)) \subseteq InMatrix(Frame.todo)
      /\ v \notin InMatrix(Rest(Frame.todo))
  BY <1>3, RestFacts
<1>5. v \notin Seen(Frame)
  BY <1>1, <1>4 DEF FoldInv
<1> HIDE DEF v
<1>6. /\ g \in Frames /\ g.id = Frame.id /\ g.cursor = Frame.cursor
      /\ g.todo = Rest(Frame.todo) /\ g.seen = Append(Frame.seen, v)
  <2>1. Append(Frame.seen, v) \in Seq(Values)
    BY <1>3, <1>4
  <2>2. QED
    <3>1. PICK f \in Frames : f = Frame
      BY <1>1
    <3>2. PICK t \in Matrix : t = Rest(Frame.todo)
      BY <1>4
    <3>3. PICK s \in Seq(Values) : s = Append(Frame.seen, v)
      BY <2>1
    <3>4. g = [f EXCEPT !.todo = t, !.seen = s]
      BY <3>1, <3>2, <3>3
    <3> HIDE DEF g
    <3>5. g \in Frames /\ g.id = f.id /\ g.cursor = f.cursor /\ g.todo = t /\ g.seen = s
      BY <3>4 DEF Frames
    <3>6. QED
      BY <3>1, <3>2, <3>3, <3>5, Zenon
<1>7. /\ Seen(g) = Seen(Frame) \cup {v}
      /\ \A n, k \in DOMAIN g.seen : g.seen[n] = g.seen[k] => n = k
  <2> DEFINE s == Frame.seen
             a == Append(s, v)
             l == Len(s)
  <2>1. /\ l \in Nat /\ DOMAIN s = 1 .. l /\ DOMAIN a = 1 .. l + 1
        /\ a[l + 1] = v /\ \A n \in 1 .. l : a[n] = s[n]
    BY <1>3, <1>4
  <2>2. Seen(Frame) = {s[n] : n \in DOMAIN s} /\ Seen(g) = {a[n] : n \in DOMAIN a}
    BY <1>6 DEF Seen
  <2>3. \A n, k \in DOMAIN s : s[n] = s[k] => n = k
    BY <1>1 DEF FoldInv
  <2> HIDE DEF s, a, l, g
  <2>4. \A n \in 1 .. l + 1 : n \in 1 .. l \/ n = l + 1
    BY <2>1
  <2>5. \A n \in 1 .. l : n \in 1 .. l + 1
    BY <2>1
  <2>6. l + 1 \in 1 .. l + 1
    BY <2>1
  <2>7. Seen(g) = Seen(Frame) \cup {v}
    BY <2>1, <2>2, <2>4, <2>5, <2>6
  <2>8. \A n \in 1 .. l : a[n] # v
    BY <1>5, <2>1, <2>2
  <2>9. \A n, k \in 1 .. l + 1 : a[n] = a[k] => n = k
    BY <2>1, <2>3, <2>4, <2>8
  <2>10. QED
    BY <1>6, <2>1, <2>7, <2>9 DEF a, s
<1> HIDE DEF g
<1> DEFINE done == fold' = <<g>> /\ pc' = pc /\ UNCHANGED <<script, stored, incoming>>
\* The fold goes on, over a stream that has not lost anything.
<1>8. ASSUME done, stream' \in Streams, InStream(stream') \subseteq Written',
             SizeInv', PlaceInv',
             NoDup(stream'.prev), NoDup(stream'.cur), NoDup(stream'.new),
             Len(stream'.prev) >= Len(stream.prev), Len(stream'.cur) >= Len(stream.cur),
             Len(stream'.new) = Len(stream.new),
             \A n : /\ Upto(stream.prev, n) \subseteq Upto(stream'.prev, n)
                    /\ Upto(stream.cur, n) \subseteq Upto(stream'.cur, n)
                    /\ Upto(stream.new, n) \subseteq Upto(stream'.new, n)
      PROVE  RunsInv'
  <2>1. Frame' = g /\ fold' # <<>> /\ fold' = <<Frame'>>
    BY <1>8 DEF Frame
  <2>2. TypeInv'
    BY <1>1, <1>6, <1>8, <2>1 DEF TypeInv
  <2>3. /\ Len(stream.prev) \in Nat /\ Len(stream.cur) \in Nat /\ Len(stream.new) \in Nat
        /\ Len(stream'.prev) \in Nat /\ Len(stream'.cur) \in Nat
        /\ Frame.cursor.prev \in Nat /\ Frame.cursor.cur \in Nat
    BY <1>1, <1>3, <1>8, StreamFacts DEF Cursors
  <2>4. /\ Frame.cursor.prev <= Len(stream'.prev)
        /\ Frame.cursor.cur <= Len(stream'.cur)
        /\ Frame.cursor.new + 1 = Len(stream'.new)
    BY <1>1, <1>8, <2>3 DEF FoldInv
  <2>5. Behind(stream, Frame.cursor) \subseteq Behind(stream', Frame.cursor)
    BY <1>8 DEF Behind
  <2>6. Seen(g) \cup InMatrix(g.todo) \subseteq Behind(stream', Frame.cursor)
    BY <1>1, <1>4, <1>6, <1>7, <2>5 DEF FoldInv
  <2>7. Seen(g) \cap InMatrix(g.todo) = {}
    BY <1>1, <1>4, <1>6, <1>7 DEF FoldInv
  <2>8. pc' \in DOMAIN script'.items /\ Item'.op = "fold" /\ Item'.id = g.id
    BY <1>1, <1>6, <1>8 DEF Item
  <2>9. FoldInv'
    <3>1. \A n \in DOMAIN g.todo : g.todo[n] # <<>>
      BY <1>4, <1>6 DEF AllNonEmpty
    <3>2. QED
      BY <1>4, <1>6, <1>7, <2>1, <2>4, <2>6, <2>7, <2>8, <3>1 DEF FoldInv
  <2>10. OnceInv'
    BY <1>8 DEF OnceInv
  <2>11. QED
    BY <1>8, <2>2, <2>9, <2>10, StoredKept DEF RunsInv
<1>9. ASSUME done PROVE Written \subseteq Written'
  <2>1. Frame' = g /\ fold' # <<>>
    BY <1>9 DEF Frame
  <2>2. QED
    BY <1>1, <1>6, <1>7, <1>9, <2>1, WrittenGrows
<1>10. CASE AbortRun
  BY <1>10, AbortStep
<1>11. CASE done /\ stream' = stream
  <2>1. PlaceInv' /\ SizeInv' /\ InStream(stream') \subseteq Written'
    BY <1>1, <1>2, <1>9, <1>11 DEF PlaceInv, SizeInv, OnceInv
  <2>2. Len(stream.prev) \in Nat /\ Len(stream.cur) \in Nat
    BY <1>1, StreamFacts
  <2>3. NoDup(stream.prev) /\ NoDup(stream.cur) /\ NoDup(stream.new)
    BY <1>2 DEF OnceInv
  <2>4. QED
    BY <1>1, <1>8, <1>11, <2>1, <2>2, <2>3
<1>12. CASE /\ done /\ ~SizeLimitExceeded(stream') /\ v \in DOMAIN script.child[Frame.id]
            /\ stream' = AddValue(stream, x, GenerationOf(x))
  <2>1. x \in Values /\ x \notin Written
    BY <1>1, <1>5, <1>12, ChildIsNew
  <2>2. x \notin InStream(stream)
    BY <1>2, <2>1 DEF OnceInv
  <2>3. x \in Written'
    <3>1. Frame' = g /\ fold' # <<>>
      BY <1>12 DEF Frame
    <3>2. PICK y \in Values : y = x
      BY <2>1
    <3>3. (IsChild(Frame.id, Seen(Frame), y))'
      <4>1. Frame'.id = Frame.id /\ v \in Seen(Frame') /\ script' = script
        BY <1>6, <1>7, <1>12, <3>1
      <4>2. QED
        BY <1>12, <3>2, <4>1 DEF IsChild
    <3>4. y \in Written'
      BY <3>1, <3>3 DEF Written
    <3>5. QED
      BY <3>2, <3>4
  <2> HIDE DEF x
  <2>4. /\ stream' \in Streams /\ SizeInv' /\ PlaceInv'
        /\ NoDup(stream'.prev) /\ NoDup(stream'.cur) /\ NoDup(stream'.new)
        /\ InStream(stream') = InStream(stream) \cup {x}
        /\ Len(stream'.prev) >= Len(stream.prev) /\ Len(stream'.cur) >= Len(stream.cur)
        /\ Len(stream.new) > 0 => Len(stream'.new) = Len(stream.new)
        /\ \A n : /\ Upto(stream.prev, n) \subseteq Upto(stream'.prev, n)
                  /\ Upto(stream.cur, n) \subseteq Upto(stream'.cur, n)
                  /\ Upto(stream.new, n) \subseteq Upto(stream'.new, n)
    BY <1>2, <1>12, <2>1, <2>2, WriteStep
  <2>5. Len(stream.new) > 0
    <3>1. Frame.cursor.new \in Nat /\ Frame.cursor.new + 1 = Len(stream.new)
      BY <1>1, <1>3 DEF Cursors, FoldInv
    <3>2. QED
      BY <3>1
  <2>6. InStream(stream') \subseteq Written'
    BY <1>2, <1>9, <1>12, <2>3, <2>4 DEF OnceInv
  <2>7. QED
    BY <1>8, <1>12, <2>4, <2>5, <2>6
<1>13. QED
  BY <1>10, <1>11, <1>12 DEF Iteration, Write, Wait, g, v

LEMMA FoldStartStep == RunsInv /\ FoldStart => RunsInv'
<1> SUFFICES ASSUME RunsInv, FoldStart PROVE RunsInv'
  OBVIOUS
<1>1. /\ TypeInv /\ FoldInv /\ SizeInv /\ script \in Scripts /\ pc \in DOMAIN script.items
      /\ fold = <<>> /\ stream \in Streams /\ Item.op = "fold" /\ pc \in Nat
      /\ UNCHANGED <<script, stored, incoming>>
  BY DEF RunsInv, FoldStart, TypeInv, AtItem
<1>2. pc # 0 /\ PlaceInv /\ OnceInv
  BY <1>1, PcInRun DEF RunsInv
<1>3. /\ stream.prev \in Matrix /\ stream.cur \in Matrix /\ stream.new \in Matrix
      /\ Len(stream.prev) \in Nat /\ Len(stream.cur) \in Nat /\ Len(stream.new) \in Nat
  BY <1>1, StreamFacts
<1> DEFINE todo == Slices(stream, NoCursor)
<1>4. /\ todo \in Matrix /\ AllNonEmpty(todo) /\ NoDup(todo)
      /\ InMatrix(todo) \subseteq InStream(stream)
  <2>1. NoCursor \in Cursors
    BY DEF NoCursor, Cursors
  <2>2. QED
    BY <1>1, <1>2, <2>1, SlicesFacts DEF OnceInv
<1> HIDE DEF todo
<1>5. CASE todo = <<>>
  <2>1. stream' = stream /\ pc' = pc + 1 /\ fold' = <<>>
    BY <1>5 DEF FoldStart, AfterFoldStart, todo
  <2>2. Written \subseteq Written'
    BY <1>1, <2>1, WrittenGrows
  <2>3. PlaceInv' /\ OnceInv'
    BY <1>1, <1>2, <2>1, <2>2 DEF PlaceInv, OnceInv
  <2>4. TypeInv' /\ FoldInv' /\ SizeInv'
    BY <1>1, <2>1 DEF TypeInv, FoldInv, SizeInv
  <2>5. QED
    BY <1>1, <2>3, <2>4, StoredKept DEF RunsInv
<1>6. CASE todo # <<>>
  <2> DEFINE n == AddNewEmptyGeneration(stream.new)
             g == [id |-> Item.id, cursor |-> CursorOf(stream), todo |-> todo, seen |-> <<>>]
  <2>1. stream' = [stream EXCEPT !.new = n] /\ pc' = pc /\ fold' = <<g>>
    BY <1>6 DEF FoldStart, AfterFoldStart, todo
  <2>2. n \in Matrix /\ Len(n) = Len(stream.new) + 1 /\ SameCells(stream.new, n)
    BY <1>3, EmptyGenerations
  <2> HIDE DEF n
  <2>3. /\ stream' \in Streams /\ SizeInv' /\ PlaceInv'
        /\ stream'.prev = stream.prev /\ stream'.cur = stream.cur /\ stream'.new = n
        /\ NoDup(stream'.prev) /\ NoDup(stream'.cur) /\ NoDup(stream'.new)
        /\ InStream(stream') = InStream(stream)
    BY <1>1, <1>2, <2>1, <2>2, NewGenerationStep
  <2>4. /\ g.id = Item.id /\ g.cursor = CursorOf(stream) /\ g.todo = todo /\ g.seen = <<>>
        /\ CursorOf(stream) \in Cursors
        /\ CursorOf(stream).prev = Len(stream.prev) /\ CursorOf(stream).cur = Len(stream.cur)
        /\ CursorOf(stream).new = Len(stream.new)
    BY <1>3 DEF CursorOf, Cursors
  <2>5. g \in Frames
    <3>1. Item.id \in Nat
      BY <1>1, ItemFacts DEF Item
    <3>2. CursorOf(stream) \in Cursors /\ <<>> \in Seq(Values)
      BY <2>4
    <3>3. QED
      BY <1>4, <3>1, <3>2 DEF Frames
  <2> HIDE DEF g
  <2>6. Frame' = g /\ fold' # <<>> /\ fold' = <<Frame'>>
    BY <2>1 DEF Frame
  <2>7. TypeInv'
    BY <1>1, <2>1, <2>3, <2>5, <2>6 DEF TypeInv
  <2>8. Seen(g) = {} /\ DOMAIN g.seen = {}
    BY <2>4 DEF Seen
  <2>9. InMatrix(g.todo) \subseteq Behind(stream', g.cursor)
    <3>1. /\ Upto(stream.prev, Len(stream.prev)) = InMatrix(stream.prev)
          /\ Upto(stream.cur, Len(stream.cur)) = InMatrix(stream.cur)
          /\ Upto(stream.new, Len(stream.new)) = InMatrix(stream.new)
      BY <1>3, UptoAll
    <3>2. Upto(n, Len(stream.new)) = Upto(stream.new, Len(stream.new))
      BY <2>2, SameCellsFacts
    <3>3. QED
      BY <1>4, <2>3, <2>4, <3>1, <3>2 DEF Behind, InStream
  <2>10. pc' \in DOMAIN script'.items /\ Item'.op = "fold" /\ Item'.id = g.id
    BY <1>1, <2>1, <2>4 DEF Item
  <2>11. FoldInv'
    <3>1. \A k \in DOMAIN g.todo : g.todo[k] # <<>>
      BY <1>4, <2>4 DEF AllNonEmpty
    <3>2. /\ g.cursor.prev <= Len(stream'.prev) /\ g.cursor.cur <= Len(stream'.cur)
          /\ g.cursor.new + 1 = Len(stream'.new)
      BY <1>3, <2>2, <2>3, <2>4
    <3>3. QED
      BY <1>4, <2>4, <2>6, <2>8, <2>9, <2>10, <3>1, <3>2 DEF FoldInv
  <2>12. OnceInv'
    <3>1. Written \subseteq Written'
      BY <1>1, <2>1, WrittenGrows
    <3>2. QED
      BY <1>2, <2>3, <3>1 DEF OnceInv
  <2>13. QED
    BY <1>1, <2>3, <2>7, <2>11, <2>12, StoredKept DEF RunsInv
<1>7. QED
  BY <1>5, <1>6

LEMMA IterationEndStep == RunsInv /\ IterationEnd => RunsInv'
<1> SUFFICES ASSUME RunsInv, IterationEnd PROVE RunsInv'
  OBVIOUS
<1>1. /\ TypeInv /\ FoldInv /\ SizeInv /\ script \in Scripts /\ pc \in DOMAIN script.items
      /\ fold # <<>> /\ fold = <<Frame>> /\ Frame \in Frames /\ stream \in Streams
      /\ Item.op = "fold" /\ Item.id = Frame.id /\ pc \in Nat /\ Frame.todo = <<>>
      /\ UNCHANGED <<script, stored, incoming>>
  BY DEF RunsInv, IterationEnd, TypeInv, FoldInv
<1>2. pc # 0 /\ PlaceInv /\ OnceInv
  BY <1>1, PcInRun DEF RunsInv
<1>3. /\ stream.prev \in Matrix /\ stream.cur \in Matrix /\ stream.new \in Matrix
      /\ Len(stream.prev) \in Nat /\ Len(stream.cur) \in Nat /\ Len(stream.new) \in Nat
      /\ Frame.cursor \in Cursors
  BY <1>1, StreamFacts DEF Frames
<1> DEFINE todo == Slices(stream, Frame.cursor)
           r == RemoveLastIfEmpty(stream.new)
           n == AddNewEmptyGeneration(r)
           c == CursorAtIterationEnd(stream)
<1>4. /\ todo \in Matrix /\ AllNonEmpty(todo) /\ NoDup(todo)
      /\ InMatrix(todo) \subseteq InStream(stream)
      /\ InMatrix(todo) \cap Behind(stream, Frame.cursor) = {}
  BY <1>1, <1>2, <1>3, SlicesFacts DEF OnceInv
<1>5. r \in Matrix /\ SameCells(stream.new, r)
  BY <1>3, EmptyGenerations
<1>6. stream' = [stream EXCEPT !.new = n]
  BY DEF IterationEnd, AfterIterationEnd
<1>7. c = CursorOf([stream EXCEPT !.new = r])
  BY DEF CursorAtIterationEnd
<1>8. IF todo = <<>> THEN pc' = pc + 1 /\ fold' = <<>>
      ELSE fold' = <<[Frame EXCEPT !.cursor = c, !.todo = todo]>> /\ pc' = pc
  BY DEF IterationEnd
<1> HIDE DEF todo, r, c
<1>9. n \in Matrix /\ Len(n) = Len(r) + 1 /\ SameCells(r, n) /\ Len(r) \in Nat
  <2>1. Len(r) \in Nat
    BY <1>5 DEF Matrix
  <2>2. QED
    BY <1>5, <2>1, EmptyGenerations
<1> HIDE DEF n
<1>10. SameCells(stream.new, n)
  BY <1>5, <1>9 DEF SameCells
<1>11. /\ stream' \in Streams /\ SizeInv' /\ PlaceInv'
       /\ stream'.prev = stream.prev /\ stream'.cur = stream.cur /\ stream'.new = n
       /\ NoDup(stream'.prev) /\ NoDup(stream'.cur) /\ NoDup(stream'.new)
       /\ InStream(stream') = InStream(stream)
  BY <1>1, <1>2, <1>6, <1>9, <1>10, NewGenerationStep
<1>12. CASE todo = <<>>
  <2>1. pc' = pc + 1 /\ fold' = <<>>
    BY <1>8, <1>12
  <2>2. Written \subseteq Written'
    BY <1>1, <2>1, WrittenGrows
  <2>3. OnceInv'
    BY <1>2, <1>11, <2>2 DEF OnceInv
  <2>4. TypeInv' /\ FoldInv'
    BY <1>1, <1>11, <2>1 DEF TypeInv, FoldInv
  <2>5. QED
    BY <1>1, <1>11, <2>3, <2>4, StoredKept DEF RunsInv
<1>13. CASE todo # <<>>
  <2> DEFINE g == [Frame EXCEPT !.cursor = c, !.todo = todo]
  <2>1. fold' = <<g>> /\ pc' = pc
    BY <1>8, <1>13
  <2>2. /\ c.prev = Len(stream.prev) /\ c.cur = Len(stream.cur) /\ c.new = Len(r)
        /\ c \in Cursors
    <3>1. LET s == [stream EXCEPT !.new = r] IN
          s.prev = stream.prev /\ s.cur = stream.cur /\ s.new = r
      BY <1>1 DEF Streams
    <3>2. c = [prev |-> Len(stream.prev), cur |-> Len(stream.cur), new |-> Len(r)]
      BY <1>7, <3>1 DEF CursorOf
    <3>3. QED
      BY <1>3, <1>9, <3>2 DEF Cursors
  <2>3. g \in Frames /\ g.id = Frame.id /\ g.cursor = c /\ g.todo = todo /\ g.seen = Frame.seen
    <3>1. PICK f \in Frames : f = Frame
      BY <1>1
    <3>2. PICK d \in Cursors : d = c
      BY <2>2
    <3>3. PICK t \in Matrix : t = todo
      BY <1>4
    <3>4. g = [f EXCEPT !.cursor = d, !.todo = t]
      BY <3>1, <3>2, <3>3
    <3> HIDE DEF g
    <3>5. g \in Frames /\ g.id = f.id /\ g.cursor = d /\ g.todo = t /\ g.seen = f.seen
      BY <3>4 DEF Frames
    <3>6. QED
      BY <3>1, <3>2, <3>3, <3>5, Zenon
  <2> HIDE DEF g
  <2>4. Frame' = g /\ fold' # <<>> /\ fold' = <<Frame'>>
    BY <2>1 DEF Frame
  <2>5. TypeInv'
    BY <1>1, <1>11, <2>1, <2>3, <2>4 DEF TypeInv
  <2>6. Seen(g) = Seen(Frame)
    BY <2>3 DEF Seen
  <2>7. Behind(stream', c) = InStream(stream)
    <3>1. /\ Upto(stream.prev, Len(stream.prev)) = InMatrix(stream.prev)
          /\ Upto(stream.cur, Len(stream.cur)) = InMatrix(stream.cur)
          /\ Upto(r, Len(r)) = InMatrix(r)
      BY <1>3, <1>5, UptoAll
    <3>2. Upto(n, Len(r)) = Upto(r, Len(r))
      BY <1>9, SameCellsFacts
    <3>3. InMatrix(r) = InMatrix(stream.new)
      BY <1>5, SameCellsFacts
    <3>4. QED
      BY <1>11, <2>2, <3>1, <3>2, <3>3 DEF Behind, InStream
  <2>8. Seen(Frame) \subseteq Behind(stream, Frame.cursor)
    BY <1>1 DEF FoldInv
  <2>9. Seen(g) \cap InMatrix(g.todo) = {}
    BY <1>4, <2>3, <2>6, <2>8
  <2>10. Seen(g) \cup InMatrix(g.todo) \subseteq Behind(stream', g.cursor)
    <3>1. Behind(stream, Frame.cursor) \subseteq InStream(stream)
      BY DEF Behind, Upto, InStream
    <3>2. QED
      BY <1>4, <2>3, <2>6, <2>7, <2>8, <3>1
  <2>11. pc' \in DOMAIN script'.items /\ Item'.op = "fold" /\ Item'.id = g.id
    BY <1>1, <2>1, <2>3 DEF Item
  <2>12. FoldInv'
    <3>1. \A k \in DOMAIN g.todo : g.todo[k] # <<>>
      BY <1>4, <2>3 DEF AllNonEmpty
    <3>2. /\ g.cursor.prev <= Len(stream'.prev) /\ g.cursor.cur <= Len(stream'.cur)
          /\ g.cursor.new + 1 = Len(stream'.new)
      BY <1>3, <1>9, <1>11, <2>2, <2>3
    <3>3. \A k, l \in DOMAIN g.seen : g.seen[k] = g.seen[l] => k = l
      BY <1>1, <2>3 DEF FoldInv
    <3>4. QED
      BY <1>4, <2>3, <2>4, <2>9, <2>10, <2>11, <3>1, <3>2, <3>3 DEF FoldInv
  <2>13. OnceInv'
    <3>1. Written \subseteq Written'
      BY <1>1, <2>1, <2>3, <2>4, <2>6, WrittenGrows
    <3>2. QED
      BY <1>2, <1>11, <3>1 DEF OnceInv
  <2>14. QED
    BY <1>1, <1>11, <2>5, <2>12, <2>13, StoredKept DEF RunsInv
<1>14. QED
  BY <1>12, <1>13

-----------------------------------------------------------------------------
(* The generations that are stored.                                        *)

\* A matrix has at most as many values as cells.
LEMMA ValuesFit ==
  ASSUME NEW m, IsFiniteSet(Cells(m))
  PROVE  /\ IsFiniteSet(InMatrix(m)) /\ Cardinality(InMatrix(m)) \in Nat
         /\ SizeOf(m) \in Nat /\ Cardinality(InMatrix(m)) <= SizeOf(m)
<1> DEFINE f == [c \in Cells(m) |-> m[c[1]][c[2]]]
<1>1. \A c : c \in Cells(m) <=> \E i \in DOMAIN m : \E j \in DOMAIN m[i] : c = <<i, j>>
  BY DEF Cells
<1>2. \A c \in Cells(m) : f[c] \in InMatrix(m)
  BY <1>1 DEF InMatrix
<1>3. ASSUME NEW x \in InMatrix(m) PROVE \E c \in Cells(m) : f[c] = x
  <2>1. PICK i \in DOMAIN m : \E j \in DOMAIN m[i] : m[i][j] = x
    BY DEF InMatrix
  <2>2. PICK j \in DOMAIN m[i] : m[i][j] = x
    BY <2>1
  <2>3. <<i, j>> \in Cells(m)
    BY <1>1
  <2>4. f[<<i, j>>] = x
    BY <2>2, <2>3
  <2>5. QED
    BY <2>3, <2>4
<1>4. f \in [Cells(m) -> InMatrix(m)]
  BY <1>2
<1> HIDE DEF f
<1>5. f \in Surjection(Cells(m), InMatrix(m))
  BY <1>3, <1>4 DEF Surjection
<1>6. IsFiniteSet(InMatrix(m)) /\ Cardinality(InMatrix(m)) <= Cardinality(Cells(m))
  BY <1>5, FS_Surjection
<1>7. Cardinality(InMatrix(m)) \in Nat /\ Cardinality(Cells(m)) \in Nat
  BY <1>6, FS_CardinalityType
<1>8. SizeOf(m) = Cardinality(Cells(m))
  BY DEF SizeOf, Cells
<1>9. QED
  BY <1>6, <1>7, <1>8

LEMMA UnionFits ==
  ASSUME NEW S, NEW T, IsFiniteSet(S), IsFiniteSet(T)
  PROVE  /\ IsFiniteSet(S \cup T) /\ Cardinality(S \cup T) \in Nat
         /\ Cardinality(S \cup T) <= Cardinality(S) + Cardinality(T)
<1>1. /\ IsFiniteSet(S \cup T)
      /\ Cardinality(S \cup T) = Cardinality(S) + Cardinality(T) - Cardinality(S \cap T)
  BY FS_Union
<1>2. IsFiniteSet(S \cap T)
  BY FS_Subset
<1>3. /\ Cardinality(S) \in Nat /\ Cardinality(T) \in Nat /\ Cardinality(S \cap T) \in Nat
      /\ Cardinality(S \cup T) \in Nat
  BY <1>1, <1>2, FS_CardinalityType
<1>4. QED
  BY <1>1, <1>3

\* A stream within the limit has fewer than STREAM_MAX_SIZE values.
LEMMA StreamFits ==
  ASSUME SizeInv
  PROVE  Cardinality(InStream(stream)) < StreamMaxSize
<1> DEFINE p == InMatrix(stream.prev)
           q == InMatrix(stream.cur)
           r == InMatrix(stream.new)
<1>1. /\ IsFiniteSet(p) /\ Cardinality(p) \in Nat /\ SizeOf(stream.prev) \in Nat
      /\ Cardinality(p) <= SizeOf(stream.prev)
  BY ValuesFit DEF SizeInv
<1>2. /\ IsFiniteSet(q) /\ Cardinality(q) \in Nat /\ SizeOf(stream.cur) \in Nat
      /\ Cardinality(q) <= SizeOf(stream.cur)
  BY ValuesFit DEF SizeInv
<1>3. /\ IsFiniteSet(r) /\ Cardinality(r) \in Nat /\ SizeOf(stream.new) \in Nat
      /\ Cardinality(r) <= SizeOf(stream.new)
  BY ValuesFit DEF SizeInv
<1>4. InStream(stream) = p \cup q \cup r
  BY DEF InStream
<1> HIDE DEF p, q, r
<1>5. /\ IsFiniteSet(p \cup q) /\ Cardinality(p \cup q) \in Nat
      /\ Cardinality(p \cup q) <= Cardinality(p) + Cardinality(q)
  BY <1>1, <1>2, UnionFits
<1>6. /\ Cardinality(p \cup q \cup r) \in Nat
      /\ Cardinality(p \cup q \cup r) <= Cardinality(p \cup q) + Cardinality(r)
  BY <1>3, <1>5, UnionFits
<1>7. SizeOf(stream.prev) + SizeOf(stream.cur) + SizeOf(stream.new) < StreamMaxSize
  BY DEF SizeInv, StreamSize
<1>8. Cardinality(p \cup q \cup r) < StreamMaxSize
  BY <1>1, <1>2, <1>3, <1>5, <1>6, <1>7, StreamMaxSizeAssumption
<1>9. QED
  BY <1>4, <1>8

\* remove_empty_generations keeps the values.
LEMMA NonEmptyFacts ==
  ASSUME NEW m \in Matrix, NoDup(m)
  PROVE  LET t == NonEmpty(m) IN
         /\ t \in Matrix /\ AllNonEmpty(t) /\ NoDup(t)
         /\ InMatrix(t) = InMatrix(m)
<1> DEFINE t == NonEmpty(m)
           L == Len(t)
<1>1. t \in Matrix /\ L \in Nat /\ DOMAIN m = 1 .. Len(m) /\ DOMAIN t = 1 .. L
  BY NonEmptyEnumerated DEF Matrix
<1>2. PICK e : Enumerates(e, m)
  BY NonEmptyEnumerated
<1>3. /\ e \in [1 .. L -> DOMAIN m]
      /\ \A n, k \in 1 .. L : n < k => e[n] < e[k]
      /\ \A n \in 1 .. L : t[n] = m[e[n]] /\ m[e[n]] # <<>>
      /\ \A i \in DOMAIN m : m[i] # <<>> => \E n \in 1 .. L : e[n] = i
  BY <1>2 DEF Enumerates
<1> HIDE DEF t, L
<1>4. AllNonEmpty(t)
  BY <1>1, <1>3 DEF AllNonEmpty
<1>5. ASSUME NEW n, NEW j, NEW x, Cell(t, n, j, x)
      PROVE  n \in 1 .. L /\ Cell(m, e[n], j, x)
  BY <1>1, <1>3, <1>5 DEF Cell
<1>6. NoDup(t)
  <2>1. SUFFICES ASSUME NEW n, NEW k, NEW j, NEW l, NEW x, Cell(t, n, j, x), Cell(t, k, l, x)
                 PROVE  n = k /\ j = l
    BY NoDupCells
  <2>2. n \in 1 .. L /\ k \in 1 .. L /\ Cell(m, e[n], j, x) /\ Cell(m, e[k], l, x)
    BY <1>5, <2>1
  <2>3. e[n] = e[k] /\ j = l
    BY <2>2, NoDupCells
  <2>4. e[n] \in Nat /\ e[k] \in Nat
    BY <1>1, <1>3, <2>2
  <2>5. ~(n < k) /\ ~(k < n)
    BY <1>3, <2>2, <2>3, <2>4
  <2>6. QED
    BY <1>1, <2>2, <2>3, <2>5
<1>7. ASSUME NEW x \in InMatrix(m) PROVE x \in InMatrix(t)
  <2>1. PICK i \in DOMAIN m : \E j \in DOMAIN m[i] : m[i][j] = x
    BY DEF InMatrix
  <2>2. m[i] # <<>>
    BY <2>1
  <2>3. PICK n \in 1 .. L : e[n] = i
    BY <1>3, <2>2
  <2>4. t[n] = m[i] /\ n \in DOMAIN t
    BY <1>1, <1>3, <2>3
  <2>5. QED
    BY <2>1, <2>4 DEF InMatrix
<1>8. ASSUME NEW x \in InMatrix(t) PROVE x \in InMatrix(m)
  BY <1>5, InMatrixCell
<1>9. InMatrix(t) = InMatrix(m)
  BY <1>7, <1>8
<1>10. QED
  BY <1>1, <1>4, <1>6, <1>9 DEF t

\* compactify: every value of the stream is in one of the generations, and no
\* generation is empty.
LEMMA CompactifiedFacts ==
  ASSUME stream \in Streams, PlaceInv,
         NoDup(stream.prev), NoDup(stream.cur), NoDup(stream.new)
  PROVE  LET all == Compactified(stream) IN
         /\ all \in Matrix /\ AllNonEmpty(all) /\ NoDup(all)
         /\ InMatrix(all) = InStream(stream)
         /\ \A n \in 1 .. Len(NonEmpty(stream.prev)) :
              n \in DOMAIN all /\ all[n] = NonEmpty(stream.prev)[n]
<1> DEFINE p == NonEmpty(stream.prev)
           q == NonEmpty(stream.cur)
           r == NonEmpty(stream.new)
<1>1. stream.prev \in Matrix /\ stream.cur \in Matrix /\ stream.new \in Matrix
  BY StreamFacts
<1>2. p \in Matrix /\ AllNonEmpty(p) /\ NoDup(p) /\ InMatrix(p) = InMatrix(stream.prev)
  BY <1>1, NonEmptyFacts
<1>3. q \in Matrix /\ AllNonEmpty(q) /\ NoDup(q) /\ InMatrix(q) = InMatrix(stream.cur)
  BY <1>1, NonEmptyFacts
<1>4. r \in Matrix /\ AllNonEmpty(r) /\ NoDup(r) /\ InMatrix(r) = InMatrix(stream.new)
  BY <1>1, NonEmptyFacts
<1> HIDE DEF p, q, r
<1>5. /\ InMatrix(p) \cap InMatrix(q) = {}
      /\ (InMatrix(p) \cup InMatrix(q)) \cap InMatrix(r) = {}
  BY <1>2, <1>3, <1>4, PlacesDisjoint
<1>6. /\ p \o q \in Matrix /\ AllNonEmpty(p \o q) /\ NoDup(p \o q)
      /\ InMatrix(p \o q) = InMatrix(p) \cup InMatrix(q)
      /\ Len(p \o q) = Len(p) + Len(q) /\ Len(p) \in Nat /\ Len(q) \in Nat
      /\ \A n \in 1 .. Len(p) : (p \o q)[n] = p[n]
  BY <1>2, <1>3, <1>5, ConcatCells
<1> DEFINE pq == p \o q
           all == pq \o r
<1> HIDE DEF pq
<1>7. /\ all \in Matrix /\ AllNonEmpty(all) /\ NoDup(all)
      /\ InMatrix(all) = InMatrix(pq) \cup InMatrix(r)
      /\ Len(all) = Len(pq) + Len(r) /\ Len(r) \in Nat
      /\ \A n \in 1 .. Len(pq) : all[n] = pq[n]
  BY <1>4, <1>5, <1>6, ConcatCells DEF pq
<1>8. Compactified(stream) = all
  BY DEF Compactified, p, q, r, pq
<1> HIDE DEF all
<1>9. InMatrix(all) = InStream(stream)
  BY <1>2, <1>3, <1>4, <1>6, <1>7 DEF InStream, pq
<1>10. ASSUME NEW n \in 1 .. Len(p) PROVE n \in DOMAIN all /\ all[n] = p[n]
  <2>1. n \in 1 .. Len(pq) /\ pq[n] = p[n] /\ n \in 1 .. Len(all)
    BY <1>6, <1>7 DEF pq
  <2>2. DOMAIN all = 1 .. Len(all)
    BY <1>7 DEF Matrix
  <2>3. QED
    BY <1>7, <2>1, <2>2
<1>11. QED
  BY <1>7, <1>8, <1>9, <1>10 DEF p

\* update_generations: every value gets the generation it is in.
LEMMA GenerationsFacts ==
  ASSUME stream \in Streams, PlaceInv,
         NoDup(stream.prev), NoDup(stream.cur), NoDup(stream.new)
  PROVE  LET G == Generations(stream)
             all == Compactified(stream) IN
         /\ DOMAIN G = InStream(stream)
         /\ \A x \in InStream(stream) : G[x] \in 0 .. Len(all) - 1
         /\ \A i, j, x : Cell(all, i, j, x) => i \in Nat /\ G[x] = i - 1
<1> DEFINE all == Compactified(stream)
           G == Generations(stream)
           In(n, x) == \E j \in DOMAIN all[n + 1] : all[n + 1][j] = x
<1>1. all \in Matrix /\ NoDup(all) /\ InMatrix(all) = InStream(stream)
  BY CompactifiedFacts
<1>2. G = [x \in InStream(stream) |-> CHOOSE n \in 0 .. Len(all) - 1 : In(n, x)]
  BY DEF Generations
<1> HIDE DEF all, G
<1>3. Len(all) \in Nat /\ DOMAIN all = 1 .. Len(all)
  BY <1>1 DEF Matrix
<1>4. ASSUME NEW i, NEW j, NEW x, Cell(all, i, j, x)
      PROVE  /\ i \in Nat /\ i - 1 \in 0 .. Len(all) - 1 /\ In(i - 1, x)
             /\ \A n \in 0 .. Len(all) - 1 : In(n, x) => n = i - 1
  <2>1. i \in 1 .. Len(all) /\ j \in DOMAIN all[i] /\ all[i][j] = x
    BY <1>3, <1>4 DEF Cell
  <2>2. i \in Nat /\ i - 1 \in 0 .. Len(all) - 1 /\ i - 1 + 1 = i
    BY <1>3, <2>1
  <2>3. In(i - 1, x)
    BY <2>1, <2>2
  <2>4. ASSUME NEW n \in 0 .. Len(all) - 1, In(n, x) PROVE n = i - 1
    <3>1. n + 1 \in DOMAIN all /\ n \in Nat
      BY <1>3
    <3>2. PICK l : Cell(all, n + 1, l, x)
      BY <2>4, <3>1 DEF Cell
    <3>3. n + 1 = i
      BY <1>1, <1>4, <3>2, NoDupCells
    <3>4. QED
      BY <2>2, <3>1, <3>3
  <2>5. QED
    BY <2>2, <2>3, <2>4
<1> HIDE DEF In
<1>5. ASSUME NEW i, NEW j, NEW x, Cell(all, i, j, x)
      PROVE  i \in Nat /\ G[x] = i - 1 /\ G[x] \in 0 .. Len(all) - 1
  <2>1. x \in InStream(stream)
    BY <1>1, <1>5, InMatrixCell
  <2>2. G[x] = CHOOSE n \in 0 .. Len(all) - 1 : In(n, x)
    BY <1>2, <2>1
  <2>3. G[x] \in 0 .. Len(all) - 1 /\ In(G[x], x)
    BY <1>4, <1>5, <2>2
  <2>4. QED
    BY <1>4, <1>5, <2>3
<1>6. \A x \in InStream(stream) : G[x] \in 0 .. Len(all) - 1
  BY <1>1, <1>5, InMatrixCell
<1>7. DOMAIN G = InStream(stream)
  BY <1>2
<1>8. QED
  BY <1>5, <1>6, <1>7 DEF G, all

LEMMA EndRunStep == RunsInv /\ EndRun => RunsInv'
<1> SUFFICES ASSUME RunsInv, EndRun PROVE RunsInv'
  OBVIOUS
<1>1. /\ TypeInv /\ SizeInv /\ script \in Scripts /\ stream \in Streams
      /\ pc = Len(script.items) + 1 /\ stored' = Generations(stream) /\ pc' = 0
      /\ script' = script /\ incoming' = incoming /\ stream' = stream /\ fold' = fold
  BY DEF RunsInv, TypeInv, EndRun
<1>2. pc # 0 /\ pc \notin DOMAIN script.items
  <2>1. script.items \in Seq(Items)
    BY <1>1, ScriptAssumption
  <2>2. QED
    BY <1>1, <2>1
<1>3. fold = <<>>
  BY <1>2, NoFoldBetweenRuns
<1>4. PlaceInv /\ NoDup(stream.prev) /\ NoDup(stream.cur) /\ NoDup(stream.new)
  BY <1>2 DEF RunsInv, OnceInv
<1> DEFINE G == Generations(stream)
           all == Compactified(stream)
           gens == {G[x] : x \in DOMAIN G}
<1>5. /\ all \in Matrix /\ AllNonEmpty(all) /\ InMatrix(all) = InStream(stream)
      /\ Len(all) \in Nat /\ DOMAIN all = 1 .. Len(all)
  BY <1>1, <1>4, CompactifiedFacts DEF Matrix
<1>6. /\ DOMAIN G = InStream(stream)
      /\ \A x \in InStream(stream) : G[x] \in 0 .. Len(all) - 1
      /\ \A i, j, x : Cell(all, i, j, x) => i \in Nat /\ G[x] = i - 1
  BY <1>1, <1>4, GenerationsFacts
<1> HIDE DEF G, all
<1>7. TypeInv' /\ SizeInv' /\ FoldInv'
  <2>1. \A x \in DOMAIN G : G[x] \in Nat
    BY <1>5, <1>6
  <2>2. QED
    BY <1>1, <1>3, <2>1 DEF TypeInv, SizeInv, FoldInv, G
<1>8. gens = 0 .. Len(all) - 1
  <2>1. ASSUME NEW n \in 0 .. Len(all) - 1 PROVE n \in gens
    <3>1. n + 1 \in DOMAIN all /\ n \in Nat /\ n + 1 - 1 = n
      BY <1>5
    <3>2. all[n + 1] \in Seq(Values) /\ all[n + 1] # <<>>
      <4>1. \A i \in DOMAIN all : all[i] \in Seq(Values) /\ all[i] # <<>>
        BY <1>5 DEF Matrix, AllNonEmpty
      <4>2. QED
        BY <3>1, <4>1, Zenon
    <3>3. 1 \in DOMAIN all[n + 1]
      <4>1. Len(all[n + 1]) \in Nat /\ Len(all[n + 1]) # 0
        BY <3>2, EmptySeq
      <4>2. QED
        BY <3>2, <4>1
    <3>4. PICK x : Cell(all, n + 1, 1, x)
      BY <3>1, <3>3 DEF Cell
    <3>5. x \in InStream(stream) /\ G[x] = n
      BY <1>5, <1>6, <3>1, <3>4, InMatrixCell
    <3>6. QED
      BY <1>6, <3>5
  <2>2. gens \subseteq 0 .. Len(all) - 1
    BY <1>6
  <2>3. QED
    BY <2>1, <2>2
<1>9. StoredGenerationsDense'
  <2> HIDE DEF gens
  <2>1. Cardinality(0 .. Len(all) - 1) = Len(all)
    <3>1. Cardinality(0 .. Len(all) - 1) = IF 0 > Len(all) - 1 THEN 0 ELSE Len(all) - 1 - 0 + 1
      BY <1>5, FS_Interval
    <3>2. QED
      BY <1>5, <3>1
  <2>2. gens = 0 .. Cardinality(gens) - 1
    BY <1>8, <2>1
  <2>3. QED
    BY <1>1, <2>2 DEF StoredGenerationsDense, gens, G
<1>10. StoredDataReplays'
  BY <1>1, <1>6, StreamFits DEF StoredDataReplays, G
<1>11. QED
  BY <1>1, <1>7, <1>9, <1>10 DEF RunsInv

LEMMA NextRuns == RunsInv /\ [Next]_vars => RunsInv'
<1>1. SUFFICES ASSUME RunsInv, [Next]_vars PROVE RunsInv'
  OBVIOUS
<1>2. CASE UNCHANGED vars
  <2>1. TypeInv' /\ SizeInv' /\ FoldInv'
    BY <1>1, <1>2 DEF vars, RunsInv, TypeInv, SizeInv, FoldInv, Frame, Item
  <2>2. pc # 0 => PlaceInv' /\ OnceInv'
    BY <1>1, <1>2 DEF vars, RunsInv, PlaceInv, OnceInv, Written, Writes, IsChild, Frame
  <2>3. QED
    BY <1>1, <1>2, <2>1, <2>2, StoredKept DEF vars, RunsInv
<1>3. QED
  BY <1>1, <1>2, StartRunStep, ExecWriteStep, FoldStartStep, IterationStep,
     IterationEndStep, EndRunStep DEF Next

\* Over all runs, with whatever current data: the streams are within the limit,
\* no value is in a stream twice, and each is in the generation that the data
\* have it in (Stream::add_value, RecursiveStreamCursor, Stream::compactify).
THEOREM RunsInvariant == Spec => []RunsInv
  BY InitRuns, NextRuns, PTL DEF Spec

\* Stream::compactify leaves no gap between the stored generations, for all
\* scripts and all generations that current data come with.
THEOREM StoredDense == Spec => []StoredGenerationsDense
<1>1. RunsInv => StoredGenerationsDense
  BY DEF RunsInv
<1>2. QED
  BY <1>1, RunsInvariant, PTL

\* No run stores a stream that check_stream_size_limit refuses in the next one.
THEOREM DataReplays == Spec => []StoredDataReplays
<1>1. RunsInv => StoredDataReplays
  BY DEF RunsInv
<1>2. QED
  BY <1>1, RunsInvariant, PTL

\* A fold is run with no value twice, however the stream grows while it is
\* folded.
FoldedOnce ==
  fold # <<>> => /\ \A n, k \in DOMAIN Frame.seen : Frame.seen[n] = Frame.seen[k] => n = k
                 /\ Seen(Frame) \cap InMatrix(Frame.todo) = {}

\* What RecursiveStreamCursor hands to a fold is new in every round.
THEOREM FoldNeverRepeats == Spec => []FoldedOnce
<1>1. RunsInv => FoldedOnce
  BY DEF RunsInv, FoldInv, FoldedOnce
<1>2. QED
  BY <1>1, RunsInvariant, PTL

\* The stored values of this run: the generation they get is the rank, among
\* the generations that are kept, of the one they have.
LEMMA StoredRank ==
  ASSUME stream \in Streams, PlaceInv,
         NoDup(stream.prev), NoDup(stream.cur), NoDup(stream.new)
  PROVE  \E L \in Nat : \E e \in [1 .. L -> Nat] :
           /\ \A n, k \in 1 .. L : n < k => e[n] < e[k]
           /\ \A x \in InStream(stream) \cap DOMAIN stored :
                \E n \in 1 .. L : Generations(stream)[x] = n - 1 /\ stored[x] = e[n] - 1
<1> DEFINE p == NonEmpty(stream.prev)
           L == Len(p)
           all == Compactified(stream)
           G == Generations(stream)
<1>1. stream.prev \in Matrix
  BY StreamFacts
<1>2. p \in Matrix /\ L \in Nat /\ DOMAIN stream.prev = 1 .. Len(stream.prev)
  BY <1>1, NonEmptyEnumerated DEF Matrix
<1>3. PICK e : Enumerates(e, stream.prev)
  BY <1>1, NonEmptyEnumerated
<1>4. /\ e \in [1 .. L -> DOMAIN stream.prev]
      /\ \A n, k \in 1 .. L : n < k => e[n] < e[k]
      /\ \A n \in 1 .. L : p[n] = stream.prev[e[n]]
      /\ \A i \in DOMAIN stream.prev : stream.prev[i] # <<>> => \E n \in 1 .. L : e[n] = i
  BY <1>3 DEF Enumerates
<1>5. e \in [1 .. L -> Nat]
  BY <1>2, <1>4
<1>6. \A n \in 1 .. L : n \in DOMAIN all /\ all[n] = p[n]
  BY CompactifiedFacts
<1>7. \A i, j, x : Cell(all, i, j, x) => G[x] = i - 1
  BY GenerationsFacts
<1> HIDE DEF p, L, all, G
<1>8. ASSUME NEW x \in InStream(stream) \cap DOMAIN stored
      PROVE  \E n \in 1 .. L : G[x] = n - 1 /\ stored[x] = e[n] - 1
  <2>1. x \in InMatrix(stream.prev)
    BY DEF InStream, InMatrix, PlaceInv
  <2>2. PICK i \in DOMAIN stream.prev : \E j \in DOMAIN stream.prev[i] : stream.prev[i][j] = x
    BY <2>1 DEF InMatrix
  <2>3. PICK j \in DOMAIN stream.prev[i] : stream.prev[i][j] = x
    BY <2>2
  <2>4. stored[x] = i - 1 /\ stream.prev[i] # <<>>
    BY <2>3 DEF PlaceInv
  <2>5. PICK n \in 1 .. L : e[n] = i
    BY <1>4, <2>4
  <2>6. Cell(all, n, j, x)
    BY <1>4, <1>6, <2>3, <2>5 DEF Cell
  <2>7. QED
    BY <1>7, <2>4, <2>5, <2>6
<1>9. QED
  BY <1>2, <1>4, <1>5, <1>8 DEF G

\* The order that a peer has stored is kept by all its later runs, whatever the
\* current data say of the same values (Generation::from_data: the previous data
\* come first).
THEOREM OrderKept == Spec => LocalOrderKept
<1> DEFINE Kept == \A u, v \in DOMAIN stored \cap DOMAIN stored' :
                     /\ stored[u] < stored[v] => stored'[u] < stored'[v]
                     /\ stored[u] = stored[v] => stored'[u] = stored'[v]
<1>1. ASSUME RunsInv, [Next]_vars PROVE Kept
  <2>1. CASE stored' = stored
    BY <2>1
  <2>2. CASE EndRun
    <3>1. stored' = Generations(stream) /\ pc = Len(script.items) + 1
      BY <2>2 DEF EndRun
    <3>2. pc # 0
      <4>1. script.items \in Seq(Items)
        BY <1>1, ScriptAssumption DEF RunsInv, TypeInv
      <4>2. QED
        BY <3>1, <4>1
    <3>3. /\ stream \in Streams /\ PlaceInv
          /\ NoDup(stream.prev) /\ NoDup(stream.cur) /\ NoDup(stream.new)
      BY <1>1, <3>2 DEF RunsInv, TypeInv, OnceInv
    <3>4. DOMAIN stored' = InStream(stream)
      BY <3>1, <3>3, GenerationsFacts
    <3>5. PICK L \in Nat : \E e \in [1 .. L -> Nat] :
            /\ \A n, k \in 1 .. L : n < k => e[n] < e[k]
            /\ \A x \in InStream(stream) \cap DOMAIN stored :
                 \E n \in 1 .. L : stored'[x] = n - 1 /\ stored[x] = e[n] - 1
      BY <3>1, <3>3, StoredRank
    <3>6. PICK e \in [1 .. L -> Nat] :
            /\ \A n, k \in 1 .. L : n < k => e[n] < e[k]
            /\ \A x \in InStream(stream) \cap DOMAIN stored :
                 \E n \in 1 .. L : stored'[x] = n - 1 /\ stored[x] = e[n] - 1
      BY <3>5
    <3>7. SUFFICES ASSUME NEW u \in DOMAIN stored \cap DOMAIN stored',
                          NEW v \in DOMAIN stored \cap DOMAIN stored'
                   PROVE  /\ stored[u] < stored[v] => stored'[u] < stored'[v]
                          /\ stored[u] = stored[v] => stored'[u] = stored'[v]
      OBVIOUS
    <3>8. PICK n \in 1 .. L : stored'[u] = n - 1 /\ stored[u] = e[n] - 1
      BY <3>4, <3>6, <3>7
    <3>9. PICK k \in 1 .. L : stored'[v] = k - 1 /\ stored[v] = e[k] - 1
      BY <3>4, <3>6, <3>7
    <3>10. e[n] \in Nat /\ e[k] \in Nat /\ n \in Nat /\ k \in Nat
      BY <3>5, <3>6
    <3>11. (n < k => e[n] < e[k]) /\ (k < n => e[k] < e[n]) /\ (n = k => e[n] = e[k])
      BY <3>6
    <3>12. QED
      BY <3>8, <3>9, <3>10, <3>11
  <2>3. QED
    BY <1>1, <2>1, <2>2 DEF Next, vars, StartRun, ExecWrite, FoldStart, Iteration,
       IterationEnd, Write, Wait, AbortRun
<1>2. QED
  BY <1>1, RunsInvariant, PTL DEF Spec, LocalOrderKept

-----------------------------------------------------------------------------
(* What a fold sees, and what a run stores again.                          *)

\* The first n generations have values.
Filled(m, n) == \A i \in 1 .. n : i \in DOMAIN m /\ DOMAIN m[i] # {}

NoFoldBefore == \A i \in DOMAIN script.items : i < pc => script.items[i].op # "fold"

\* The folds of which FoldVisitsAll is proved: those that only read the stream, and,
\* as the first fold of a run, one that writes what neither data has yet.
FoldsFresh ==
  fold # <<>> =>
    \/ DOMAIN script.child[Frame.id] = {}
    \/ /\ NoFoldBefore
       /\ \A w \in DOMAIN script.child[Frame.id] : ~Known(script.child[Frame.id][w])

\* Of everything behind the cursor the fold was or will be run with; what is not behind
\* it are new values in the last generation, and slice_iter will not skip them: as
\* many generations are filled as the cursor counts.
VisitInv ==
  /\ pc # 0 /\ fold = <<>> /\ NoFoldBefore => Filled(stream.new, Len(stream.new))
  /\ fold # <<>> =>
       /\ Seen(Frame) \cup InMatrix(Frame.todo) = Behind(stream, Frame.cursor)
       /\ Upto(stream.prev, Frame.cursor.prev) = InMatrix(stream.prev)
       /\ Upto(stream.cur, Frame.cursor.cur) = InMatrix(stream.cur)
       /\ IF DOMAIN script.child[Frame.id] = {}
          THEN Upto(stream.new, Frame.cursor.new) = InMatrix(stream.new)
          ELSE Filled(stream.new, Frame.cursor.new)

\* A stored value whose write is behind is in the stream again.
RewrittenInv ==
  pc # 0 => \A i \in DOMAIN script.items :
    i < pc /\ script.items[i].op = "write" /\ script.items[i].v \in DOMAIN stored
      => script.items[i].v \in InStream(stream)

\* Filled in terms of cells.
LEMMA FilledCells ==
  ASSUME NEW m, NEW n
  PROVE  Filled(m, n) <=> \A i \in 1 .. n : \E j, x : Cell(m, i, j, x)
<1>1. \A i : (i \in DOMAIN m /\ DOMAIN m[i] # {}) <=> \E j, x : Cell(m, i, j, x)
  BY DEF Cell
<1>2. QED
  BY <1>1 DEF Filled

\* slice_iter skips non-empty generations: if all that it may skip are filled, it
\* leaves none of the others out.
LEMMA SliceIterMisses ==
  ASSUME NEW m \in Matrix, NEW skip \in Nat, Filled(m, skip)
  PROVE  InMatrix(m) \subseteq Upto(m, skip) \cup InMatrix(SliceIter(m, skip))
<1> DEFINE all == NonEmpty(m)
           L == Len(all)
           t == SliceIter(m, skip)
<1>1. all \in Matrix /\ L \in Nat /\ DOMAIN m = 1 .. Len(m) /\ DOMAIN all = 1 .. L
  BY NonEmptyEnumerated DEF Matrix
<1>2. PICK e : Enumerates(e, m)
  BY NonEmptyEnumerated
<1>3. /\ e \in [1 .. L -> DOMAIN m]
      /\ \A n, k \in 1 .. L : n < k => e[n] < e[k]
      /\ \A n \in 1 .. L : all[n] = m[e[n]]
      /\ \A i \in DOMAIN m : m[i] # <<>> => \E n \in 1 .. L : e[n] = i
  BY <1>2 DEF Enumerates
<1>4. t = SubSeq(all, skip + 1, L)
  BY DEF SliceIter
<1> HIDE DEF all, L, t
<1>5. \A n \in 1 .. L : e[n] \in Nat
  BY <1>1, <1>3
<1>6. \A k \in 1 .. skip : k \in DOMAIN m /\ m[k] # <<>>
  BY DEF Filled
<1>7. ASSUME NEW n \in 1 .. L, e[n] > skip PROVE n > skip
  <2> DEFINE h == [k \in 1 .. skip |-> CHOOSE q \in 1 .. L : e[q] = k]
  <2>1. ASSUME NEW k \in 1 .. skip
        PROVE  h[k] \in 1 .. n - 1 /\ e[h[k]] = k
    <3>1. h[k] \in 1 .. L /\ e[h[k]] = k
      <4>1. \E q \in 1 .. L : e[q] = k
        BY <1>3, <1>6
      <4>2. QED
        BY <4>1
    <3> HIDE DEF h
    <3>2. ~(n < h[k]) /\ h[k] # n
      <4>1. e[h[k]] < e[n]
        BY <1>5, <1>7, <3>1
      <4>2. QED
        BY <1>3, <1>5, <3>1, <4>1
    <3>3. QED
      BY <1>1, <3>1, <3>2
  <2>2. h \in [1 .. skip -> 1 .. n - 1]
    BY <2>1
  <2> HIDE DEF h
  <2>3. h \in Injection(1 .. skip, 1 .. n - 1)
    BY <2>1, <2>2 DEF Injection, IsInjective
  <2>4. n \in Nat /\ n >= 1 /\ n - 1 \in Nat
    BY <1>1
  <2>5. /\ IsFiniteSet(1 .. n - 1) /\ Cardinality(1 .. n - 1) = n - 1
        /\ IsFiniteSet(1 .. skip) /\ Cardinality(1 .. skip) = skip
    <3>1. \A b \in Nat : IsFiniteSet(1 .. b) /\ Cardinality(1 .. b) = b
      <4>1. \A b \in Nat : IsFiniteSet(1 .. b)
                           /\ Cardinality(1 .. b) = IF 1 > b THEN 0 ELSE b - 1 + 1
        BY FS_Interval
      <4>2. QED
        BY <4>1
    <3>2. QED
      BY <2>4, <3>1
  <2>6. skip <= n - 1
    BY <2>3, <2>5, FS_Injection
  <2>7. QED
    BY <2>4, <2>6
<1>8. ASSUME NEW n \in 1 .. L, n > skip
      PROVE  n - skip \in DOMAIN t /\ t[n - skip] = all[n]
  <2>1. /\ SubSeq(all, skip + 1, L) \in Seq(Seq(Values))
        /\ Len(SubSeq(all, skip + 1, L)) = IF skip + 1 <= L THEN L - (skip + 1) + 1 ELSE 0
        /\ \A i \in 1 .. L - (skip + 1) + 1 :
             SubSeq(all, skip + 1, L)[i] = all[skip + 1 + i - 1]
    <3>1. \A i \in skip + 1 .. L : all[i] \in Seq(Values)
      BY <1>1 DEF Matrix
    <3>2. QED
      BY <1>1, <3>1, SubSeqProperties DEF Matrix
  <2>2. n - skip \in 1 .. L - (skip + 1) + 1 /\ skip + 1 + (n - skip) - 1 = n /\ skip + 1 <= L
    BY <1>1, <1>8
  <2>3. DOMAIN t = 1 .. L - (skip + 1) + 1
    BY <1>1, <1>4, <2>1, <2>2
  <2>4. QED
    BY <1>4, <2>1, <2>2, <2>3
<1>9. ASSUME NEW x \in InMatrix(m), x \notin Upto(m, skip) PROVE x \in InMatrix(t)
  <2>1. PICK i, j : Cell(m, i, j, x)
    BY <1>9, InMatrixCell
  <2>2. i \in DOMAIN m /\ j \in DOMAIN m[i] /\ m[i][j] = x /\ i \in Nat /\ i > skip /\ m[i] # <<>>
    <3>1. i \in DOMAIN m /\ j \in DOMAIN m[i] /\ m[i][j] = x
      BY <2>1 DEF Cell
    <3>2. ~(i <= skip)
      BY <1>9, <2>1, UptoCells
    <3>3. QED
      BY <1>1, <3>1, <3>2
  <2>3. PICK n \in 1 .. L : e[n] = i
    BY <1>3, <2>2
  <2>4. n - skip \in DOMAIN t /\ t[n - skip] = m[i]
    BY <1>3, <1>7, <1>8, <2>2, <2>3
  <2>5. Cell(t, n - skip, j, x)
    BY <2>2, <2>4 DEF Cell
  <2>6. QED
    BY <2>5, InMatrixCell
<1>10. QED
  BY <1>9 DEF t

\* The answer of slice_iter is a matrix.
LEMMA SliceIterIsMatrix ==
  ASSUME NEW m \in Matrix, NEW skip \in Nat
  PROVE  SliceIter(m, skip) \in Matrix
<1> DEFINE all == NonEmpty(m)
<1>1. all \in Matrix /\ Len(all) \in Nat
  BY NonEmptyEnumerated DEF Matrix
<1>2. SliceIter(m, skip) = SubSeq(all, skip + 1, Len(all))
  BY DEF SliceIter
<1> HIDE DEF all
<1>3. \A i \in skip + 1 .. Len(all) : all[i] \in Seq(Values)
  BY <1>1 DEF Matrix
<1>4. SubSeq(all, skip + 1, Len(all)) \in Seq(Seq(Values))
  BY <1>1, <1>3, SubSeqProperties DEF Matrix
<1>5. QED
  BY <1>2, <1>4 DEF Matrix

\* What a fold is not handed is behind its cursor, if slice_iter skips no others.
LEMMA SlicesMiss ==
  ASSUME stream \in Streams, NEW c \in Cursors,
         Upto(stream.prev, c.prev) = InMatrix(stream.prev) \/ Filled(stream.prev, c.prev),
         Upto(stream.cur, c.cur) = InMatrix(stream.cur) \/ Filled(stream.cur, c.cur),
         Upto(stream.new, c.new) = InMatrix(stream.new) \/ Filled(stream.new, c.new)
  PROVE  InStream(stream) \subseteq Behind(stream, c) \cup InMatrix(Slices(stream, c))
<1> DEFINE p == SliceIter(stream.prev, c.prev)
           q == SliceIter(stream.cur, c.cur)
           r == SliceIter(stream.new, c.new)
<1>1. stream.prev \in Matrix /\ stream.cur \in Matrix /\ stream.new \in Matrix
  BY StreamFacts
<1>2. c.prev \in Nat /\ c.cur \in Nat /\ c.new \in Nat
  BY DEF Cursors
<1>3. /\ InMatrix(stream.prev) \subseteq Upto(stream.prev, c.prev) \cup InMatrix(p)
      /\ InMatrix(stream.cur) \subseteq Upto(stream.cur, c.cur) \cup InMatrix(q)
      /\ InMatrix(stream.new) \subseteq Upto(stream.new, c.new) \cup InMatrix(r)
  BY <1>1, <1>2, SliceIterMisses
<1>4. p \in Matrix /\ q \in Matrix /\ r \in Matrix
  BY <1>1, <1>2, SliceIterIsMatrix
<1> HIDE DEF p, q, r
<1>5. p \o q \in Matrix /\ InMatrix(p \o q) = InMatrix(p) \cup InMatrix(q)
  BY <1>4, ConcatCells
<1> DEFINE pq == p \o q
<1> HIDE DEF pq
<1>6. InMatrix(pq \o r) = InMatrix(pq) \cup InMatrix(r)
  BY <1>4, <1>5, ConcatCells DEF pq
<1>7. Slices(stream, c) = pq \o r
  BY DEF Slices, p, q, r, pq
<1>8. QED
  BY <1>3, <1>5, <1>6, <1>7 DEF InStream, Behind, pq

\* Taking the first value of the first generation leaves all the others.
LEMMA RestKeepsOthers ==
  ASSUME NEW t \in Matrix, AllNonEmpty(t), t # <<>>
  PROVE  InMatrix(t) \subseteq InMatrix(Rest(t)) \cup {t[1][1]}
<1> DEFINE r == Rest(t)
<1>1. /\ t \in Seq(Seq(Values)) /\ Len(t) \in Nat /\ DOMAIN t = 1 .. Len(t) /\ 1 \in DOMAIN t
  <2>1. t \in Seq(Seq(Values)) /\ Len(t) \in Nat /\ DOMAIN t = 1 .. Len(t)
    BY DEF Matrix
  <2>2. Len(t) # 0
    BY <2>1, EmptySeq
  <2>3. QED
    BY <2>1, <2>2
<1>2. t[1] \in Seq(Values) /\ Len(t[1]) \in Nat /\ DOMAIN t[1] = 1 .. Len(t[1]) /\ Len(t[1]) > 0
  <2>1. t[1] \in Seq(Values) /\ t[1] # <<>>
    BY <1>1 DEF AllNonEmpty
  <2>2. Len(t[1]) \in Nat /\ DOMAIN t[1] = 1 .. Len(t[1]) /\ Len(t[1]) # 0
    BY <2>1, EmptySeq
  <2>3. QED
    BY <2>1, <2>2
<1>3. ASSUME NEW x, NEW i, NEW j, Cell(t, i, j, x), x # t[1][1]
      PROVE  \E a, b : Cell(r, a, b, x)
  <2>1. i \in DOMAIN t /\ j \in DOMAIN t[i] /\ t[i][j] = x
    BY <1>3 DEF Cell
  <2>2. CASE Len(t[1]) = 1
    <3>1. r = Tail(t)
      BY <2>2 DEF Rest
    <3>2. /\ Tail(t) \in Seq(Seq(Values)) /\ Len(Tail(t)) = Len(t) - 1
          /\ \A k \in 1 .. Len(Tail(t)) : Tail(t)[k] = t[k + 1]
      BY <1>1, HeadTailProperties
    <3>3. i # 1
      <4>1. i = 1 => j = 1
        BY <1>2, <2>1, <2>2
      <4>2. QED
        BY <1>3, <2>1, <4>1
    <3>4. i - 1 \in 1 .. Len(t) - 1 /\ i - 1 + 1 = i
      BY <1>1, <2>1, <3>3
    <3> HIDE DEF r
    <3>5. i - 1 \in DOMAIN r /\ r[i - 1] = t[i]
      BY <1>1, <3>1, <3>2, <3>4
    <3>6. Cell(r, i - 1, j, x)
      BY <2>1, <3>5 DEF Cell
    <3>7. QED
      BY <3>6
  <2>3. CASE Len(t[1]) # 1
    <3>1. r = [t EXCEPT ![1] = Tail(t[1])]
      BY <2>3 DEF Rest
    <3>2. /\ Tail(t[1]) \in Seq(Values) /\ Len(Tail(t[1])) = Len(t[1]) - 1
          /\ \A k \in 1 .. Len(Tail(t[1])) : Tail(t[1])[k] = t[1][k + 1]
      BY <1>2, HeadTailProperties
    <3> HIDE DEF r
    <3>3. DOMAIN r = DOMAIN t /\ r[1] = Tail(t[1]) /\ \A k \in DOMAIN t : k # 1 => r[k] = t[k]
      BY <1>1, <3>1
    <3>4. CASE i = 1
      <4>1. j # 1
        BY <1>3, <2>1, <3>4
      <4>2. j - 1 \in 1 .. Len(t[1]) - 1 /\ j - 1 + 1 = j
        BY <1>2, <2>1, <3>4, <4>1
      <4>3. j - 1 \in DOMAIN r[1] /\ r[1][j - 1] = x
        BY <2>1, <3>2, <3>3, <3>4, <4>2
      <4>4. Cell(r, 1, j - 1, x)
        BY <1>1, <3>3, <4>3 DEF Cell
      <4>5. QED
        BY <4>4
    <3>5. CASE i # 1
      <4>1. Cell(r, i, j, x)
        BY <2>1, <3>3, <3>5 DEF Cell
      <4>2. QED
        BY <4>1
    <3>6. QED
      BY <3>4, <3>5
  <2>4. QED
    BY <2>2, <2>3
<1> HIDE DEF r
<1>4. QED
  BY <1>3, InMatrixCell DEF r

\* A new value is put into the last generation, in front of every cursor of the round.
LEMMA AddedToLast ==
  ASSUME NEW m \in Matrix, NEW v \in Values
  PROVE  LET a == AddToLastGeneration(m, v) IN
         /\ a \in Matrix /\ Len(a) \in Nat
         /\ Len(a) = IF Len(m) = 0 THEN 1 ELSE Len(m)
         /\ \A n \in Nat : n < Len(m) => Upto(a, n) = Upto(m, n)
         /\ \A n \in Nat : Filled(m, n) => Filled(a, n)
         /\ Filled(m, Len(m)) => Filled(a, Len(a))
<1> DEFINE gen == IF m = <<>> THEN 0 ELSE Len(m) - 1
           a == AddValueToGeneration(m, v, gen)
           l == (IF gen < Len(m) THEN Len(m[gen + 1]) ELSE 0) + 1
<1>1. Len(m) \in Nat /\ (m = <<>> <=> Len(m) = 0)
  BY EmptySeq DEF Matrix
<1>2. gen \in Nat /\ gen + 1 = IF Len(m) = 0 THEN 1 ELSE Len(m)
  BY <1>1
<1>3. AddToLastGeneration(m, v) = a
  BY DEF AddToLastGeneration
<1> HIDE DEF gen
<1>4. /\ a \in Matrix
      /\ Len(a) = IF gen < Len(m) THEN Len(m) ELSE gen + 1
      /\ \A i, j, x : Cell(a, i, j, x) <=>
                        \/ Cell(m, i, j, x)
                        \/ i = gen + 1 /\ j = l /\ x = v
  BY <1>2, AddValueToGenerationCells
<1> HIDE DEF a, l
<1>5. Len(a) \in Nat /\ Len(a) = gen + 1
  BY <1>1, <1>2, <1>4
<1>6. ASSUME NEW n \in Nat, n < Len(m) PROVE Upto(a, n) = Upto(m, n)
  <2>1. gen + 1 = Len(m) /\ ~(gen + 1 <= n)
    BY <1>1, <1>2, <1>6
  <2>2. \A x : x \in Upto(a, n) <=> x \in Upto(m, n)
    BY <1>4, <2>1, UptoCells
  <2>3. QED
    BY <2>2
<1>7. ASSUME NEW n \in Nat, Filled(m, n) PROVE Filled(a, n)
  BY <1>4, <1>7, FilledCells
<1>8. Filled(m, Len(m)) => Filled(a, Len(a))
  <2>1. SUFFICES ASSUME Filled(m, Len(m)), NEW i \in 1 .. Len(a)
                 PROVE  \E j, x : Cell(a, i, j, x)
    BY FilledCells
  <2>2. CASE i = gen + 1
    BY <1>4, <2>2
  <2>3. CASE i # gen + 1
    <3>1. i \in 1 .. Len(m)
      BY <1>1, <1>2, <1>5, <2>3
    <3>2. QED
      BY <1>4, <2>1, <3>1, FilledCells
  <2>4. QED
    BY <2>2, <2>3
<1>9. QED
  BY <1>1, <1>2, <1>3, <1>4, <1>5, <1>6, <1>7, <1>8

\* Between the writes of a run no empty generation comes about.
LEMMA VisitWrite ==
  ASSUME RunsInv, VisitInv, ExecWrite
  PROVE  VisitInv'
<1>1. /\ script \in Scripts /\ stream \in Streams /\ pc \in DOMAIN script.items /\ pc \in Nat
      /\ fold = <<>> /\ Item.op = "write" /\ script' = script /\ fold' = <<>>
  BY DEF RunsInv, TypeInv, ExecWrite, AtItem, Write, Wait, AbortRun
<1>2. pc # 0 /\ stream.new \in Matrix
  BY <1>1, PcInRun, StreamFacts
<1>3. Item.v \in Values
  BY <1>1, ItemFacts DEF Item
<1>4. SUFFICES ASSUME pc' # 0, NoFoldBefore' PROVE Filled(stream'.new, Len(stream'.new))
  BY <1>1 DEF VisitInv
<1>5. pc' = pc + 1 /\ (stream' = stream \/ stream' = AddValue(stream, Item.v, GenerationOf(Item.v)))
  BY <1>4 DEF ExecWrite, Write, Wait, AbortRun
<1>6. NoFoldBefore
  <2>1. \A i \in DOMAIN script.items : i \in Nat
    BY <1>1, ItemFacts
  <2>2. \A i \in DOMAIN script.items : i < pc => i < pc'
    BY <1>1, <1>5, <2>1
  <2>3. QED
    BY <1>1, <1>4, <2>2 DEF NoFoldBefore
<1>7. Filled(stream.new, Len(stream.new))
  BY <1>1, <1>2, <1>6 DEF VisitInv
<1>8. stream'.new = stream.new \/ stream'.new = AddToLastGeneration(stream.new, Item.v)
  BY <1>1, <1>5 DEF AddValue, GenerationOf, Previous, Current, New, Streams
<1>9. QED
  BY <1>2, <1>3, <1>7, <1>8, AddedToLast

\* A fold starts with all values of the stream, and its cursor counts the generations.
LEMMA VisitFoldStart ==
  ASSUME RunsInv, VisitInv, FoldsFresh', FoldStart
  PROVE  VisitInv'
<1>1. /\ script \in Scripts /\ pc \in DOMAIN script.items /\ pc \in Nat
      /\ fold = <<>> /\ stream \in Streams /\ Item.op = "fold"
      /\ UNCHANGED <<script, stored, incoming>>
  BY DEF RunsInv, FoldStart, TypeInv, AtItem
<1>2. pc # 0 /\ PlaceInv /\ OnceInv
  BY <1>1, PcInRun DEF RunsInv
<1>3. /\ stream.prev \in Matrix /\ stream.cur \in Matrix /\ stream.new \in Matrix
      /\ Len(stream.prev) \in Nat /\ Len(stream.cur) \in Nat /\ Len(stream.new) \in Nat
  BY <1>1, StreamFacts
<1> DEFINE todo == Slices(stream, NoCursor)
           c == CursorOf(stream)
           n == AddNewEmptyGeneration(stream.new)
           g == [id |-> Item.id, cursor |-> c, todo |-> todo, seen |-> <<>>]
<1>4. InMatrix(todo) = InStream(stream)
  <2>1. NoCursor \in Cursors /\ NoCursor.prev = 0 /\ NoCursor.cur = 0 /\ NoCursor.new = 0
    BY DEF NoCursor, Cursors
  <2>2. InMatrix(todo) \subseteq InStream(stream)
    BY <1>1, <1>2, <2>1, SlicesFacts DEF OnceInv
  <2>3. \A m : Filled(m, 0)
    BY DEF Filled
  <2>4. ASSUME NEW m \in Matrix PROVE Upto(m, 0) = {}
    <3>1. DOMAIN m = 1 .. Len(m) /\ Len(m) \in Nat
      BY DEF Matrix
    <3>2. QED
      BY <3>1 DEF Upto
  <2>5. InStream(stream) \subseteq Behind(stream, NoCursor) \cup InMatrix(todo)
    BY <1>1, <2>1, <2>3, SlicesMiss
  <2>6. Behind(stream, NoCursor) = {}
    BY <1>3, <2>1, <2>4 DEF Behind
  <2>7. QED
    BY <2>2, <2>5, <2>6
<1>5. CASE todo = <<>>
  <2>1. pc' = pc + 1 /\ fold' = <<>>
    BY <1>5 DEF FoldStart
  <2>2. ~NoFoldBefore'
    BY <1>1, <2>1 DEF NoFoldBefore, Item
  <2>3. QED
    BY <2>1, <2>2 DEF VisitInv
<1>6. CASE todo # <<>>
  <2>1. stream' = [stream EXCEPT !.new = n] /\ pc' = pc /\ fold' = <<g>>
    BY <1>6 DEF FoldStart, AfterFoldStart
  <2>2. SameCells(stream.new, n)
    BY <1>3, EmptyGenerations
  <2>3. /\ g.id = Item.id /\ g.cursor = c /\ g.todo = todo /\ g.seen = <<>>
        /\ c.prev = Len(stream.prev) /\ c.cur = Len(stream.cur) /\ c.new = Len(stream.new)
    BY DEF CursorOf
  <2>4. stream'.prev = stream.prev /\ stream'.cur = stream.cur /\ stream'.new = n
    BY <1>1, <2>1 DEF Streams
  <2> HIDE DEF g, c, n, todo
  <2>5. Frame' = g /\ fold' # <<>>
    BY <2>1 DEF Frame
  <2>6. /\ Upto(stream.prev, c.prev) = InMatrix(stream.prev)
        /\ Upto(stream.cur, c.cur) = InMatrix(stream.cur)
        /\ Upto(n, c.new) = InMatrix(n) /\ InMatrix(n) = InMatrix(stream.new)
    BY <1>3, <2>2, <2>3, UptoAll, SameCellsFacts
  <2>7. Seen(g) = {}
    BY <2>3 DEF Seen
  <2>8. Seen(g) \cup InMatrix(g.todo) = Behind(stream', g.cursor)
    BY <1>4, <2>3, <2>4, <2>6, <2>7 DEF Behind, InStream
  <2>9. DOMAIN script.child[g.id] # {} => Filled(n, c.new)
    <3>1. SUFFICES ASSUME DOMAIN script.child[g.id] # {} PROVE Filled(n, c.new)
      OBVIOUS
    <3>2. NoFoldBefore'
      BY <1>1, <2>5, <3>1 DEF FoldsFresh
    <3>3. NoFoldBefore
      BY <1>1, <2>1, <3>2 DEF NoFoldBefore
    <3>4. Filled(stream.new, c.new)
      BY <1>1, <1>2, <2>3, <3>3 DEF VisitInv
    <3>5. QED
      BY <2>2, <3>4, FilledCells DEF SameCells
  <2>10. QED
    BY <1>1, <2>3, <2>4, <2>5, <2>6, <2>8, <2>9 DEF VisitInv
<1>7. QED
  BY <1>5, <1>6

\* An iteration takes a value of this round, and what it writes is for a later one.
LEMMA VisitIteration ==
  ASSUME RunsInv, VisitInv, FoldsFresh, Iteration
  PROVE  VisitInv'
<1>1. /\ script \in Scripts /\ pc \in DOMAIN script.items
      /\ fold # <<>> /\ fold = <<Frame>> /\ Frame \in Frames /\ stream \in Streams
      /\ FoldInv
  BY DEF RunsInv, Iteration, TypeInv, FoldInv
<1>2. pc # 0 /\ PlaceInv /\ OnceInv
  BY <1>1, PcInRun DEF RunsInv
<1> DEFINE v == Frame.todo[1][1]
           g == [Frame EXCEPT !.todo = Rest(@), !.seen = Append(@, v)]
           x == script.child[Frame.id][v]
<1>3. /\ Frame.todo \in Matrix /\ Frame.todo # <<>> /\ Frame.seen \in Seq(Values)
      /\ Frame.cursor \in Cursors /\ AllNonEmpty(Frame.todo) /\ NoDup(Frame.todo)
  BY <1>1 DEF Frames, FoldInv, Iteration, AllNonEmpty
<1>4. /\ v \in Values /\ Rest(Frame.todo) \in Matrix
      /\ InMatrix(Frame.todo) = InMatrix(Rest(Frame.todo)) \cup {v}
  <2>1. /\ v \in Values /\ Rest(Frame.todo) \in Matrix /\ v \in InMatrix(Frame.todo)
        /\ InMatrix(Rest(Frame.todo)) \subseteq InMatrix(Frame.todo)
    BY <1>3, RestFacts
  <2>2. InMatrix(Frame.todo) \subseteq InMatrix(Rest(Frame.todo)) \cup {v}
    BY <1>3, RestKeepsOthers
  <2>3. QED
    BY <2>1, <2>2
<1>5. CASE AbortRun
  BY <1>5 DEF AbortRun, VisitInv
<1> HIDE DEF v
<1>6. /\ g.id = Frame.id /\ g.cursor = Frame.cursor
      /\ g.todo = Rest(Frame.todo) /\ g.seen = Append(Frame.seen, v)
  <2>1. PICK f \in Frames : f = Frame
    BY <1>1
  <2>2. PICK t \in Matrix : t = Rest(Frame.todo)
    BY <1>4
  <2>3. PICK s \in Seq(Values) : s = Append(Frame.seen, v)
    <3>1. Append(Frame.seen, v) \in Seq(Values)
      BY <1>3, <1>4
    <3>2. QED
      BY <3>1
  <2>4. g = [f EXCEPT !.todo = t, !.seen = s]
    BY <2>1, <2>2, <2>3
  <2> HIDE DEF g
  <2>5. g.id = f.id /\ g.cursor = f.cursor /\ g.todo = t /\ g.seen = s
    BY <2>4 DEF Frames
  <2>6. QED
    BY <2>1, <2>2, <2>3, <2>5, Zenon
<1> HIDE DEF g
<1>7. Seen(g) = Seen(Frame) \cup {v}
  <2> DEFINE s == Frame.seen
             a == Append(s, v)
             l == Len(s)
  <2>1. /\ l \in Nat /\ DOMAIN s = 1 .. l /\ DOMAIN a = 1 .. l + 1
        /\ a[l + 1] = v /\ \A n \in 1 .. l : a[n] = s[n]
    BY <1>3, <1>4
  <2>2. Seen(Frame) = {s[n] : n \in DOMAIN s} /\ Seen(g) = {a[n] : n \in DOMAIN a}
    BY <1>6 DEF Seen
  <2> HIDE DEF s, a, l
  <2>3. \A n \in 1 .. l + 1 : n \in 1 .. l \/ n = l + 1
    BY <2>1
  <2>4. (\A n \in 1 .. l : n \in 1 .. l + 1) /\ l + 1 \in 1 .. l + 1
    BY <2>1
  <2>5. QED
    BY <2>1, <2>2, <2>3, <2>4
\* The fold goes on, and behind its cursor nothing has changed.
<1>8. ASSUME fold' = <<g>>, pc' = pc, script' = script,
             stream'.prev = stream.prev, stream'.cur = stream.cur,
             Upto(stream'.new, Frame.cursor.new) = Upto(stream.new, Frame.cursor.new),
             IF DOMAIN script.child[Frame.id] = {}
             THEN stream'.new = stream.new
             ELSE Filled(stream'.new, Frame.cursor.new)
      PROVE  VisitInv'
  <2>1. Frame' = g /\ fold' # <<>>
    BY <1>8 DEF Frame
  <2>2. Behind(stream', Frame.cursor) = Behind(stream, Frame.cursor)
    BY <1>8 DEF Behind
  <2>3. Seen(g) \cup InMatrix(g.todo) = Behind(stream', g.cursor)
    BY <1>1, <1>4, <1>6, <1>7, <2>2 DEF VisitInv
  <2>4. QED
    BY <1>1, <1>6, <1>8, <2>1, <2>3 DEF VisitInv
<1>9. CASE fold' = <<g>> /\ pc' = pc /\ script' = script /\ stream' = stream
  BY <1>1, <1>8, <1>9 DEF VisitInv
<1>10. CASE /\ fold' = <<g>> /\ pc' = pc /\ script' = script
            /\ v \in DOMAIN script.child[Frame.id]
            /\ stream' = AddValue(stream, x, GenerationOf(x))
  <2>1. ~Known(x) /\ DOMAIN script.child[Frame.id] # {}
    BY <1>1, <1>10 DEF FoldsFresh
  <2>2. stream' = [stream EXCEPT !.new = AddToLastGeneration(@, x)]
    BY <1>10, <2>1 DEF Known, GenerationOf, New, AddValue
  <2>3. x \in Values
    <3>1. Frame.id \in DOMAIN script.child
      BY <1>1, ItemFacts DEF FoldInv, Item
    <3>2. QED
      BY <1>1, <1>10, <3>1, ScriptAssumption
  <2> HIDE DEF x
  <2>4. /\ stream'.prev = stream.prev /\ stream'.cur = stream.cur
        /\ stream'.new = AddToLastGeneration(stream.new, x) /\ stream.new \in Matrix
    BY <1>1, <2>2 DEF Streams
  <2>5. Frame.cursor.new \in Nat /\ Frame.cursor.new < Len(stream.new)
    <3>1. Frame.cursor.new \in Nat /\ Frame.cursor.new + 1 = Len(stream.new)
      BY <1>1, <1>3 DEF Cursors, FoldInv
    <3>2. QED
      BY <3>1
  <2>6. /\ Upto(stream'.new, Frame.cursor.new) = Upto(stream.new, Frame.cursor.new)
        /\ Filled(stream'.new, Frame.cursor.new)
    BY <1>1, <2>1, <2>3, <2>4, <2>5, AddedToLast DEF VisitInv
  <2>7. QED
    BY <1>8, <1>10, <2>1, <2>4, <2>6
<1>11. QED
  BY <1>5, <1>9, <1>10 DEF Iteration, Write, Wait, g, v

\* At the end of a round nothing is left out: what is not handed out was.
LEMMA VisitedOrHanded ==
  ASSUME RunsInv, VisitInv, fold # <<>>, Frame.todo = <<>>
  PROVE  /\ Seen(Frame) = Behind(stream, Frame.cursor)
         /\ Seen(Frame) \cup InMatrix(Slices(stream, Frame.cursor)) = InStream(stream)
<1>1. /\ script \in Scripts /\ pc \in DOMAIN script.items /\ Frame \in Frames
      /\ stream \in Streams /\ Frame.cursor \in Cursors
  BY DEF RunsInv, TypeInv, FoldInv, Frames
<1>2. PlaceInv /\ OnceInv
  BY <1>1, PcInRun DEF RunsInv
<1>3. InMatrix(<<>>) = {}
  BY DEF InMatrix
<1>4. Seen(Frame) = Behind(stream, Frame.cursor)
  BY <1>3 DEF VisitInv
<1>5. InStream(stream) \subseteq
        Behind(stream, Frame.cursor) \cup InMatrix(Slices(stream, Frame.cursor))
  BY <1>1, SlicesMiss DEF VisitInv
<1>6. InMatrix(Slices(stream, Frame.cursor)) \subseteq InStream(stream)
  BY <1>1, <1>2, SlicesFacts DEF OnceInv
<1>7. Behind(stream, Frame.cursor) \subseteq InStream(stream)
  BY DEF Behind, Upto, InStream
<1>8. QED
  BY <1>4, <1>5, <1>6, <1>7

\* A new round begins with what was written in the last one.
LEMMA VisitIterationEnd ==
  ASSUME RunsInv, VisitInv, IterationEnd
  PROVE  VisitInv'
<1>1. /\ script \in Scripts /\ pc \in DOMAIN script.items /\ pc \in Nat
      /\ fold # <<>> /\ Frame \in Frames /\ stream \in Streams /\ Frame.todo = <<>>
      /\ Item.op = "fold" /\ FoldInv /\ script' = script /\ Frame.cursor \in Cursors
  BY DEF RunsInv, IterationEnd, TypeInv, FoldInv, Frames
<1>2. /\ stream.prev \in Matrix /\ stream.cur \in Matrix /\ stream.new \in Matrix
      /\ Len(stream.prev) \in Nat /\ Len(stream.cur) \in Nat /\ Len(stream.new) \in Nat
  BY <1>1, StreamFacts
<1> DEFINE todo == Slices(stream, Frame.cursor)
           r == RemoveLastIfEmpty(stream.new)
           n == AddNewEmptyGeneration(r)
           c == CursorAtIterationEnd(stream)
           g == [Frame EXCEPT !.cursor = c, !.todo = todo]
<1>3. r \in Matrix /\ SameCells(stream.new, r) /\ Len(r) \in Nat
  <2>1. r \in Matrix /\ SameCells(stream.new, r)
    BY <1>2, EmptyGenerations
  <2>2. QED
    BY <2>1 DEF Matrix
<1>4. SameCells(r, n) /\ SameCells(stream.new, n)
  <2>1. SameCells(r, n)
    BY <1>3, EmptyGenerations
  <2>2. QED
    BY <1>3, <2>1 DEF SameCells
<1>5. /\ stream'.prev = stream.prev /\ stream'.cur = stream.cur /\ stream'.new = n
  <2>1. stream' = [stream EXCEPT !.new = n]
    BY DEF IterationEnd, AfterIterationEnd
  <2>2. QED
    BY <1>1, <2>1 DEF Streams
<1>6. c.prev = Len(stream.prev) /\ c.cur = Len(stream.cur) /\ c.new = Len(r)
  <2>1. LET s == [stream EXCEPT !.new = r] IN
        s.prev = stream.prev /\ s.cur = stream.cur /\ s.new = r
    BY <1>1 DEF Streams
  <2>2. QED
    BY <2>1 DEF CursorOf, CursorAtIterationEnd
<1>7. IF todo = <<>> THEN pc' = pc + 1 /\ fold' = <<>> ELSE fold' = <<g>> /\ pc' = pc
  BY DEF IterationEnd
<1>8. g.id = Frame.id /\ g.cursor = c /\ g.todo = todo /\ g.seen = Frame.seen
  BY <1>1 DEF Frames
<1>9. Seen(Frame) \cup InMatrix(todo) = InStream(stream)
  BY <1>1, VisitedOrHanded
<1>10. DOMAIN script.child[Frame.id] # {} => Filled(n, Len(r))
  <2>1. SUFFICES ASSUME Filled(stream.new, Frame.cursor.new) PROVE Filled(n, Len(r))
    BY <1>1 DEF VisitInv
  <2>2. Frame.cursor.new \in Nat /\ Frame.cursor.new + 1 = Len(stream.new)
    BY <1>1 DEF FoldInv, Cursors
  <2>3. Filled(stream.new, Len(r))
    <3>1. DOMAIN stream.new = 1 .. Len(stream.new) /\ Len(stream.new) \in DOMAIN stream.new
      BY <1>2, <2>2 DEF Matrix
    <3>2. CASE stream.new[Len(stream.new)] = <<>>
      <4>1. r = SubSeq(stream.new, 1, Len(stream.new) - 1)
        BY <3>1, <3>2 DEF RemoveLastIfEmpty
      <4>2. Len(r) = Frame.cursor.new
        <5>1. PICK k \in Nat : k = Frame.cursor.new /\ Len(stream.new) = k + 1
          BY <2>2
        <5>2. /\ stream.new \in Seq(Seq(Values)) /\ k + 1 - 1 = k
              /\ \A i \in 1 .. k : stream.new[i] \in Seq(Values)
          BY <1>2, <5>1 DEF Matrix
        <5>3. Len(SubSeq(stream.new, 1, k)) = IF 1 <= k THEN k - 1 + 1 ELSE 0
          BY <5>1, <5>2, SubSeqProperties
        <5>4. r = SubSeq(stream.new, 1, k)
          BY <4>1, <5>1, <5>2
        <5> HIDE DEF r
        <5>5. QED
          BY <5>1, <5>3, <5>4
      <4>3. QED
        BY <2>1, <4>2
    <3>3. CASE stream.new[Len(stream.new)] # <<>>
      <4>1. r = stream.new
        BY <3>3 DEF RemoveLastIfEmpty
      <4>2. DOMAIN stream.new[Len(stream.new)] # {}
        <5>1. stream.new[Len(stream.new)] \in Seq(Values)
          BY <1>2, <3>1 DEF Matrix
        <5>2. Len(stream.new[Len(stream.new)]) # 0 /\ Len(stream.new[Len(stream.new)]) \in Nat
          BY <3>3, <5>1, EmptySeq
        <5>3. PICK s \in Seq(Values) : s = stream.new[Len(stream.new)] /\ Len(s) # 0
          BY <5>1, <5>2
        <5>4. 1 \in DOMAIN s
          BY <5>3
        <5>5. QED
          BY <5>3, <5>4
      <4>3. ASSUME NEW i \in 1 .. Len(stream.new)
            PROVE  i \in DOMAIN stream.new /\ DOMAIN stream.new[i] # {}
        <5>1. i \in 1 .. Frame.cursor.new \/ i = Len(stream.new)
          BY <2>2
        <5>2. QED
          BY <2>1, <3>1, <4>2, <5>1 DEF Filled
      <4>4. QED
        BY <4>1, <4>3 DEF Filled
    <3>4. QED
      BY <3>2, <3>3
  <2>4. QED
    BY <1>4, <2>3, FilledCells DEF SameCells
<1> HIDE DEF todo, r, n, c, g
<1>11. CASE todo = <<>>
  <2>1. pc' = pc + 1 /\ fold' = <<>>
    BY <1>7, <1>11
  <2>2. ~NoFoldBefore'
    BY <1>1, <2>1 DEF NoFoldBefore, Item
  <2>3. QED
    BY <2>1, <2>2 DEF VisitInv
<1>12. CASE todo # <<>>
  <2>1. Frame' = g /\ fold' # <<>>
    BY <1>7, <1>12 DEF Frame
  <2>2. /\ Upto(stream.prev, c.prev) = InMatrix(stream.prev)
        /\ Upto(stream.cur, c.cur) = InMatrix(stream.cur)
        /\ Upto(n, c.new) = InMatrix(n) /\ InMatrix(n) = InMatrix(stream.new)
    <3>1. Upto(n, Len(r)) = Upto(r, Len(r)) /\ InMatrix(n) = InMatrix(r)
      BY <1>4, SameCellsFacts
    <3>2. InMatrix(n) = InMatrix(stream.new)
      BY <1>4, SameCellsFacts
    <3>3. QED
      BY <1>2, <1>3, <1>6, <3>1, <3>2, UptoAll
  <2>3. Seen(g) = Seen(Frame)
    BY <1>8 DEF Seen
  <2>4. Behind(stream', c) = InStream(stream)
    BY <1>5, <2>2 DEF Behind, InStream
  <2>5. Seen(g) \cup InMatrix(g.todo) = Behind(stream', g.cursor)
    BY <1>8, <1>9, <2>3, <2>4
  <2>6. QED
    BY <1>1, <1>5, <1>6, <1>8, <1>10, <2>1, <2>2, <2>5 DEF VisitInv
<1>13. QED
  BY <1>11, <1>12

\* VisitInv is inductive as long as folds are fresh.
LEMMA VisitStep ==
  ASSUME RunsInv, VisitInv, FoldsFresh, FoldsFresh', [Next]_vars
  PROVE  VisitInv'
<1>1. CASE UNCHANGED vars
  BY <1>1 DEF vars, VisitInv, NoFoldBefore, Frame
<1>2. CASE StartRun
  <2>1. fold = <<>>
    <3>1. 0 \notin DOMAIN script.items
      <4>1. script.items \in Seq(Items)
        BY ScriptAssumption DEF RunsInv, TypeInv
      <4>2. QED
        BY <4>1
    <3>2. QED
      BY <1>2, <3>1, NoFoldBetweenRuns DEF StartRun
  <2>2. stream'.new = <<>> /\ fold' = <<>>
    BY <1>2, <2>1 DEF StartRun, EmptyStream
  <2>3. Filled(<<>>, Len(<<>>))
    BY DEF Filled
  <2>4. QED
    BY <2>2, <2>3 DEF VisitInv
<1>3. CASE EndRun
  <2>1. pc' = 0 /\ fold' = fold /\ pc \notin DOMAIN script.items
    <3>1. script.items \in Seq(Items)
      BY ScriptAssumption DEF RunsInv, TypeInv
    <3>2. QED
      BY <1>3, <3>1 DEF EndRun
  <2>2. fold' = <<>>
    BY <2>1, NoFoldBetweenRuns
  <2>3. QED
    BY <2>1, <2>2 DEF VisitInv
<1>4. QED
  BY <1>1, <1>2, <1>3, VisitWrite, VisitFoldStart, VisitIteration, VisitIterationEnd DEF Next

\* A fold that only reads the stream, and the first fold of a run if what it writes is in
\* neither data, is run with every value of the stream once, those that it has written
\* itself included, for all scripts and whatever else the data hold
\* (RecursiveStreamCursor).
THEOREM FreshFoldsVisitAll == Spec /\ []FoldsFresh => FoldVisitsAll
<1> DEFINE Visited == fold # <<>> /\ fold' = <<>> /\ pc' # 0 =>
                        /\ {Frame.seen[i] : i \in DOMAIN Frame.seen} = InStream(stream)
                        /\ Len(Frame.seen) = Cardinality(InStream(stream))
<1>1. ASSUME RunsInv, VisitInv, [Next]_vars PROVE Visited
  <2>1. SUFFICES ASSUME fold # <<>>, fold' = <<>>, pc' # 0
                 PROVE  /\ {Frame.seen[i] : i \in DOMAIN Frame.seen} = InStream(stream)
                        /\ Len(Frame.seen) = Cardinality(InStream(stream))
    OBVIOUS
  <2>2. pc \in DOMAIN script.items /\ script \in Scripts /\ pc \in Nat
    BY <1>1, <2>1 DEF RunsInv, FoldInv, TypeInv
  <2>3. IterationEnd
    <3>1. ~StartRun /\ ~EndRun
      <4>1. pc # 0 /\ pc # Len(script.items) + 1
        <5>1. script.items \in Seq(Items)
          BY <2>2, ScriptAssumption
        <5>2. QED
          BY <2>2, <5>1
      <4>2. QED
        BY <4>1 DEF StartRun, EndRun
    <3>2. ~Iteration
      BY <2>1 DEF Iteration, Write, Wait, AbortRun
    <3>3. QED
      BY <1>1, <2>1, <3>1, <3>2 DEF Next, ExecWrite, FoldStart, AtItem, vars
  <2>4. Frame.todo = <<>> /\ Slices(stream, Frame.cursor) = <<>>
    BY <2>1, <2>3 DEF IterationEnd
  <2>5. Seen(Frame) = InStream(stream)
    <3>1. InMatrix(<<>>) = {}
      BY DEF InMatrix
    <3>2. QED
      BY <1>1, <2>1, <2>4, <3>1, VisitedOrHanded
  <2> DEFINE s == Frame.seen
             D == 1 .. Len(s)
  <2>6. /\ Len(s) \in Nat /\ DOMAIN s = D
        /\ \A i, k \in D : s[i] = s[k] => i = k
    <3>1. s \in Seq(Values) /\ \A i, k \in DOMAIN s : s[i] = s[k] => i = k
      BY <1>1, <2>1 DEF RunsInv, TypeInv, Frames, FoldInv
    <3>2. QED
      BY <3>1
  <2>7. Seen(Frame) = {s[i] : i \in D}
    BY <2>6 DEF Seen
  <2> HIDE DEF s
  <2>8. IsFiniteSet(D) /\ Cardinality(D) = Len(s)
    <3>1. IsFiniteSet(D) /\ Cardinality(D) = IF 1 > Len(s) THEN 0 ELSE Len(s) - 1 + 1
      BY <2>6, FS_Interval
    <3>2. QED
      BY <2>6, <3>1
  <2> HIDE DEF D
  <2> DEFINE f == [i \in D |-> s[i]]
             T == Seen(Frame)
  <2>9. f \in [D -> T] /\ (\A i, k \in D : f[i] = f[k] => i = k)
        /\ \A y \in T : \E i \in D : f[i] = y
    BY <2>6, <2>7
  <2> HIDE DEF f, T
  <2>10. ExistsBijection(D, T)
    BY <2>9 DEF ExistsBijection, Bijection, Injection, Surjection, IsInjective
  <2>11. Cardinality(T) = Len(s)
    BY <2>8, <2>10, FS_Bijection
  <2>12. QED
    BY <2>5, <2>11 DEF s, T, Seen
<1>2. Init => VisitInv
  BY DEF Init, VisitInv
<1>3. Spec /\ []FoldsFresh => [](RunsInv /\ VisitInv)
  <2>1. RunsInv /\ VisitInv /\ FoldsFresh /\ FoldsFresh' /\ [Next]_vars => VisitInv'
    BY VisitStep
  <2>2. QED
    BY <1>2, <2>1, RunsInvariant, PTL DEF Spec
<1>4. QED
  BY <1>1, <1>3, PTL DEF Spec, FoldVisitsAll

\* The script's own writes are append only.
WrittenStays ==
  [][\A i \in DOMAIN script.items :
       script.items[i].op = "write" /\ script.items[i].v \in DOMAIN stored
         => script.items[i].v \in DOMAIN stored']_vars

\* A write of a stored value does not wait, and no later step takes a value out of the
\* stream.
LEMMA RewrittenStep ==
  ASSUME RunsInv, RewrittenInv, [Next]_vars
  PROVE  RewrittenInv'
<1>1. script \in Scripts /\ stream \in Streams /\ pc \in Nat
  BY DEF RunsInv, TypeInv
<1>2. \A i \in DOMAIN script.items : i \in Nat /\ i > 0
  <2>1. script.items \in Seq(Items)
    BY <1>1, ScriptAssumption
  <2>2. QED
    BY <2>1
\* The stream keeps its values and the place in the script passes at most one item.
<1>3. ASSUME pc # 0, script' = script, stored' = stored,
             InStream(stream) \subseteq InStream(stream'),
             pc' = pc \/ /\ pc' = pc + 1 /\ pc \in DOMAIN script.items
                         /\ Item.op = "write" /\ Item.v \in DOMAIN stored
                              => Item.v \in InStream(stream')
      PROVE  RewrittenInv'
  <2>1. SUFFICES ASSUME NEW i \in DOMAIN script.items, i < pc',
                        script.items[i].op = "write", script.items[i].v \in DOMAIN stored
                 PROVE  script.items[i].v \in InStream(stream')
    BY <1>3 DEF RewrittenInv
  <2>2. i < pc \/ (i = pc /\ pc' = pc + 1)
    BY <1>1, <1>2, <1>3, <2>1
  <2>3. QED
    BY <1>3, <2>1, <2>2 DEF RewrittenInv, Item
<1>4. CASE UNCHANGED vars
  BY <1>4 DEF vars, RewrittenInv
<1>5. CASE pc' = 0
  BY <1>5 DEF RewrittenInv
<1>6. CASE StartRun
  <2>1. pc' = 1 /\ script' = script
    BY <1>6 DEF StartRun
  <2>2. \A i \in DOMAIN script.items : ~(i < 1)
    BY <1>2
  <2>3. QED
    BY <2>1, <2>2 DEF RewrittenInv
<1>7. CASE ExecWrite /\ pc' # 0
  <2>1. /\ pc \in DOMAIN script.items /\ fold = <<>> /\ Item.op = "write"
        /\ pc' = pc + 1 /\ UNCHANGED <<script, stored, incoming>>
    BY <1>7 DEF ExecWrite, AtItem, Write, Wait, AbortRun
  <2>2. pc # 0 /\ PlaceInv /\ OnceInv
    BY <1>1, <2>1, PcInRun DEF RunsInv
  <2>3. Item.v \in Values /\ Item.v \notin InStream(stream)
    <3>1. Item.v \in Values /\ Item.v \notin Written
      <4>1. AtItem("write") /\ TypeInv /\ FoldInv
        BY <1>7 DEF ExecWrite, RunsInv
      <4>2. QED
        BY <1>1, <2>1, <4>1, ItemIsNew
    <3>2. QED
      BY <2>2, <3>1 DEF OnceInv
  <2>4. CASE ~SizeLimitExceeded(stream') /\ stream' = AddValue(stream, Item.v, GenerationOf(Item.v))
    <3>1. InStream(stream') = InStream(stream) \cup {Item.v}
      BY <2>1, <2>2, <2>3, <2>4, WriteStep
    <3>2. QED
      BY <1>3, <2>1, <2>2, <3>1
  <2>5. CASE stream' = stream /\ ~Known(Item.v)
    BY <1>3, <2>1, <2>2, <2>5 DEF Known
  <2>6. QED
    BY <1>7, <2>4, <2>5 DEF ExecWrite, Write, Wait, AbortRun
<1>8. CASE FoldStart
  <2>1. /\ pc \in DOMAIN script.items /\ Item.op = "fold"
        /\ UNCHANGED <<script, stored, incoming>> /\ (pc' = pc \/ pc' = pc + 1)
    BY <1>8 DEF FoldStart, AtItem
  <2>2. pc # 0
    BY <1>1, <2>1, PcInRun
  <2>3. InStream(stream') = InStream(stream)
    <3>1. CASE stream' = stream
      BY <3>1
    <3>2. CASE stream' = [stream EXCEPT !.new = AddNewEmptyGeneration(@)]
      <4> DEFINE n == AddNewEmptyGeneration(stream.new)
      <4>1. n \in Matrix /\ SameCells(stream.new, n)
        BY <1>1, StreamFacts, EmptyGenerations
      <4>2. stream' = [stream EXCEPT !.new = n]
        BY <3>2
      <4> HIDE DEF n
      <4>3. QED
        BY <2>1, <2>2, <4>1, <4>2, NewGenerationStep
    <3>3. QED
      BY <1>8, <3>1, <3>2 DEF FoldStart, AfterFoldStart
  <2>4. QED
    BY <1>3, <2>1, <2>2, <2>3
<1>9. CASE Iteration /\ pc' # 0
  <2>1. /\ pc \in DOMAIN script.items /\ fold # <<>> /\ Frame \in Frames
        /\ pc' = pc /\ UNCHANGED <<script, stored, incoming>> /\ FoldInv /\ TypeInv
    BY <1>9 DEF Iteration, RunsInv, FoldInv, TypeInv, Write, Wait, AbortRun
  <2>2. pc # 0 /\ PlaceInv /\ OnceInv
    BY <1>1, <2>1, PcInRun DEF RunsInv
  <2> DEFINE v == Frame.todo[1][1]
             x == script.child[Frame.id][v]
  <2>3. CASE stream' = stream
    BY <1>3, <2>1, <2>2, <2>3
  <2>4. CASE /\ v \in DOMAIN script.child[Frame.id] /\ ~SizeLimitExceeded(stream')
             /\ stream' = AddValue(stream, x, GenerationOf(x))
    <3>1. v \notin Seen(Frame)
      <4>1. /\ Frame.todo \in Matrix /\ AllNonEmpty(Frame.todo) /\ NoDup(Frame.todo)
            /\ Frame.todo # <<>>
        BY <1>9, <2>1 DEF Frames, FoldInv, Iteration, AllNonEmpty
      <4>2. v \in InMatrix(Frame.todo)
        BY <4>1, RestFacts
      <4>3. QED
        BY <2>1, <4>2 DEF FoldInv
    <3>2. x \in Values /\ x \notin Written
      BY <1>1, <2>1, <2>4, <3>1, ChildIsNew DEF FoldInv
    <3> HIDE DEF x
    <3>3. InStream(stream') = InStream(stream) \cup {x}
      BY <2>1, <2>2, <2>4, <3>2, WriteStep DEF OnceInv
    <3>4. QED
      BY <1>3, <2>1, <2>2, <3>3
  <2>5. QED
    BY <1>9, <2>3, <2>4 DEF Iteration, Write, Wait, AbortRun
<1>10. CASE IterationEnd
  <2>1. /\ pc \in DOMAIN script.items /\ Item.op = "fold"
        /\ UNCHANGED <<script, stored, incoming>> /\ (pc' = pc \/ pc' = pc + 1)
    BY <1>10 DEF IterationEnd, RunsInv, FoldInv
  <2>2. pc # 0
    BY <1>1, <2>1, PcInRun
  <2> DEFINE r == RemoveLastIfEmpty(stream.new)
             n == AddNewEmptyGeneration(r)
  <2>3. r \in Matrix /\ SameCells(stream.new, r)
    BY <1>1, StreamFacts, EmptyGenerations
  <2>4. n \in Matrix /\ SameCells(r, n)
    BY <2>3, EmptyGenerations
  <2>5. stream' = [stream EXCEPT !.new = n]
    BY <1>10 DEF IterationEnd, AfterIterationEnd
  <2> HIDE DEF n, r
  <2>6. SameCells(stream.new, n)
    BY <2>3, <2>4 DEF SameCells
  <2>7. InStream(stream') = InStream(stream)
    BY <2>1, <2>2, <2>4, <2>5, <2>6, NewGenerationStep
  <2>8. QED
    BY <1>3, <2>1, <2>2, <2>7
<1>11. QED
  BY <1>4, <1>5, <1>6, <1>7, <1>8, <1>9, <1>10 DEF Next, EndRun

\* What changes the stored data.
LEMMA StoredChanges ==
  ASSUME RunsInv, [Next]_vars
  PROVE  \/ stored' = stored /\ script' = script
         \/ EndRun /\ script' = script /\ DOMAIN stored' = InStream(stream)
              /\ fold = <<>> /\ OnceInv /\ pc # 0
<1>1. CASE EndRun
  <2>1. script.items \in Seq(Items)
    BY ScriptAssumption DEF RunsInv, TypeInv
  <2>2. pc # 0 /\ pc \notin DOMAIN script.items
    BY <1>1, <2>1 DEF EndRun
  <2>3. PlaceInv /\ OnceInv /\ stream \in Streams /\ fold = <<>>
    BY <2>2, NoFoldBetweenRuns DEF RunsInv, TypeInv
  <2>4. DOMAIN Generations(stream) = InStream(stream)
    BY <2>3, GenerationsFacts DEF OnceInv
  <2>5. QED
    BY <1>1, <2>2, <2>3, <2>4 DEF EndRun
<1>2. CASE ~EndRun
  BY <1>2 DEF Next, vars, StartRun, ExecWrite, FoldStart, Iteration, IterationEnd, Write,
              Wait, AbortRun
<1>3. QED
  BY <1>1, <1>2

\* What the writes of a script have stored, every later run stores again, for all
\* scripts, also around folds that lose values of their own: a run that has not failed
\* has executed each write, and a value that the previous data have is there to be
\* written.
THEOREM WritesAreKept == Spec => WrittenStays
<1> DEFINE Kept == \A i \in DOMAIN script.items :
                     script.items[i].op = "write" /\ script.items[i].v \in DOMAIN stored
                       => script.items[i].v \in DOMAIN stored'
<1>1. Init => RewrittenInv
  BY DEF Init, RewrittenInv
<1>2. Spec => [](RunsInv /\ RewrittenInv)
  <2>1. RunsInv /\ RewrittenInv /\ [Next]_vars => RewrittenInv'
    BY RewrittenStep
  <2>2. QED
    BY <1>1, <2>1, RunsInvariant, PTL DEF Spec
<1>3. ASSUME RunsInv, RewrittenInv, [Next]_vars PROVE Kept
  <2>1. CASE stored' = stored
    BY <2>1
  <2>2. CASE EndRun /\ DOMAIN stored' = InStream(stream) /\ pc # 0
    <3>1. script.items \in Seq(Items)
      BY <1>3, ScriptAssumption DEF RunsInv, TypeInv
    <3>2. \A i \in DOMAIN script.items : i < pc
      BY <2>2, <3>1 DEF EndRun
    <3>3. QED
      BY <1>3, <2>2, <3>2 DEF RewrittenInv
  <2>3. QED
    BY <1>3, <2>1, <2>2, StoredChanges
<1>4. QED
  BY <1>2, <1>3, PTL DEF Spec, WrittenStays

\* No fold of the script writes to the stream.
FoldsOnlyRead == \A f \in DOMAIN script.child : DOMAIN script.child[f] = {}

\* What is stored comes from a write of the script.
OriginInv == \A x \in DOMAIN stored : \E i \in DOMAIN script.items :
               script.items[i].op = "write" /\ script.items[i].v = x

\* If folds only read the stream, it is append only: whatever a run has stored, all later
\* runs store again ("append only data structures", stream_definition.rs).
THEOREM StreamsAppendOnly == Spec /\ []FoldsOnlyRead => AppendOnly
<1>1. Init => OriginInv
  BY DEF Init, OriginInv
<1>2. ASSUME RunsInv, OriginInv, FoldsOnlyRead, [Next]_vars PROVE OriginInv'
  <2>1. CASE stored' = stored /\ script' = script
    BY <1>2, <2>1 DEF OriginInv
  <2>2. CASE script' = script /\ DOMAIN stored' = InStream(stream) /\ fold = <<>> /\ OnceInv
    <3>1. SUFFICES ASSUME NEW x \in InStream(stream)
                   PROVE  \E i \in DOMAIN script.items :
                            script.items[i].op = "write" /\ script.items[i].v = x
      BY <2>2 DEF OriginInv
    <3>2. PICK i \in DOMAIN script.items : Writes(script.items[i], x)
      BY <2>2, <3>1 DEF OnceInv, Written
    <3>3. ~(script.items[i].op = "fold"
              /\ IsChild(script.items[i].id, DOMAIN script.child[script.items[i].id], x))
      <4>1. script \in Scripts
        BY <1>2 DEF RunsInv, TypeInv
      <4>2. script.items[i].op = "fold" => script.items[i].id \in DOMAIN script.child
        BY <4>1, ScriptAssumption
      <4>3. QED
        BY <1>2, <4>2 DEF FoldsOnlyRead, IsChild
    <3>4. QED
      BY <3>2, <3>3 DEF Writes
  <2>3. QED
    BY <1>2, <2>1, <2>2, StoredChanges
<1>3. Spec /\ []FoldsOnlyRead => []OriginInv
  <2>1. RunsInv /\ OriginInv /\ FoldsOnlyRead /\ [Next]_vars => OriginInv'
    BY <1>2
  <2>2. QED
    BY <1>1, <2>1, RunsInvariant, PTL DEF Spec
<1> DEFINE Kept == \A i \in DOMAIN script.items :
                     script.items[i].op = "write" /\ script.items[i].v \in DOMAIN stored
                       => script.items[i].v \in DOMAIN stored'
<1>4. OriginInv /\ [Kept]_vars => [DOMAIN stored \subseteq DOMAIN stored']_vars
  BY DEF OriginInv
<1>5. Spec => [][Kept]_vars
  BY WritesAreKept DEF WrittenStays
<1>6. QED
  BY <1>3, <1>4, <1>5, PTL DEF AppendOnly
=============================================================================
