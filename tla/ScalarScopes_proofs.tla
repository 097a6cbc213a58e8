------------------------- MODULE ScalarScopes_proofs -------------------------
(***************************************************************************)
(* Theorems about the scopes of scalars, for any script, any variables and *)
(* iterators and any nesting.                                              *)
(***************************************************************************)
EXTENDS ScalarScopes, SequenceTheorems, TLAPS

-----------------------------------------------------------------------------
(* The inductive invariant.                                                *)

Value == Vals \cup {Unset}
CellSet == [depth : Nat, value : Value]
Rows == [Names -> Seq(CellSet)]
Cursors == UNION {[S -> Nat] : S \in SUBSET Iterators}

FrameSet == [kind : {"fold", "next", "new"}, name : Names \cup Iterators, depth : Nat,
             cells : Rows, cursors : Cursors, seen : SUBSET Nat]

TypeInv ==
  /\ cells \in Rows /\ cursors \in Cursors /\ depth \in Nat
  /\ frames \in Seq(FrameSet)
  /\ \A n \in 1 .. Len(frames) :
       frames[n].name \in IF frames[n].kind = "new" THEN Names ELSE Iterators

\* The depth inside an instruction, and inside the first n of them.
Inner(f) == IF f.kind = "new" THEN f.depth ELSE f.depth + 1
DepthIn(fs, n) == IF n = 0 THEN 0 ELSE Inner(fs[n])

\* No cell of a row is deeper than d.
Below(rows, d) == \A x \in Names : \A k \in 1 .. Len(rows[x]) : rows[x][k].depth <= d

\* set_value at depth d.
SetAt(row, d, v) ==
  IF row # <<>> /\ Last(row).depth = d THEN Append(Front(row), Cell(d, v))
                                       ELSE Append(row, Cell(d, v))

\* Whatever was executed at depth d and has ended, it left a row as it was or
\* set its cell of depth d.
Grown(old, row, d) == row = old \/ \E v \in Value : row = SetAt(old, d, v)

\* new put one more cell on the row of its variable, which may have been set.
Covered(old, row, d) == \E v \in Value : row = Append(old, Cell(d, v))

\* How the rows inside the instruction f relate to those at its start.
Kept(f, rows) ==
  \A x \in Names :
    IF f.kind = "new" /\ x = f.name THEN Covered(f.cells[x], rows[x], Inner(f))
                                    ELSE Grown(f.cells[x], rows[x], Inner(f))

\* The depths in the scope of the instruction n, as Visible; and the depths
\* that no next has closed.
VisibleIn(fs, n) == IF n = 0 THEN {0}
                    ELSE IF fs[n].kind = "new" THEN fs[n].seen
                    ELSE fs[n].seen \cup {fs[n].depth + 1}

Open(fs, n) == {e \in 0 .. DepthIn(fs, n) :
                  \A m \in 1 .. n : fs[m].kind = "next" => fs[m].depth # e}

\* NextsInnermost for the first n instructions.
Innermost(fs, n) ==
  \A m \in 1 .. n : \A k \in 1 .. m :
    fs[m].kind = "next" /\ fs[k].kind = "fold" /\ fs[k].name = fs[m].name
      => \A j \in k + 1 .. m : fs[j].kind # "fold"

\* What holds of the instruction n and those around it: depths grow from one to
\* the next, each depth has the fold or the next that opened it, an iterator
\* belongs to one fold, and a next stands inside the fold of its iterator.
FrameDepths(fs, n) ==
  /\ fs[n].depth = DepthIn(fs, n - 1)
  /\ \A m \in 1 .. n - 1 : Inner(fs[m]) <= fs[n].depth
  /\ \A e \in Nat : e < DepthIn(fs, n) =>
       \E m \in 1 .. n : fs[m].kind # "new" /\ fs[m].depth = e

FrameRows(fs, n) ==
  /\ Below(fs[n].cells, fs[n].depth)
  /\ n > 1 => Kept(fs[n - 1], fs[n].cells)

FrameIterators(fs, n) ==
  /\ fs[n].kind = "fold" =>
       \A m \in 1 .. n - 1 : fs[m].kind = "fold" => fs[m].name # fs[n].name
  /\ fs[n].kind = "next" =>
       \E m \in 1 .. n - 1 : /\ fs[m].kind = "fold" /\ fs[m].name = fs[n].name
                             /\ fs[n].seen = fs[m].seen

FrameScope(fs, n) ==
  /\ fs[n].kind # "next" => fs[n].seen = VisibleIn(fs, n - 1)
  /\ Innermost(fs, n) => VisibleIn(fs, n) = Open(fs, n)

FrameOK(fs, n) == /\ FrameDepths(fs, n) /\ FrameRows(fs, n)
                  /\ FrameIterators(fs, n) /\ FrameScope(fs, n)

FoldNames(fs) == {fs[n].name : n \in {m \in 1 .. Len(fs) : fs[m].kind = "fold"}}

\* Why the end of a new never finds a foreign cell, why the end of a fold or a
\* next takes away what was set inside and no more, and why allowed_depths is
\* what is in scope.
ScopesInv ==
  /\ TypeInv
  /\ status # "ScalarsStateCorrupted"
  /\ \A n \in 1 .. Len(frames) : FrameOK(frames, n)
  /\ depth = DepthIn(frames, Len(frames))
  /\ Below(cells, depth)
  /\ frames # <<>> => Kept(Last(frames), cells)
  /\ DOMAIN cursors = FoldNames(frames)
  /\ allowed = Open(frames, Len(frames))

-----------------------------------------------------------------------------
(* Sequences and rows.                                                     *)

\* A sequence without its last element.
LEMMA FrontProperties ==
  ASSUME NEW S, NEW s \in Seq(S), s # <<>>
  PROVE  /\ Len(s) \in Nat /\ Len(s) >= 1 /\ Last(s) \in S
         /\ Front(s) \in Seq(S) /\ Len(Front(s)) = Len(s) - 1
         /\ \A i \in 1 .. Len(s) - 1 : Front(s)[i] = s[i]
         /\ s = Append(Front(s), Last(s))
<1>1. Len(s) \in Nat /\ Len(s) >= 1
  BY EmptySeq, LenProperties
<1>2. Last(s) \in S
  BY <1>1, ElementOfSeq DEF Last
<1>3. /\ Front(s) \in Seq(S) /\ Len(Front(s)) = Len(s) - 1
      /\ \A i \in 1 .. Len(s) - 1 : Front(s)[i] = s[i]
  <2> DEFINE n == Len(s) - 1
  <2>1. n \in Nat /\ \A i \in 1 .. n : s[i] \in S
    BY <1>1, ElementOfSeq
  <2> HIDE DEF n
  <2>2. /\ SubSeq(s, 1, n) \in Seq(S)
        /\ Len(SubSeq(s, 1, n)) = IF 1 <= n THEN n - 1 + 1 ELSE 0
        /\ \A i \in 1 .. n - 1 + 1 : SubSeq(s, 1, n)[i] = s[1 + i - 1]
    BY <2>1, SubSeqProperties
  <2>3. n - 1 + 1 = n /\ \A i \in 1 .. n : 1 + i - 1 = i
    BY <2>1
  <2>4. Len(SubSeq(s, 1, n)) = n
    BY <2>1, <2>2
  <2>5. QED
    BY <2>2, <2>3, <2>4 DEF Front, n
<1>4. s = Append(Front(s), Last(s))
  <2>1. /\ Append(Front(s), Last(s)) \in Seq(S)
        /\ Len(Append(Front(s), Last(s))) = Len(s)
        /\ \A i \in 1 .. Len(s) : Append(Front(s), Last(s))[i] = s[i]
    BY <1>1, <1>2, <1>3, AppendProperties DEF Last
  <2>2. QED
    BY <2>1, SeqEqual
<1>5. QED
  BY <1>1, <1>2, <1>3, <1>4

\* Append and Front undo each other.
LEMMA FrontAppend ==
  ASSUME NEW S, NEW s \in Seq(S), NEW e \in S
  PROVE  /\ Append(s, e) # <<>> /\ Append(s, e) \in Seq(S)
         /\ Len(Append(s, e)) = Len(s) + 1
         /\ Last(Append(s, e)) = e /\ Front(Append(s, e)) = s
         /\ \A i \in 1 .. Len(s) : Append(s, e)[i] = s[i]
<1>1. /\ Append(s, e) # <<>> /\ Append(s, e) \in Seq(S)
      /\ Len(Append(s, e)) = Len(s) + 1 /\ Len(s) \in Nat
      /\ Append(s, e)[Len(s) + 1] = e
      /\ \A i \in 1 .. Len(s) : Append(s, e)[i] = s[i]
  BY AppendProperties, LenProperties
<1>2. /\ Front(Append(s, e)) \in Seq(S) /\ Len(Front(Append(s, e))) = Len(s)
      /\ \A i \in 1 .. Len(s) : Front(Append(s, e))[i] = s[i]
  <2> DEFINE t == Append(s, e)
  <2>1. t \in Seq(S) /\ t # <<>> /\ Len(t) = Len(s) + 1 /\ \A i \in 1 .. Len(s) : t[i] = s[i]
    BY <1>1
  <2> HIDE DEF t
  <2>2. Front(t) \in Seq(S) /\ Len(Front(t)) = Len(t) - 1
        /\ \A i \in 1 .. Len(t) - 1 : Front(t)[i] = t[i]
    BY <2>1, FrontProperties
  <2>3. Front(t) \in Seq(S) /\ Len(Front(t)) = Len(s) /\ \A i \in 1 .. Len(s) : Front(t)[i] = s[i]
    BY <1>1, <2>1, <2>2
  <2>4. QED
    BY <2>3 DEF t
<1>3. Front(Append(s, e)) = s
  BY <1>1, <1>2, SeqEqual
<1>4. QED
  BY <1>1, <1>3 DEF Last

\* Cells.
LEMMA CellType ==
  ASSUME NEW d \in Nat, NEW v \in Value
  PROVE  Cell(d, v) \in CellSet /\ Cell(d, v).depth = d /\ Cell(d, v).value = v
  BY DEF Cell, CellSet

\* set_value: the last cell of the row is the one that was set, and setting
\* the same variable again at this depth forgets the first value.
LEMMA SetAtProperties ==
  ASSUME NEW row \in Seq(CellSet), NEW d \in Nat, NEW v \in Value
  PROVE  /\ SetAt(row, d, v) \in Seq(CellSet) /\ SetAt(row, d, v) # <<>>
         /\ Last(SetAt(row, d, v)).depth = d
         /\ \A w \in Value : SetAt(SetAt(row, d, v), d, w) = SetAt(row, d, w)
         /\ \A w \in Value : SetAt(Append(row, Cell(d, v)), d, w) = Append(row, Cell(d, w))
<1>1. \A r \in Seq(CellSet), w \in Value :
        /\ Append(r, Cell(d, w)) \in Seq(CellSet) /\ Append(r, Cell(d, w)) # <<>>
        /\ Last(Append(r, Cell(d, w))).depth = d
        /\ Front(Append(r, Cell(d, w))) = r
  <2> TAKE r \in Seq(CellSet), w \in Value
  <2> DEFINE c == Cell(d, w)
  <2>1. c \in CellSet /\ c.depth = d
    BY CellType
  <2> HIDE DEF c
  <2>2. /\ Append(r, c) \in Seq(CellSet) /\ Append(r, c) # <<>>
        /\ Last(Append(r, c)) = c /\ Front(Append(r, c)) = r
    BY <2>1, FrontAppend
  <2>3. QED
    BY <2>1, <2>2 DEF c
<1>2. row # <<>> => Front(row) \in Seq(CellSet)
  BY FrontProperties
<1>3. \A w \in Value : SetAt(Append(row, Cell(d, v)), d, w) = Append(row, Cell(d, w))
  BY <1>1 DEF SetAt
<1>4. CASE row # <<>> /\ Last(row).depth = d
  <2>1. \A w \in Value : SetAt(row, d, w) = Append(Front(row), Cell(d, w))
    BY <1>4 DEF SetAt
  <2>2. \A w \in Value : SetAt(SetAt(row, d, v), d, w) = Append(Front(row), Cell(d, w))
    BY <1>1, <1>2, <1>4, <2>1 DEF SetAt
  <2>3. /\ SetAt(row, d, v) \in Seq(CellSet) /\ SetAt(row, d, v) # <<>>
        /\ Last(SetAt(row, d, v)).depth = d
    <3> DEFINE r == Front(row)
    <3>1. r \in Seq(CellSet) /\ SetAt(row, d, v) = Append(r, Cell(d, v))
      BY <1>2, <1>4, <2>1
    <3> HIDE DEF r
    <3>2. QED
      BY <1>1, <3>1
  <2>4. QED
    BY <1>3, <2>1, <2>2, <2>3
<1>5. CASE ~(row # <<>> /\ Last(row).depth = d)
  <2>1. \A w \in Value : SetAt(row, d, w) = Append(row, Cell(d, w))
    BY <1>5 DEF SetAt
  <2>2. QED
    BY <1>1, <1>3, <2>1
<1>6. QED
  BY <1>4, <1>5

\* Rows whose cells are not deeper than d stay so when a cell of depth d is set.
LEMMA SetAtBelow ==
  ASSUME NEW row \in Seq(CellSet), NEW d \in Nat, NEW v \in Value,
         \A k \in 1 .. Len(row) : row[k].depth <= d
  PROVE  /\ \A k \in 1 .. Len(SetAt(row, d, v)) : SetAt(row, d, v)[k].depth <= d
         /\ \A k \in 1 .. Len(row) + 1 : Append(row, Cell(d, v))[k].depth <= d
<1>1. \A r \in Seq(CellSet) :
        (\A k \in 1 .. Len(r) : r[k].depth <= d)
          => \A k \in 1 .. Len(r) + 1 : Append(r, Cell(d, v))[k].depth <= d
  BY CellType, AppendProperties, LenProperties
<1>2. \A r \in Seq(CellSet) : Len(Append(r, Cell(d, v))) = Len(r) + 1
  BY CellType, FrontAppend
<1>3. CASE row # <<>> /\ Last(row).depth = d
  <2>1. /\ Front(row) \in Seq(CellSet) /\ Len(Front(row)) = Len(row) - 1 /\ Len(row) \in Nat
        /\ \A i \in 1 .. Len(row) - 1 : Front(row)[i] = row[i]
    BY <1>3, FrontProperties
  <2>2. \A k \in 1 .. Len(Front(row)) : Front(row)[k].depth <= d
    BY <2>1
  <2>3. QED
    BY <1>1, <1>2, <1>3, <2>1, <2>2 DEF SetAt
<1>4. CASE ~(row # <<>> /\ Last(row).depth = d)
  BY <1>1, <1>2, <1>4 DEF SetAt
<1>5. QED
  BY <1>3, <1>4

\* What several instructions at depth d did to a row, one of them could have
\* done.
LEMMA GrownTransitive ==
  ASSUME NEW r \in Seq(CellSet), NEW s, NEW t, NEW d \in Nat, Grown(r, s, d), Grown(s, t, d)
  PROVE  Grown(r, t, d)
<1>1. CASE s = r \/ t = s
  BY <1>1 DEF Grown
<1>2. CASE s # r /\ t # s
  <2>1. PICK v \in Value, w \in Value : s = SetAt(r, d, v) /\ t = SetAt(s, d, w)
    BY <1>2 DEF Grown
  <2>2. t = SetAt(r, d, w)
    BY <2>1, SetAtProperties
  <2>3. QED
    BY <2>2 DEF Grown
<1>3. QED
  BY <1>1, <1>2

\* The cell of a new stays in its place, with the last value that it was given.
LEMMA CoveredGrown ==
  ASSUME NEW r \in Seq(CellSet), NEW s, NEW t, NEW d \in Nat, Covered(r, s, d), Grown(s, t, d)
  PROVE  Covered(r, t, d)
<1>1. CASE t = s
  BY <1>1
<1>2. CASE t # s
  <2>1. PICK v \in Value : s = Append(r, Cell(d, v))
    BY DEF Covered
  <2>2. PICK w \in Value : t = SetAt(s, d, w)
    BY <1>2 DEF Grown
  <2>3. t = Append(r, Cell(d, w))
    BY <2>1, <2>2, SetAtProperties
  <2>4. QED
    BY <2>3 DEF Covered
<1>3. QED
  BY <1>1, <1>2

\* So the instruction f does not see the difference when, at its depth, rows
\* grow further.
LEMMA KeptGrown ==
  ASSUME NEW f \in FrameSet, NEW rows, NEW rows2, Kept(f, rows),
         \A x \in Names : Grown(rows[x], rows2[x], Inner(f))
  PROVE  Kept(f, rows2)
<1>1. Inner(f) \in Nat /\ \A x \in Names : f.cells[x] \in Seq(CellSet)
  BY DEF Inner, FrameSet, Rows
<1>2. SUFFICES ASSUME NEW x \in Names
               PROVE  IF f.kind = "new" /\ x = f.name
                        THEN Covered(f.cells[x], rows2[x], Inner(f))
                        ELSE Grown(f.cells[x], rows2[x], Inner(f))
  BY DEF Kept
<1>3. CASE f.kind = "new" /\ x = f.name
  BY <1>1, <1>3, CoveredGrown DEF Kept
<1>4. CASE ~(f.kind = "new" /\ x = f.name)
  BY <1>1, <1>4, GrownTransitive DEF Kept
<1>5. QED
  BY <1>3, <1>4

\* cleanup_obsolete_values takes away what a fold or a next has set, and
\* nothing else, though it removes one cell of a row at most.
LEMMA CleanupRestores ==
  ASSUME NEW f \in FrameSet, NEW rows \in Rows, f.kind # "new",
         Kept(f, rows), Below(f.cells, f.depth)
  PROVE  Cleanup(rows, f.depth) = f.cells
<1>1. f.depth \in Nat /\ f.cells \in Rows /\ Inner(f) = f.depth + 1
  BY DEF FrameSet, Inner
<1>2. ASSUME NEW x \in Names
      PROVE  (IF rows[x] # <<>> /\ Last(rows[x]).depth > f.depth
                THEN Front(rows[x]) ELSE rows[x]) = f.cells[x]
  <2> DEFINE old == f.cells[x]
  <2>1. old \in Seq(CellSet) /\ \A k \in 1 .. Len(old) : old[k].depth <= f.depth
    BY <1>1 DEF Rows, Below
  <2>2. old # <<>> => Last(old).depth \in Nat /\ Last(old).depth <= f.depth
    <3>1. old # <<>> => Last(old) \in CellSet /\ Len(old) \in 1 .. Len(old)
      BY <2>1, FrontProperties
    <3>2. QED
      BY <2>1, <3>1 DEF Last, CellSet
  <2>3. Grown(old, rows[x], f.depth + 1)
    BY <1>1 DEF Kept
  <2> HIDE DEF old
  <2>4. CASE rows[x] = old
    BY <1>1, <2>2, <2>4 DEF old
  <2>5. CASE rows[x] # old
    <3>1. PICK v \in Value : rows[x] = SetAt(old, f.depth + 1, v)
      BY <2>3, <2>5 DEF Grown
    <3>2. rows[x] = Append(old, Cell(f.depth + 1, v))
      BY <1>1, <2>2, <3>1 DEF SetAt
    <3>3. Cell(f.depth + 1, v) \in CellSet /\ Cell(f.depth + 1, v).depth = f.depth + 1
      BY <1>1, CellType
    <3>4. /\ rows[x] # <<>> /\ Front(rows[x]) = old
          /\ Last(rows[x]) = Cell(f.depth + 1, v)
      BY <2>1, <3>2, <3>3, FrontAppend
    <3>5. QED
      BY <1>1, <3>3, <3>4 DEF old
  <2>6. QED
    BY <2>4, <2>5
<1>3. Cleanup(rows, f.depth) = [x \in Names |-> f.cells[x]]
  BY <1>2 DEF Cleanup
<1>4. QED
  BY <1>1, <1>3 DEF Rows

\* The end of a new finds the cell of its own.
LEMMA NewFindsItsCell ==
  ASSUME NEW f \in FrameSet, NEW rows \in Rows, f.kind = "new", f.name \in Names, Kept(f, rows)
  PROVE  /\ rows[f.name] # <<>> /\ Last(rows[f.name]).depth = f.depth
         /\ Front(rows[f.name]) = f.cells[f.name]
<1> DEFINE x == f.name
<1>1. f.depth \in Nat /\ f.cells[x] \in Seq(CellSet)
  BY DEF FrameSet, Rows
<1>2. PICK v \in Value : rows[x] = Append(f.cells[x], Cell(f.depth, v))
  BY DEF Kept, Covered, Inner
<1>3. Cell(f.depth, v) \in CellSet /\ Cell(f.depth, v).depth = f.depth
  BY <1>1, CellType
<1> HIDE DEF x
<1>4. QED
  BY <1>1, <1>2, <1>3, FrontAppend DEF x

-----------------------------------------------------------------------------
(* The stack of instructions.                                              *)

\* The instructions on the stack.
LEMMA FrameTypes ==
  ASSUME NEW fs \in Seq(FrameSet), NEW m \in 1 .. Len(fs)
  PROVE  /\ fs[m] \in FrameSet /\ fs[m].kind \in {"fold", "next", "new"}
         /\ fs[m].depth \in Nat /\ fs[m].cells \in Rows /\ fs[m].seen \in SUBSET Nat
<1>1. fs[m] \in FrameSet
  BY ElementOfSeq
<1>2. QED
  BY <1>1 DEF FrameSet

\* What holds of the instruction n depends on the first n instructions only.
LEMMA FrameOKPrefix ==
  ASSUME NEW fs, NEW gs, NEW n \in Nat, \A m \in 1 .. n : gs[m] = fs[m]
  PROVE  /\ n # 0 /\ FrameOK(fs, n) => FrameOK(gs, n)
         /\ \A m \in 0 .. n : /\ DepthIn(gs, m) = DepthIn(fs, m)
                              /\ VisibleIn(gs, m) = VisibleIn(fs, m)
                              /\ Open(gs, m) = Open(fs, m)
                              /\ Innermost(gs, m) <=> Innermost(fs, m)
<1>1. ASSUME NEW m \in 0 .. n
      PROVE  /\ DepthIn(gs, m) = DepthIn(fs, m) /\ VisibleIn(gs, m) = VisibleIn(fs, m)
             /\ Open(gs, m) = Open(fs, m) /\ (Innermost(gs, m) <=> Innermost(fs, m))
  <2>1. m # 0 => gs[m] = fs[m]
    OBVIOUS
  <2>2. DepthIn(gs, m) = DepthIn(fs, m)
    BY <2>1 DEF DepthIn
  <2>3. VisibleIn(gs, m) = VisibleIn(fs, m)
    BY <2>1 DEF VisibleIn
  <2>4. \A j \in 1 .. m : gs[j] = fs[j]
    OBVIOUS
  <2>5. Open(gs, m) = Open(fs, m)
    BY <2>2, <2>4 DEF Open
  <2>6. Innermost(gs, m) <=> Innermost(fs, m)
    BY <2>4 DEF Innermost
  <2>7. QED
    BY <2>2, <2>3, <2>5, <2>6
<1> SUFFICES n # 0 /\ FrameOK(fs, n) => FrameOK(gs, n)
  BY <1>1
<1> SUFFICES ASSUME n # 0, FrameOK(fs, n) PROVE FrameOK(gs, n)
  OBVIOUS
<1>2. n \in 0 .. n /\ n - 1 \in 0 .. n /\ n \in 1 .. n
  OBVIOUS
<1>3. FrameDepths(fs, n) => FrameDepths(gs, n)
  BY <1>1, <1>2 DEF FrameDepths
<1>4. FrameRows(fs, n) => FrameRows(gs, n)
  BY <1>2 DEF FrameRows
<1>5. FrameIterators(fs, n) => FrameIterators(gs, n)
  BY <1>2 DEF FrameIterators
<1>6. FrameScope(fs, n) => FrameScope(gs, n)
  BY <1>1, <1>2 DEF FrameScope
<1>7. QED
  BY <1>3, <1>4, <1>5, <1>6 DEF FrameOK

\* How the depths that may be read change when the instruction n starts, and
\* that its end undoes it: meet_fold_end and meet_next_after.
LEMMA OpenStep ==
  ASSUME NEW fs \in Seq(FrameSet), NEW n \in 1 .. Len(fs), FrameDepths(fs, n)
  PROVE  LET d == fs[n].depth IN
         /\ fs[n].kind = "new" => Open(fs, n) = Open(fs, n - 1)
         /\ fs[n].kind = "fold" =>
              /\ Open(fs, n) = Open(fs, n - 1) \cup {d + 1}
              /\ Open(fs, n - 1) = Open(fs, n) \ {d + 1}
         /\ fs[n].kind = "next" =>
              /\ Open(fs, n) = (Open(fs, n - 1) \ {d}) \cup {d + 1}
              /\ Open(fs, n - 1) = (Open(fs, n) \ {d + 1}) \cup {d}
<1> DEFINE d == fs[n].depth
<1>1. \A m \in 1 .. n : fs[m] \in FrameSet /\ fs[m].depth \in Nat
  <2>1. \A m \in 1 .. n : m \in 1 .. Len(fs)
    BY LenProperties
  <2>2. QED
    BY <2>1, FrameTypes
<1>2. n \in Nat /\ d \in Nat
  BY <1>1, LenProperties
<1>3. DepthIn(fs, n - 1) = d /\ \A m \in 1 .. n - 1 : Inner(fs[m]) <= d
  BY DEF FrameDepths
<1>4. \A m \in 1 .. n - 1 : fs[m].kind = "next" => fs[m].depth < d
  BY <1>1, <1>2, <1>3 DEF Inner
<1>5. DepthIn(fs, n) = IF fs[n].kind = "new" THEN d ELSE d + 1
  BY <1>2 DEF DepthIn, Inner
<1>6. \A e : e \in Open(fs, n - 1) <=>
               e \in 0 .. d /\ \A m \in 1 .. n - 1 : fs[m].kind = "next" => fs[m].depth # e
  BY <1>3 DEF Open
<1>7. \A e : e \in Open(fs, n) <=>
               /\ e \in 0 .. DepthIn(fs, n)
               /\ \A m \in 1 .. n - 1 : fs[m].kind = "next" => fs[m].depth # e
               /\ fs[n].kind = "next" => d # e
  <2>1. 1 .. n = (1 .. n - 1) \cup {n}
    BY <1>2
  <2>2. QED
    BY <2>1 DEF Open
<1>8. \A m \in 1 .. n - 1 : fs[m].kind = "next" => fs[m].depth # d + 1 /\ fs[m].depth # d
  BY <1>1, <1>2, <1>4
<1>9. \A e : e \in 0 .. d + 1 <=> e \in 0 .. d \/ e = d + 1
  BY <1>2
<1>10. d \in 0 .. d /\ d + 1 \notin 0 .. d /\ d # d + 1
  BY <1>2
<1> HIDE DEF d
<1>11. CASE fs[n].kind = "new"
  <2>1. Open(fs, n) = Open(fs, n - 1)
    BY <1>5, <1>6, <1>7, <1>11
  <2>2. QED
    BY <1>11, <2>1 DEF d
<1>12. CASE fs[n].kind = "fold"
  <2>1. \A e : e \in Open(fs, n) <=> e \in Open(fs, n - 1) \/ e = d + 1
    BY <1>5, <1>6, <1>7, <1>8, <1>9, <1>12
  <2>2. d + 1 \notin Open(fs, n - 1)
    BY <1>6, <1>10
  <2>3. QED
    BY <1>12, <2>1, <2>2 DEF d
<1>13. CASE fs[n].kind = "next"
  <2>1. \A e : e \in Open(fs, n) <=> (e \in Open(fs, n - 1) /\ e # d) \/ e = d + 1
    <3>1. DepthIn(fs, n) = d + 1
      BY <1>5, <1>13
    <3>2. \A e : e \in Open(fs, n) <=>
                 /\ e \in 0 .. d \/ e = d + 1
                 /\ \A m \in 1 .. n - 1 : fs[m].kind = "next" => fs[m].depth # e
                 /\ d # e
      BY <1>7, <1>9, <1>13, <3>1
    <3>3. QED
      BY <1>6, <1>8, <1>10, <3>2
  <2>2. d + 1 \notin Open(fs, n - 1) /\ d \in Open(fs, n - 1)
    BY <1>6, <1>8, <1>10
  <2>3. QED
    BY <1>13, <2>1, <2>2 DEF d
<1>14. QED
  BY <1>1, <1>11, <1>12, <1>13, n \in 1 .. n DEF FrameSet

\* The depth of an instruction that starts.
LEMMA PushedDepths ==
  ASSUME NEW fs \in Seq(FrameSet), \A n \in 1 .. Len(fs) : FrameOK(fs, n),
         NEW f \in FrameSet, f.depth = DepthIn(fs, Len(fs))
  PROVE  FrameDepths(Append(fs, f), Len(fs) + 1)
<1> DEFINE N == Len(fs)
           gs == Append(fs, f)
<1>1. N \in Nat /\ gs[N + 1] = f /\ \A m \in 1 .. N : gs[m] = fs[m]
  BY AppendProperties, LenProperties
<1>2. \A m \in 1 .. N : fs[m] \in FrameSet /\ fs[m].depth \in Nat
  BY FrameTypes
<1>3. f.depth \in Nat
  BY DEF FrameSet
<1> HIDE DEF gs
<1>4. DepthIn(gs, N) = f.depth
  BY <1>1 DEF DepthIn
<1>5. ASSUME NEW m \in 1 .. N PROVE Inner(gs[m]) <= f.depth
  <2>1. m \in Nat /\ N \in 1 .. N /\ N # 0
    BY <1>1
  <2>2. f.depth = Inner(fs[N])
    BY <2>1 DEF DepthIn
  <2>3. CASE m = N
    BY <1>1, <1>3, <2>1, <2>2, <2>3
  <2>4. CASE m # N
    <3>1. m \in 1 .. N - 1
      BY <1>1, <2>1, <2>4
    <3>2. Inner(fs[m]) <= fs[N].depth
      BY <2>1, <3>1 DEF FrameOK, FrameDepths
    <3>3. fs[N].depth <= Inner(fs[N]) /\ fs[N].depth \in Nat /\ fs[m].depth \in Nat
      BY <1>2, <2>1 DEF Inner
    <3>4. Inner(fs[m]) \in Nat
      BY <3>3 DEF Inner
    <3>5. QED
      BY <1>1, <1>3, <2>2, <3>2, <3>3, <3>4
  <2>5. QED
    BY <2>3, <2>4
<1>6. ASSUME NEW e \in Nat, e < Inner(f)
      PROVE  \E m \in 1 .. N + 1 : gs[m].kind # "new" /\ gs[m].depth = e
  <2>1. CASE e < f.depth
    <3>1. N # 0 /\ N \in 1 .. N
      BY <1>1, <1>3, <2>1 DEF DepthIn
    <3>2. \E m \in 1 .. N : fs[m].kind # "new" /\ fs[m].depth = e
      BY <2>1, <3>1 DEF FrameOK, FrameDepths
    <3>3. QED
      BY <1>1, <3>2
  <2>2. CASE ~(e < f.depth)
    <3>1. f.kind # "new" /\ f.depth = e
      BY <1>3, <1>6, <2>2 DEF Inner
    <3>2. QED
      BY <1>1, <3>1
  <2>3. QED
    BY <2>1, <2>2
<1>7. DepthIn(gs, N + 1) = Inner(f)
  BY <1>1 DEF DepthIn
<1>8. FrameDepths(gs, N + 1)
  BY <1>1, <1>4, <1>5, <1>6, <1>7 DEF FrameDepths
<1>9. QED
  BY <1>8 DEF gs

\* An instruction starts: all that holds of the stack holds of the new one.
LEMMA Pushed ==
  ASSUME NEW fs \in Seq(FrameSet), \A n \in 1 .. Len(fs) : FrameOK(fs, n),
         NEW f \in FrameSet, f.depth = DepthIn(fs, Len(fs)),
         Below(f.cells, f.depth), fs # <<>> => Kept(Last(fs), f.cells),
         FrameIterators(Append(fs, f), Len(fs) + 1), FrameScope(Append(fs, f), Len(fs) + 1)
  PROVE  \A n \in 1 .. Len(fs) + 1 : FrameOK(Append(fs, f), n)
<1> DEFINE N == Len(fs)
           gs == Append(fs, f)
<1>1. N \in Nat /\ gs[N + 1] = f /\ \A m \in 1 .. N : gs[m] = fs[m]
  BY AppendProperties, LenProperties
<1>2. FrameDepths(gs, N + 1)
  BY PushedDepths
<1>3. FrameRows(gs, N + 1)
  <2>1. N + 1 > 1 => gs[N + 1 - 1] = Last(fs) /\ fs # <<>>
    BY <1>1, EmptySeq DEF Last
  <2>2. QED
    BY <1>1, <2>1 DEF FrameRows
<1>4. FrameOK(gs, N + 1)
  BY <1>2, <1>3 DEF FrameOK
<1> HIDE DEF gs
<1>5. ASSUME NEW n \in 1 .. N PROVE FrameOK(gs, n)
  <2>1. n \in Nat \ {0} /\ \A m \in 1 .. n : gs[m] = fs[m]
    BY <1>1
  <2>2. QED
    BY <2>1, FrameOKPrefix
<1>6. \A n \in 1 .. N + 1 : FrameOK(gs, n)
  BY <1>1, <1>4, <1>5
<1>7. QED
  BY <1>6 DEF gs

\* An instruction ends: what holds of the others still holds.
LEMMA Popped ==
  ASSUME NEW fs \in Seq(FrameSet), fs # <<>>, \A n \in 1 .. Len(fs) : FrameOK(fs, n)
  PROVE  /\ \A n \in 1 .. Len(Front(fs)) : FrameOK(Front(fs), n)
         /\ DepthIn(Front(fs), Len(fs) - 1) = Last(fs).depth
         /\ Open(Front(fs), Len(fs) - 1) = Open(fs, Len(fs) - 1)
         /\ Front(fs) # <<>> => /\ Kept(Last(Front(fs)), Last(fs).cells)
                                /\ Inner(Last(Front(fs))) = Last(fs).depth
                                /\ Last(Front(fs)) \in FrameSet
         /\ Below(Last(fs).cells, Last(fs).depth)
<1> DEFINE N == Len(fs)
           gs == Front(fs)
<1>1. /\ N \in Nat /\ N >= 1 /\ gs \in Seq(FrameSet) /\ Len(gs) = N - 1
      /\ \A i \in 1 .. N - 1 : gs[i] = fs[i]
  BY FrontProperties
<1>2. FrameOK(fs, N) /\ Last(fs) = fs[N]
  BY <1>1 DEF Last
<1> HIDE DEF gs
<1>3. ASSUME NEW n \in 1 .. Len(gs) PROVE FrameOK(gs, n)
  <2>1. n \in Nat \ {0} /\ n \in 1 .. N /\ \A m \in 1 .. n : gs[m] = fs[m]
    BY <1>1
  <2>2. QED
    BY <2>1, FrameOKPrefix
<1>4. DepthIn(gs, N - 1) = DepthIn(fs, N - 1)
  BY <1>1 DEF DepthIn
<1>5. Open(gs, N - 1) = Open(fs, N - 1)
  BY <1>1, <1>4 DEF Open
<1>6. DepthIn(fs, N - 1) = Last(fs).depth /\ Below(Last(fs).cells, Last(fs).depth)
  BY <1>2 DEF FrameOK, FrameDepths, FrameRows
<1>7. ASSUME gs # <<>>
      PROVE  /\ Kept(Last(gs), Last(fs).cells) /\ Inner(Last(gs)) = Last(fs).depth
             /\ Last(gs) \in FrameSet
  <2>1. N > 1 /\ Last(gs) = fs[N - 1] /\ Last(gs) \in FrameSet
    BY <1>1, <1>7, FrontProperties DEF Last
  <2>2. QED
    BY <1>2, <1>6, <2>1 DEF FrameOK, FrameRows, DepthIn
<1>8. QED
  BY <1>3, <1>4, <1>5, <1>6, <1>7 DEF gs

\* In scope at the level n is what no next has closed, if nexts are innermost.
LEMMA VisibleIsOpen ==
  ASSUME NEW fs \in Seq(FrameSet), NEW n \in 0 .. Len(fs),
         \A m \in 1 .. Len(fs) : FrameOK(fs, m), Innermost(fs, n)
  PROVE  VisibleIn(fs, n) = Open(fs, n)
<1>1. CASE n = 0
  <2>1. 0 .. 0 = {0}
    OBVIOUS
  <2>2. QED
    BY <1>1, <2>1 DEF VisibleIn, Open, DepthIn
<1>2. CASE n # 0
  <2>1. n \in 1 .. Len(fs)
    BY <1>2, LenProperties
  <2>2. QED
    BY <2>1 DEF FrameOK, FrameScope
<1>3. QED
  BY <1>1, <1>2

\* The body of a fold or a new sees what the instruction around it sees, a fold
\* its own depth too.
LEMMA ScopeOfFoldOrNew ==
  ASSUME NEW fs \in Seq(FrameSet), \A n \in 1 .. Len(fs) : FrameOK(fs, n),
         NEW f \in FrameSet, f.depth = DepthIn(fs, Len(fs)),
         f.kind \in {"fold", "new"}, f.seen = VisibleIn(fs, Len(fs))
  PROVE  FrameScope(Append(fs, f), Len(fs) + 1)
<1> DEFINE N == Len(fs)
           gs == Append(fs, f)
<1>1. /\ N \in Nat /\ gs \in Seq(FrameSet) /\ Len(gs) = N + 1
      /\ gs[N + 1] = f /\ \A m \in 1 .. N : gs[m] = fs[m]
  BY AppendProperties, LenProperties
<1>2. FrameDepths(gs, N + 1)
  BY PushedDepths
<1> HIDE DEF gs
<1>3. /\ VisibleIn(gs, N) = VisibleIn(fs, N) /\ Open(gs, N) = Open(fs, N)
      /\ Innermost(gs, N) <=> Innermost(fs, N)
  BY <1>1, N \in 0 .. N, FrameOKPrefix
<1>4. Innermost(gs, N + 1) => VisibleIn(fs, N) = Open(fs, N)
  <2>1. Innermost(gs, N + 1) => Innermost(gs, N)
    BY <1>1 DEF Innermost
  <2>2. QED
    BY <1>1, <1>3, <2>1, VisibleIsOpen
<1>5. /\ f.kind = "new" => Open(gs, N + 1) = Open(gs, N)
      /\ f.kind = "fold" => Open(gs, N + 1) = Open(gs, N) \cup {f.depth + 1}
  BY <1>1, <1>2, N + 1 \in 1 .. N + 1, N + 1 - 1 = N, OpenStep
<1>6. VisibleIn(gs, N + 1) = IF f.kind = "new" THEN f.seen ELSE f.seen \cup {f.depth + 1}
  <2> DEFINE j == N + 1
  <2>1. j # 0 /\ gs[j] = f
    BY <1>1
  <2> HIDE DEF j
  <2>2. VisibleIn(gs, j) = IF f.kind = "new" THEN f.seen ELSE f.seen \cup {f.depth + 1}
    BY <2>1 DEF VisibleIn
  <2>3. QED
    BY <2>2 DEF j
<1>7. Innermost(gs, N + 1) => VisibleIn(gs, N + 1) = Open(gs, N + 1)
  BY <1>3, <1>4, <1>5, <1>6
<1>8. f.seen = VisibleIn(gs, N + 1 - 1)
  BY <1>1, <1>3, N + 1 - 1 = N
<1>9. FrameScope(gs, N + 1)
  BY <1>1, <1>7, <1>8 DEF FrameScope
<1>10. QED
  BY <1>9 DEF gs

\* The next iteration sees what its fold sees and its own depth: the depths
\* between them belong to earlier iterations, which nexts have closed.
LEMMA ScopeOfNext ==
  ASSUME NEW fs \in Seq(FrameSet), \A n \in 1 .. Len(fs) : FrameOK(fs, n),
         NEW f \in FrameSet, f.depth = DepthIn(fs, Len(fs)), f.kind = "next",
         NEW k \in 1 .. Len(fs), fs[k].kind = "fold", fs[k].name = f.name, f.seen = fs[k].seen
  PROVE  FrameScope(Append(fs, f), Len(fs) + 1)
<1> DEFINE N == Len(fs)
           gs == Append(fs, f)
           a == fs[k].depth
           d == f.depth
<1>1. /\ N \in Nat /\ gs \in Seq(FrameSet) /\ Len(gs) = N + 1
      /\ gs[N + 1] = f /\ \A m \in 1 .. N : gs[m] = fs[m]
  BY AppendProperties, LenProperties
<1>2. \A m \in 1 .. N + 1 : FrameDepths(gs, m)
  <2>1. FrameDepths(gs, N + 1)
    BY PushedDepths
  <2> HIDE DEF gs
  <2>2. ASSUME NEW m \in 1 .. N PROVE FrameDepths(gs, m)
    <3>1. m \in Nat /\ m # 0 /\ \A j \in 1 .. m : gs[j] = fs[j]
      BY <1>1
    <3>2. QED
      BY <3>1, FrameOKPrefix DEF FrameOK
  <2>3. QED
    BY <1>1, <2>1, <2>2
<1> HIDE DEF gs
<1>3. \A m \in 1 .. N + 1 : gs[m].depth \in Nat /\ gs[m].kind \in {"fold", "next", "new"}
  BY <1>1, FrameTypes
<1>4. /\ k \in Nat /\ k \in 1 .. N + 1 /\ N + 1 \in 1 .. N + 1 /\ k - 1 \in 0 .. N
      /\ gs[k] = fs[k] /\ a \in Nat /\ d \in Nat
  BY <1>1, <1>3
<1>5. SUFFICES ASSUME Innermost(gs, N + 1) PROVE VisibleIn(gs, N + 1) = Open(gs, N + 1)
  BY <1>1 DEF FrameScope, gs
<1>6. \A j \in k + 1 .. N + 1 : gs[j].kind # "fold"
  BY <1>1, <1>4, <1>5 DEF Innermost
<1>7. f.seen = Open(fs, k - 1)
  <2>1. FrameOK(fs, k) /\ f.seen = VisibleIn(fs, k - 1)
    BY DEF FrameOK, FrameScope
  <2>2. Innermost(gs, k - 1)
    BY <1>4, <1>5 DEF Innermost
  <2>3. \A j \in 1 .. k - 1 : gs[j] = fs[j]
    BY <1>1, <1>4
  <2>4. Innermost(fs, k - 1)
    <3> DEFINE j == k - 1
    <3>1. j \in Nat /\ j \in 0 .. j /\ Innermost(gs, j) /\ \A m \in 1 .. j : gs[m] = fs[m]
      BY <1>4, <2>2, <2>3
    <3> HIDE DEF j
    <3>2. Innermost(fs, j)
      BY <3>1, FrameOKPrefix
    <3>3. QED
      BY <3>2 DEF j
  <2>5. QED
    BY <1>4, <2>1, <2>4, VisibleIsOpen
<1>8. DepthIn(fs, k - 1) = a /\ \A m \in 1 .. k - 1 : Inner(gs[m]) <= a
  BY <1>2, <1>4 DEF FrameOK, FrameDepths
<1>9. \A m \in k + 1 .. N + 1 : a + 1 <= gs[m].depth
  <2>1. \A m \in k + 1 .. N + 1 : m \in 1 .. N + 1 /\ k \in 1 .. m - 1
    BY <1>4
  <2>2. Inner(gs[k]) = a + 1
    BY <1>4 DEF Inner
  <2>3. QED
    BY <1>2, <2>1, <2>2 DEF FrameDepths
<1>10. \A e : e \in Open(fs, k - 1) <=>
                e \in 0 .. a /\ \A m \in 1 .. k - 1 : gs[m].kind = "next" => gs[m].depth # e
  <2>1. \A m \in 1 .. k - 1 : gs[m] = fs[m]
    BY <1>1, <1>4
  <2>2. QED
    BY <1>8, <2>1 DEF Open
<1>11. \A e : e \in Open(gs, N + 1) <=>
                e \in 0 .. d + 1 /\ \A m \in 1 .. N + 1 : gs[m].kind = "next" => gs[m].depth # e
  BY <1>1, <1>4 DEF Open, DepthIn, Inner
<1>12. \A m \in 1 .. N + 1 : m \in 1 .. k - 1 \/ m = k \/ m \in k + 1 .. N + 1
  BY <1>1, <1>4
<1>13. a + 1 <= d
  BY <1>1, <1>4, <1>9, N + 1 \in k + 1 .. N + 1
<1>14. ASSUME NEW e \in Open(fs, k - 1) PROVE e \in Open(gs, N + 1)
  <2>1. e \in 0 .. a /\ e \in 0 .. d + 1
    BY <1>4, <1>10, <1>13
  <2>2. ASSUME NEW m \in 1 .. N + 1, gs[m].kind = "next" PROVE gs[m].depth # e
    <3>1. CASE m \in 1 .. k - 1
      BY <1>10, <2>2, <3>1
    <3>2. CASE m = k
      BY <1>4, <2>2, <3>2
    <3>3. CASE m \in k + 1 .. N + 1
      BY <1>4, <1>9, <2>1, <3>3
    <3>4. QED
      BY <1>12, <3>1, <3>2, <3>3
  <2>3. QED
    BY <1>11, <2>1, <2>2
<1>15. d + 1 \in Open(gs, N + 1)
  <2>1. ASSUME NEW m \in 1 .. N + 1, gs[m].kind = "next" PROVE gs[m].depth # d + 1
    <3>1. CASE m = N + 1
      BY <1>1, <1>4, <3>1
    <3>2. CASE m # N + 1
      <4>1. m \in 1 .. N + 1 - 1
        BY <1>1, <3>2
      <4>2. Inner(gs[m]) <= d
        BY <1>1, <1>2, <1>4, <4>1 DEF FrameDepths
      <4>3. QED
        BY <1>3, <1>4, <2>1, <4>2 DEF Inner
    <3>3. QED
      BY <3>1, <3>2
  <2>2. QED
    BY <1>4, <1>11, <2>1
<1>16. ASSUME NEW e \in Open(gs, N + 1), e # d + 1 PROVE e \in Open(fs, k - 1)
  <2>1. e \in 0 .. d + 1 /\ e \in Nat /\ e <= d
    BY <1>4, <1>11, <1>16
  <2>2. CASE e <= a
    BY <1>4, <1>10, <1>11, <1>12, <2>1, <2>2
  <2>3. CASE e > a
    <3>1. e < DepthIn(gs, N + 1)
      BY <1>1, <1>4, <2>1 DEF DepthIn, Inner
    <3>2. PICK m \in 1 .. N + 1 : gs[m].kind # "new" /\ gs[m].depth = e
      BY <1>2, <1>4, <2>1, <3>1 DEF FrameDepths
    <3>3. gs[m].kind = "fold"
      BY <1>3, <1>11, <3>2
    <3>4. m \in 1 .. k - 1 \/ m = k
      BY <1>6, <1>12, <3>3
    <3>5. m # k
      BY <1>4, <2>1, <2>3, <3>2
    <3>6. Inner(gs[m]) <= a
      BY <1>8, <3>4, <3>5
    <3>7. QED
      BY <1>3, <1>4, <2>1, <2>3, <3>2, <3>3, <3>6 DEF Inner
  <2>4. QED
    BY <1>4, <2>1, <2>2, <2>3
<1>17. VisibleIn(gs, N + 1) = f.seen \cup {d + 1}
  BY <1>1 DEF VisibleIn
<1>18. QED
  BY <1>7, <1>14, <1>15, <1>16, <1>17

-----------------------------------------------------------------------------
(* The steps.                                                              *)

\* The iterators of the folds that are executed.
LEMMA FoldNamesPushed ==
  ASSUME NEW fs \in Seq(FrameSet), NEW f \in FrameSet
  PROVE  FoldNames(Append(fs, f)) =
           IF f.kind = "fold" THEN FoldNames(fs) \cup {f.name} ELSE FoldNames(fs)
<1> DEFINE N == Len(fs)
           gs == Append(fs, f)
<1>1. /\ N \in Nat /\ Len(gs) = N + 1 /\ gs[N + 1] = f
      /\ \A m \in 1 .. N : gs[m] = fs[m]
  BY AppendProperties, LenProperties
<1> HIDE DEF gs
<1>2. 1 .. N + 1 = (1 .. N) \cup {N + 1}
  BY <1>1
<1>3. QED
  BY <1>1, <1>2 DEF FoldNames, gs

LEMMA FoldNamesPopped ==
  ASSUME NEW fs \in Seq(FrameSet), fs # <<>>, FrameIterators(fs, Len(fs))
  PROVE  FoldNames(Front(fs)) = IF Last(fs).kind = "fold" THEN FoldNames(fs) \ {Last(fs).name}
                                                          ELSE FoldNames(fs)
<1> DEFINE N == Len(fs)
           gs == Front(fs)
<1>1. /\ N \in Nat /\ N >= 1 /\ Len(gs) = N - 1 /\ Last(fs) = fs[N]
      /\ \A m \in 1 .. N - 1 : gs[m] = fs[m]
  BY FrontProperties DEF Last
<1> HIDE DEF gs
<1>2. 1 .. N = (1 .. N - 1) \cup {N}
  BY <1>1
<1>3. fs[N].kind = "fold" =>
        \A m \in 1 .. N - 1 : fs[m].kind = "fold" => fs[m].name # fs[N].name
  BY DEF FrameIterators
<1>4. \A a : a \in FoldNames(gs) <=> \E m \in 1 .. N - 1 : fs[m].kind = "fold" /\ a = fs[m].name
  BY <1>1 DEF FoldNames
<1>5. \A a : a \in FoldNames(fs) <=>
               \/ \E m \in 1 .. N - 1 : fs[m].kind = "fold" /\ a = fs[m].name
               \/ fs[N].kind = "fold" /\ a = fs[N].name
  BY <1>2 DEF FoldNames
<1>6. CASE fs[N].kind = "fold"
  <2>1. \A a : a \in FoldNames(gs) <=> a \in FoldNames(fs) /\ a # fs[N].name
    BY <1>3, <1>4, <1>5, <1>6
  <2>2. FoldNames(gs) = FoldNames(fs) \ {fs[N].name}
    BY <2>1
  <2>3. QED
    BY <1>1, <1>6, <2>2 DEF gs
<1>7. CASE fs[N].kind # "fold"
  <2>1. FoldNames(gs) = FoldNames(fs)
    BY <1>4, <1>5, <1>7
  <2>2. QED
    BY <1>1, <1>7, <2>1 DEF gs
<1>8. QED
  BY <1>6, <1>7

\* What is in scope, in the words of the invariant.
LEMMA VisibleNow ==
  ASSUME ScopesInv
  PROVE  Visible = VisibleIn(frames, Len(frames)) /\ Visible \in SUBSET Nat
<1>1. frames \in Seq(FrameSet) /\ Len(frames) \in Nat
  BY LenProperties DEF ScopesInv, TypeInv
<1>2. CASE frames = <<>>
  <2>1. Len(frames) = 0 /\ Visible = {0}
    BY <1>2 DEF Visible
  <2>2. QED
    BY <2>1 DEF VisibleIn
<1>3. CASE frames # <<>>
  <2>1. Len(frames) # 0 /\ Len(frames) \in 1 .. Len(frames)
    BY <1>1, <1>3, EmptySeq
  <2>2. Visible = VisibleIn(frames, Len(frames))
    BY <1>3, <2>1 DEF Visible, VisibleIn, Last
  <2>3. frames[Len(frames)].seen \in SUBSET Nat /\ frames[Len(frames)].depth + 1 \in Nat
    BY <1>1, <2>1, FrameTypes
  <2>4. QED
    BY <1>3, <2>2, <2>3 DEF Visible, Last
<1>4. QED
  BY <1>2, <1>3

\* An instruction starts: what follows for the stack.
LEMMA InstructionStarts ==
  ASSUME ScopesInv, NEW f \in FrameSet, frames' = Append(frames, f),
         f.depth = depth, f.cells = cells,
         f.name \in (IF f.kind = "new" THEN Names ELSE Iterators),
         FrameIterators(Append(frames, f), Len(frames) + 1),
         FrameScope(Append(frames, f), Len(frames) + 1)
  PROVE  /\ frames' \in Seq(FrameSet) /\ frames' # <<>> /\ Last(frames') = f
         /\ \A n \in 1 .. Len(frames') :
              frames'[n].name \in IF frames'[n].kind = "new" THEN Names ELSE Iterators
         /\ \A n \in 1 .. Len(frames') : FrameOK(frames', n)
         /\ DepthIn(frames', Len(frames')) = Inner(f)
         /\ FoldNames(frames') = IF f.kind = "fold" THEN FoldNames(frames) \cup {f.name}
                                                    ELSE FoldNames(frames)
         /\ f.kind = "new" => Open(frames', Len(frames')) = allowed
         /\ f.kind = "fold" => Open(frames', Len(frames')) = allowed \cup {depth + 1}
         /\ f.kind = "next" =>
              Open(frames', Len(frames')) = (allowed \ {depth}) \cup {depth + 1}
<1> DEFINE N == Len(frames)
           gs == Append(frames, f)
<1>1. frames \in Seq(FrameSet) /\ N \in Nat
  BY LenProperties DEF ScopesInv, TypeInv
<1>2. /\ gs \in Seq(FrameSet) /\ gs # <<>> /\ Last(gs) = f /\ Len(gs) = N + 1
      /\ gs[N + 1] = f /\ \A m \in 1 .. N : gs[m] = frames[m]
  BY <1>1, FrontAppend, AppendProperties
<1>3. \A n \in 1 .. N + 1 : FrameOK(gs, n)
  BY <1>1, Pushed DEF ScopesInv
<1>4. FoldNames(gs) = IF f.kind = "fold" THEN FoldNames(frames) \cup {f.name}
                                         ELSE FoldNames(frames)
  BY <1>1, FoldNamesPushed
<1> HIDE DEF gs
<1>5. Open(gs, N) = allowed
  BY <1>1, <1>2, N \in 0 .. N, FrameOKPrefix DEF ScopesInv
<1>6. FrameDepths(gs, N + 1)
  BY <1>1, <1>3 DEF FrameOK
<1>7. /\ f.kind = "new" => Open(gs, N + 1) = allowed
      /\ f.kind = "fold" => Open(gs, N + 1) = allowed \cup {depth + 1}
      /\ f.kind = "next" => Open(gs, N + 1) = (allowed \ {depth}) \cup {depth + 1}
  <2>1. N + 1 \in 1 .. Len(gs) /\ N + 1 - 1 = N
    BY <1>1, <1>2
  <2>2. QED
    BY <1>2, <1>5, <1>6, <2>1, OpenStep
<1>8. DepthIn(gs, N + 1) = Inner(f)
  BY <1>1, <1>2 DEF DepthIn
<1>9. \A n \in 1 .. N + 1 : gs[n].name \in IF gs[n].kind = "new" THEN Names ELSE Iterators
  <2>1. \A n \in 1 .. N : frames[n].name \in IF frames[n].kind = "new" THEN Names ELSE Iterators
    BY DEF ScopesInv, TypeInv
  <2>2. \A n \in 1 .. N + 1 : n \in 1 .. N \/ n = N + 1
    BY <1>1
  <2>3. QED
    BY <1>2, <2>1, <2>2
<1>10. frames' = gs
  BY DEF gs
<1>11. QED
  BY <1>2, <1>3, <1>4, <1>7, <1>8, <1>9, <1>10

\* An instruction ends: what follows for the stack.
LEMMA InstructionEnds ==
  ASSUME ScopesInv, frames # <<>>, frames' = Front(frames)
  PROVE  LET f == Last(frames) IN
         /\ f \in FrameSet /\ f.name \in (IF f.kind = "new" THEN Names ELSE Iterators)
         /\ Kept(f, cells) /\ depth = Inner(f)
         /\ Below(f.cells, f.depth)
         /\ frames' \in Seq(FrameSet)
         /\ \A n \in 1 .. Len(frames') :
              frames'[n].name \in IF frames'[n].kind = "new" THEN Names ELSE Iterators
         /\ \A n \in 1 .. Len(frames') : FrameOK(frames', n)
         /\ DepthIn(frames', Len(frames')) = f.depth
         /\ frames' # <<>> => /\ Kept(Last(frames'), f.cells)
                              /\ Inner(Last(frames')) = f.depth
                              /\ Last(frames') \in FrameSet
         /\ FoldNames(frames') = IF f.kind = "fold" THEN FoldNames(frames) \ {f.name}
                                                    ELSE FoldNames(frames)
         /\ f.kind = "new" => Open(frames', Len(frames')) = allowed
         /\ f.kind = "fold" => Open(frames', Len(frames')) = allowed \ {depth}
         /\ f.kind = "next" =>
              Open(frames', Len(frames')) = (allowed \ {depth}) \cup {depth - 1}
<1> DEFINE N == Len(frames)
           f == Last(frames)
           gs == Front(frames)
<1>1. frames \in Seq(FrameSet) /\ \A n \in 1 .. N : FrameOK(frames, n)
  BY DEF ScopesInv, TypeInv
<1>2. /\ N \in Nat /\ N >= 1 /\ f \in FrameSet /\ gs \in Seq(FrameSet) /\ Len(gs) = N - 1
      /\ \A i \in 1 .. N - 1 : gs[i] = frames[i]
  BY <1>1, FrontProperties
<1>3. N \in 1 .. N /\ f = frames[N] /\ N # 0
  BY <1>2 DEF Last
<1>4. /\ \A n \in 1 .. Len(gs) : FrameOK(gs, n)
      /\ DepthIn(gs, N - 1) = f.depth /\ Open(gs, N - 1) = Open(frames, N - 1)
      /\ gs # <<>> => /\ Kept(Last(gs), f.cells) /\ Inner(Last(gs)) = f.depth
                      /\ Last(gs) \in FrameSet
      /\ Below(f.cells, f.depth)
  BY <1>1, Popped
<1>5. FoldNames(gs) = IF f.kind = "fold" THEN FoldNames(frames) \ {f.name} ELSE FoldNames(frames)
  BY <1>1, <1>3, FoldNamesPopped DEF FrameOK
<1> HIDE DEF gs
<1>6. depth = Inner(f) /\ f.depth \in Nat /\ Kept(f, cells)
  BY <1>1, <1>3, FrameTypes DEF ScopesInv, DepthIn
<1>7. FrameDepths(frames, N) /\ allowed = Open(frames, N)
  BY <1>1, <1>3 DEF FrameOK, ScopesInv
<1>8. /\ f.kind = "new" => Open(gs, N - 1) = allowed
      /\ f.kind = "fold" => Open(gs, N - 1) = allowed \ {f.depth + 1}
      /\ f.kind = "next" => Open(gs, N - 1) = (allowed \ {f.depth + 1}) \cup {f.depth}
  BY <1>1, <1>3, <1>4, <1>7, OpenStep
<1>9. f.kind # "new" => depth = f.depth + 1 /\ depth - 1 = f.depth
  BY <1>6 DEF Inner
<1>10. \A n \in 1 .. N : frames[n].name \in IF frames[n].kind = "new" THEN Names ELSE Iterators
  BY DEF ScopesInv, TypeInv
<1>11. /\ \A n \in 1 .. N - 1 : gs[n].name \in IF gs[n].kind = "new" THEN Names ELSE Iterators
       /\ f.name \in IF f.kind = "new" THEN Names ELSE Iterators
  BY <1>2, <1>3, <1>10
<1>12. frames' = gs
  BY DEF gs
<1> HIDE DEF f, N
<1>13. QED
  BY <1>2, <1>4, <1>5, <1>6, <1>8, <1>9, <1>11, <1>12 DEF f

\* An error changes nothing else.
LEMMA FailKeeps ==
  ASSUME ScopesInv, NEW why, why # "ScalarsStateCorrupted", Fail(why)
  PROVE  ScopesInv'
  BY DEF Fail, ScopesInv, TypeInv

\* Setting a cell of the present depth.
LEMMA RowSet ==
  ASSUME ScopesInv, NEW x \in Names, NEW row \in Seq(CellSet),
         \A k \in 1 .. Len(row) : row[k].depth <= depth,
         cells' = [cells EXCEPT ![x] = row]
  PROVE  cells' \in Rows /\ Below(cells', depth) /\ cells'[x] = row
         /\ \A y \in Names \ {x} : cells'[y] = cells[y]
<1>1. cells \in Rows /\ Below(cells, depth)
  BY DEF ScopesInv, TypeInv
<1>2. /\ cells' \in Rows /\ cells'[x] = row
      /\ \A y \in Names \ {x} : cells'[y] = cells[y]
  BY <1>1 DEF Rows
<1>3. QED
  BY <1>1, <1>2 DEF Below

LEMMA SetValueKeeps ==
  ASSUME ScopesInv, NEW x \in Names, NEW v \in Vals, SetValue(x, v)
  PROVE  ScopesInv'
<1>1. CASE Fail("ShadowingIsNotAllowed")
  BY <1>1, FailKeeps
<1>2. CASE ~Fail("ShadowingIsNotAllowed")
  <2> DEFINE row == SetAt(cells[x], depth, v)
  <2>1. /\ cells' = [cells EXCEPT ![x] = row]
        /\ UNCHANGED <<cursors, allowed, depth, frames, status>>
    BY <1>2 DEF SetValue, Set, SetAt
  <2>2. /\ cells[x] \in Seq(CellSet) /\ depth \in Nat /\ v \in Value
        /\ \A k \in 1 .. Len(cells[x]) : cells[x][k].depth <= depth
    BY DEF ScopesInv, TypeInv, Rows, Below, Value
  <2>3. row \in Seq(CellSet) /\ \A k \in 1 .. Len(row) : row[k].depth <= depth
    BY <2>2, SetAtProperties, SetAtBelow
  <2>4. \A y \in Names : y = x => Grown(cells[y], row, depth)
    BY <2>2 DEF Grown
  <2> HIDE DEF row
  <2>5. /\ cells' \in Rows /\ Below(cells', depth) /\ cells'[x] = row
        /\ \A y \in Names \ {x} : cells'[y] = cells[y]
    BY <2>1, <2>3, RowSet
  <2>6. \A y \in Names : Grown(cells[y], cells'[y], depth)
    BY <2>4, <2>5 DEF Grown
  <2>7. ASSUME frames # <<>> PROVE Kept(Last(frames), cells')
    <3>1. frames \in Seq(FrameSet) /\ Kept(Last(frames), cells) /\ depth = DepthIn(frames, Len(frames))
      BY <2>7 DEF ScopesInv, TypeInv
    <3>2. Last(frames) \in FrameSet /\ Len(frames) >= 1 /\ Len(frames) \in Nat
      BY <2>7, <3>1, FrontProperties
    <3>3. Inner(Last(frames)) = depth
      BY <3>1, <3>2 DEF DepthIn, Last
    <3>4. QED
      BY <2>6, <3>1, <3>2, <3>3, KeptGrown
  <2>8. QED
    BY <2>1, <2>5, <2>7 DEF ScopesInv, TypeInv
<1>3. QED
  BY <1>1, <1>2

\* The record of an instruction that starts.
LEMMA FrameType ==
  ASSUME ScopesInv, NEW kind \in {"fold", "next", "new"}, NEW name \in Names \cup Iterators,
         NEW seen \in SUBSET Nat
  PROVE  LET f == Frame(kind, name, seen) IN
         /\ f \in FrameSet /\ f.kind = kind /\ f.name = name /\ f.depth = depth
         /\ f.cells = cells /\ f.seen = seen
  BY DEF Frame, FrameSet, ScopesInv, TypeInv

\* At its start the rows inside a fold or a next are those outside.
LEMMA KeptAtStart ==
  ASSUME NEW f \in FrameSet, f.kind # "new"
  PROVE  Kept(f, f.cells)
  BY DEF Kept, Grown

\* Rows are also not deeper than a greater depth.
LEMMA BelowDeeper ==
  ASSUME NEW rows \in Rows, NEW d \in Nat, Below(rows, d)
  PROVE  Below(rows, d + 1)
<1>1. ASSUME NEW x \in Names, NEW k \in 1 .. Len(rows[x]) PROVE rows[x][k].depth <= d + 1
  <2>1. rows[x][k] \in CellSet /\ rows[x][k].depth <= d
    BY ElementOfSeq DEF Rows, Below
  <2>2. QED
    BY <2>1 DEF CellSet
<1>2. QED
  BY <1>1 DEF Below

LEMMA FoldStartKeeps ==
  ASSUME ScopesInv, NEW i \in Iterators, FoldStart(i)
  PROVE  ScopesInv'
<1>1. CASE i \in DOMAIN cursors
  BY <1>1, FailKeeps DEF FoldStart
<1>2. CASE i \notin DOMAIN cursors
  <2> DEFINE f == Frame("fold", i, Visible)
             N == Len(frames)
  <2>1. /\ depth' = depth + 1 /\ allowed' = allowed \cup {depth + 1}
        /\ cursors' = [j \in DOMAIN cursors \cup {i} |-> IF j = i THEN 0 ELSE cursors[j]]
        /\ frames' = Append(frames, f) /\ cells' = cells /\ status' = status
    BY <1>2 DEF FoldStart
  <2>2. /\ cells \in Rows /\ cursors \in Cursors /\ depth \in Nat
        /\ frames \in Seq(FrameSet) /\ N \in Nat
        /\ \A n \in 1 .. N : FrameOK(frames, n)
        /\ depth = DepthIn(frames, N) /\ DOMAIN cursors = FoldNames(frames)
        /\ Below(cells, depth) /\ status # "ScalarsStateCorrupted"
    BY LenProperties DEF ScopesInv, TypeInv
  <2>3. /\ f \in FrameSet /\ f.kind = "fold" /\ f.name = i /\ f.depth = depth
        /\ f.cells = cells /\ f.seen = VisibleIn(frames, N)
    BY VisibleNow, FrameType
  <2> HIDE DEF f
  <2>4. FrameScope(Append(frames, f), N + 1)
    BY <2>2, <2>3, ScopeOfFoldOrNew
  <2>5. FrameIterators(Append(frames, f), N + 1)
    <3>1. \A m \in 1 .. N : frames[m].kind = "fold" => frames[m].name # i
      BY <1>2, <2>2 DEF FoldNames
    <3>2. /\ Append(frames, f)[N + 1] = f
          /\ \A m \in 1 .. N : Append(frames, f)[m] = frames[m]
      BY <2>2, <2>3, AppendProperties
    <3>3. QED
      BY <2>2, <2>3, <3>1, <3>2, N + 1 - 1 = N DEF FrameIterators
  <2>6. /\ frames' \in Seq(FrameSet) /\ frames' # <<>> /\ Last(frames') = f
        /\ \A n \in 1 .. Len(frames') :
             frames'[n].name \in IF frames'[n].kind = "new" THEN Names ELSE Iterators
        /\ \A n \in 1 .. Len(frames') : FrameOK(frames', n)
        /\ DepthIn(frames', Len(frames')) = Inner(f)
        /\ FoldNames(frames') = FoldNames(frames) \cup {i}
        /\ Open(frames', Len(frames')) = allowed \cup {depth + 1}
    BY <2>1, <2>3, <2>4, <2>5, InstructionStarts
  <2>7. Inner(f) = depth + 1 /\ Kept(f, cells)
    BY <2>3, KeptAtStart DEF Inner
  <2>8. Below(cells, depth + 1)
    BY <2>2, BelowDeeper
  <2>9. cursors' \in Cursors /\ DOMAIN cursors' = DOMAIN cursors \cup {i}
    <3>1. PICK S \in SUBSET Iterators : cursors \in [S -> Nat]
      BY <2>2 DEF Cursors
    <3>2. cursors' \in [S \cup {i} -> Nat] /\ S \cup {i} \in SUBSET Iterators
      BY <2>1, <3>1
    <3>3. QED
      BY <2>1, <3>2 DEF Cursors
  <2>10. depth' \in Nat
    BY <2>1, <2>2
  <2>11. QED
    BY <2>1, <2>2, <2>6, <2>7, <2>8, <2>9, <2>10 DEF ScopesInv, TypeInv
<1>3. QED
  BY <1>1, <1>2

\* FoldOf finds a fold of the iterator.
LEMMA FoldOfIterator ==
  ASSUME ScopesInv, NEW i \in DOMAIN cursors
  PROVE  /\ FoldOf(i) \in 1 .. Len(frames)
         /\ frames[FoldOf(i)].kind = "fold" /\ frames[FoldOf(i)].name = i
<1>1. DOMAIN frames = 1 .. Len(frames)
  BY LenProperties DEF ScopesInv, TypeInv
<1>2. \E n \in DOMAIN frames : frames[n].kind = "fold" /\ frames[n].name = i
  BY <1>1 DEF ScopesInv, FoldNames
<1>3. QED
  BY <1>1, <1>2 DEF FoldOf

\* A cursor that moves does not change whose cursors there are.
LEMMA CursorMoved ==
  ASSUME cursors \in Cursors, NEW i \in DOMAIN cursors, NEW n \in Nat,
         cursors' = [cursors EXCEPT ![i] = n]
  PROVE  cursors' \in Cursors /\ DOMAIN cursors' = DOMAIN cursors
<1>1. PICK S \in SUBSET Iterators : cursors \in [S -> Nat]
  BY DEF Cursors
<1>2. cursors' \in [S -> Nat] /\ DOMAIN cursors = S
  BY <1>1
<1>3. QED
  BY <1>2 DEF Cursors

LEMMA NextBeforeKeeps ==
  ASSUME ScopesInv, NEW i \in Iterators, NextBefore(i)
  PROVE  ScopesInv'
<1> DEFINE F == FoldOf(i)
           N == Len(frames)
           f == Frame("next", i, frames[F].seen)
<1>1. /\ i \in DOMAIN cursors
      /\ depth' = depth + 1 /\ allowed' = (allowed \ {depth}) \cup {depth + 1}
      /\ cursors' = [cursors EXCEPT ![i] = cursors[i] + 1]
      /\ frames' = Append(frames, f) /\ cells' = cells /\ status' = status
  BY DEF NextBefore
<1>2. /\ cells \in Rows /\ cursors \in Cursors /\ depth \in Nat
      /\ frames \in Seq(FrameSet) /\ N \in Nat
      /\ \A n \in 1 .. N : FrameOK(frames, n)
      /\ depth = DepthIn(frames, N) /\ DOMAIN cursors = FoldNames(frames)
      /\ Below(cells, depth) /\ status # "ScalarsStateCorrupted"
  BY LenProperties DEF ScopesInv, TypeInv
<1>3. F \in 1 .. N /\ frames[F].kind = "fold" /\ frames[F].name = i /\ frames[F].seen \in SUBSET Nat
  <2>1. F \in 1 .. N /\ frames[F].kind = "fold" /\ frames[F].name = i
    BY <1>1, FoldOfIterator
  <2> HIDE DEF F
  <2>2. QED
    BY <1>2, <2>1, FrameTypes
<1> HIDE DEF F
<1>4. /\ f \in FrameSet /\ f.kind = "next" /\ f.name = i /\ f.depth = depth
      /\ f.cells = cells /\ f.seen = frames[F].seen
  BY <1>3, FrameType
<1> HIDE DEF f
<1>5. FrameScope(Append(frames, f), N + 1)
  BY <1>2, <1>3, <1>4, ScopeOfNext
<1>6. FrameIterators(Append(frames, f), N + 1)
  <2>1. /\ Append(frames, f)[N + 1] = f
        /\ \A m \in 1 .. N : Append(frames, f)[m] = frames[m]
    BY <1>2, <1>4, AppendProperties
  <2>2. QED
    BY <1>2, <1>3, <1>4, <2>1, N + 1 - 1 = N DEF FrameIterators
<1>7. /\ frames' \in Seq(FrameSet) /\ frames' # <<>> /\ Last(frames') = f
      /\ \A n \in 1 .. Len(frames') :
           frames'[n].name \in IF frames'[n].kind = "new" THEN Names ELSE Iterators
      /\ \A n \in 1 .. Len(frames') : FrameOK(frames', n)
      /\ DepthIn(frames', Len(frames')) = Inner(f)
      /\ FoldNames(frames') = FoldNames(frames)
      /\ Open(frames', Len(frames')) = (allowed \ {depth}) \cup {depth + 1}
  BY <1>1, <1>4, <1>5, <1>6, InstructionStarts
<1>8. Inner(f) = depth + 1 /\ Kept(f, cells)
  BY <1>4, KeptAtStart DEF Inner
<1>9. Below(cells, depth + 1)
  BY <1>2, BelowDeeper
<1>10. cursors' \in Cursors /\ DOMAIN cursors' = DOMAIN cursors
  <2>1. cursors[i] + 1 \in Nat
    BY <1>1, <1>2 DEF Cursors
  <2>2. QED
    BY <1>1, <1>2, <2>1, CursorMoved
<1>11. depth' \in Nat
  BY <1>1, <1>2
<1>12. QED
  BY <1>1, <1>2, <1>7, <1>8, <1>9, <1>10, <1>11 DEF ScopesInv, TypeInv

LEMMA NewStartKeeps ==
  ASSUME ScopesInv, NEW x \in Names, NewStart(x)
  PROVE  ScopesInv'
<1> DEFINE N == Len(frames)
           f == Frame("new", x, Visible)
           row == Append(cells[x], Cell(depth, Unset))
<1>1. /\ cells' = [cells EXCEPT ![x] = row] /\ frames' = Append(frames, f)
      /\ UNCHANGED <<cursors, allowed, depth, status>>
  BY DEF NewStart
<1>2. /\ cells \in Rows /\ cursors \in Cursors /\ depth \in Nat
      /\ frames \in Seq(FrameSet) /\ N \in Nat
      /\ \A n \in 1 .. N : FrameOK(frames, n)
      /\ depth = DepthIn(frames, N) /\ DOMAIN cursors = FoldNames(frames)
      /\ Below(cells, depth) /\ status # "ScalarsStateCorrupted"
  BY LenProperties DEF ScopesInv, TypeInv
<1>3. /\ f \in FrameSet /\ f.kind = "new" /\ f.name = x /\ f.depth = depth
      /\ f.cells = cells /\ f.seen = VisibleIn(frames, N)
  BY VisibleNow, FrameType
<1> HIDE DEF f
<1>4. FrameScope(Append(frames, f), N + 1)
  BY <1>2, <1>3, ScopeOfFoldOrNew
<1>5. FrameIterators(Append(frames, f), N + 1)
  <2>1. Append(frames, f)[N + 1] = f
    BY <1>2, <1>3, AppendProperties
  <2>2. QED
    BY <1>3, <2>1 DEF FrameIterators
<1>6. /\ frames' \in Seq(FrameSet) /\ frames' # <<>> /\ Last(frames') = f
      /\ \A n \in 1 .. Len(frames') :
           frames'[n].name \in IF frames'[n].kind = "new" THEN Names ELSE Iterators
      /\ \A n \in 1 .. Len(frames') : FrameOK(frames', n)
      /\ DepthIn(frames', Len(frames')) = Inner(f)
      /\ FoldNames(frames') = FoldNames(frames)
      /\ Open(frames', Len(frames')) = allowed
  BY <1>1, <1>3, <1>4, <1>5, InstructionStarts
<1>7. /\ cells[x] \in Seq(CellSet) /\ Unset \in Value
      /\ \A k \in 1 .. Len(cells[x]) : cells[x][k].depth <= depth
  BY <1>2 DEF Rows, Below, Value
<1>8. row \in Seq(CellSet) /\ \A k \in 1 .. Len(row) : row[k].depth <= depth
  <2>1. Cell(depth, Unset) \in CellSet
    BY <1>2, <1>7, CellType
  <2>2. row \in Seq(CellSet) /\ Len(row) = Len(cells[x]) + 1
    BY <1>7, <2>1, FrontAppend
  <2>3. QED
    BY <1>2, <1>7, <2>2, SetAtBelow
<1>9. Covered(cells[x], row, depth)
  BY <1>7 DEF Covered
<1> HIDE DEF row
<1>10. /\ cells' \in Rows /\ Below(cells', depth) /\ cells'[x] = row
       /\ \A y \in Names \ {x} : cells'[y] = cells[y]
  BY <1>1, <1>8, RowSet
<1>11. Inner(f) = depth /\ Kept(f, cells')
  BY <1>3, <1>9, <1>10 DEF Kept, Grown, Inner
<1>12. QED
  BY <1>1, <1>2, <1>6, <1>10, <1>11 DEF ScopesInv, TypeInv

\* The end of a fold or a next gives back the rows of its start.
LEMMA ScopeEnds ==
  ASSUME ScopesInv, frames # <<>>, Last(frames).kind # "new", frames' = Front(frames),
         cells' = Cleanup(cells, depth - 1)
  PROVE  /\ cells' = Last(frames).cells /\ cells' \in Rows
         /\ depth - 1 = Last(frames).depth /\ depth - 1 \in Nat
         /\ Below(cells', depth - 1)
         /\ frames' # <<>> => Kept(Last(frames'), cells')
<1> DEFINE f == Last(frames)
<1>1. /\ f \in FrameSet /\ f.kind # "new" /\ Kept(f, cells) /\ depth = Inner(f)
      /\ Below(f.cells, f.depth)
      /\ frames' # <<>> => Kept(Last(frames'), f.cells)
  BY InstructionEnds
<1> HIDE DEF f
<1>2. f.depth \in Nat /\ depth - 1 = f.depth /\ f.cells \in Rows /\ cells \in Rows
  BY <1>1 DEF FrameSet, Inner, ScopesInv, TypeInv
<1>3. cells' = f.cells
  BY <1>1, <1>2, CleanupRestores
<1>4. QED
  BY <1>1, <1>2, <1>3 DEF f

LEMMA FoldEndKeeps ==
  ASSUME ScopesInv, FoldEnd
  PROVE  ScopesInv'
<1> DEFINE f == Last(frames)
<1>1. /\ frames # <<>> /\ f.kind = "fold"
      /\ depth' = depth - 1 /\ allowed' = allowed \ {depth}
      /\ cells' = Cleanup(cells, depth - 1) /\ cursors' = Removed(f.name)
      /\ frames' = Front(frames) /\ status' = status
  BY DEF FoldEnd, Inside
<1>2. /\ cells' = f.cells /\ cells' \in Rows /\ depth - 1 = f.depth /\ depth - 1 \in Nat
      /\ Below(cells', depth - 1)
      /\ frames' # <<>> => Kept(Last(frames'), cells')
  BY <1>1, ScopeEnds
<1>3. /\ frames' \in Seq(FrameSet)
      /\ \A n \in 1 .. Len(frames') :
           frames'[n].name \in IF frames'[n].kind = "new" THEN Names ELSE Iterators
      /\ \A n \in 1 .. Len(frames') : FrameOK(frames', n)
      /\ DepthIn(frames', Len(frames')) = f.depth
      /\ FoldNames(frames') = FoldNames(frames) \ {f.name}
      /\ Open(frames', Len(frames')) = allowed \ {depth}
  BY <1>1, InstructionEnds
<1> HIDE DEF f
<1>4. cursors' \in Cursors /\ DOMAIN cursors' = DOMAIN cursors \ {f.name}
  <2>1. PICK S \in SUBSET Iterators : cursors \in [S -> Nat]
    BY DEF ScopesInv, TypeInv, Cursors
  <2>2. cursors' \in [S \ {f.name} -> Nat] /\ S \ {f.name} \in SUBSET Iterators
    BY <1>1, <2>1 DEF Removed
  <2>3. QED
    BY <2>1, <2>2 DEF Cursors
<1>5. DOMAIN cursors = FoldNames(frames) /\ status # "ScalarsStateCorrupted"
  BY DEF ScopesInv
<1>6. QED
  BY <1>1, <1>2, <1>3, <1>4, <1>5 DEF ScopesInv, TypeInv

\* The end of a next, with whatever cursors.
LEMMA LeaveNextKeeps ==
  ASSUME ScopesInv, LeaveNext, cursors' \in Cursors, DOMAIN cursors' = DOMAIN cursors
  PROVE  ScopesInv'
<1> DEFINE f == Last(frames)
<1>1. /\ frames # <<>> /\ f.kind = "next"
      /\ depth' = depth - 1 /\ allowed' = (allowed \ {depth}) \cup {depth - 1}
      /\ cells' = Cleanup(cells, depth - 1)
      /\ frames' = Front(frames) /\ status' = status
  BY DEF LeaveNext, Inside
<1>2. /\ cells' = f.cells /\ cells' \in Rows /\ depth - 1 = f.depth /\ depth - 1 \in Nat
      /\ Below(cells', depth - 1)
      /\ frames' # <<>> => Kept(Last(frames'), cells')
  BY <1>1, ScopeEnds
<1>3. /\ frames' \in Seq(FrameSet)
      /\ \A n \in 1 .. Len(frames') :
           frames'[n].name \in IF frames'[n].kind = "new" THEN Names ELSE Iterators
      /\ \A n \in 1 .. Len(frames') : FrameOK(frames', n)
      /\ DepthIn(frames', Len(frames')) = f.depth
      /\ FoldNames(frames') = FoldNames(frames)
      /\ Open(frames', Len(frames')) = (allowed \ {depth}) \cup {depth - 1}
  BY <1>1, InstructionEnds
<1> HIDE DEF f
<1>4. DOMAIN cursors = FoldNames(frames) /\ status # "ScalarsStateCorrupted"
  BY DEF ScopesInv
<1>5. QED
  BY <1>1, <1>2, <1>3, <1>4 DEF ScopesInv, TypeInv

LEMMA NextAfterKeeps ==
  ASSUME ScopesInv, NextAfter
  PROVE  ScopesInv'
<1> DEFINE N == Len(frames)
           i == Last(frames).name
<1>1. LeaveNext /\ cursors' = [cursors EXCEPT ![i] = Prev(cursors[i])]
  BY DEF NextAfter
<1>2. frames \in Seq(FrameSet) /\ frames # <<>> /\ Last(frames).kind = "next"
  BY <1>1 DEF LeaveNext, Inside, ScopesInv, TypeInv
<1>3. N \in Nat /\ N \in 1 .. N
  BY <1>2, FrontProperties
<1>4. FrameIterators(frames, N) /\ frames[N].kind = "next"
  BY <1>2, <1>3 DEF ScopesInv, FrameOK, Last
<1>5. PICK m \in 1 .. N - 1 : frames[m].kind = "fold" /\ frames[m].name = frames[N].name
  BY <1>4 DEF FrameIterators
<1>6. m \in 1 .. N /\ i = frames[m].name
  BY <1>3, <1>5 DEF Last
<1>7. i \in DOMAIN cursors
  BY <1>5, <1>6 DEF ScopesInv, FoldNames
<1> HIDE DEF i, N
<1>8. cursors \in Cursors /\ Prev(cursors[i]) \in Nat
  BY <1>7 DEF ScopesInv, TypeInv, Cursors, Prev
<1>9. cursors' \in Cursors /\ DOMAIN cursors' = DOMAIN cursors
  BY <1>1, <1>7, <1>8, CursorMoved
<1>10. QED
  BY <1>1, <1>9, LeaveNextKeeps

LEMMA NextFailsKeeps ==
  ASSUME ScopesInv, NextFails
  PROVE  ScopesInv'
<1>1. LeaveNext /\ cursors' = cursors /\ cursors \in Cursors
  BY DEF NextFails, ScopesInv, TypeInv
<1>2. QED
  BY <1>1, LeaveNextKeeps

\* What the end of a new does, which never fails.
LEMMA NewEndRestores ==
  ASSUME ScopesInv, NewEnd
  PROVE  LET f == Last(frames) IN
         /\ frames # <<>> /\ f.kind = "new"
         /\ cells' = [cells EXCEPT ![f.name] = f.cells[f.name]]
         /\ frames' = Front(frames)
         /\ UNCHANGED <<cursors, allowed, depth, status>>
<1> DEFINE N == Len(frames)
           f == Last(frames)
<1>1. frames # <<>> /\ f.kind = "new" /\ frames \in Seq(FrameSet) /\ Kept(f, cells)
  BY DEF NewEnd, Inside, ScopesInv, TypeInv
<1>2. N \in 1 .. N /\ f = frames[N] /\ f \in FrameSet /\ cells \in Rows /\ N # 0
  BY <1>1, FrontProperties DEF Last, ScopesInv, TypeInv
<1>3. f.name \in Names /\ depth = f.depth
  BY <1>1, <1>2 DEF ScopesInv, TypeInv, DepthIn, Inner
<1>4. /\ cells[f.name] # <<>> /\ Last(cells[f.name]).depth = depth
      /\ Front(cells[f.name]) = f.cells[f.name]
  BY <1>1, <1>2, <1>3, NewFindsItsCell
<1>5. QED
  BY <1>1, <1>4 DEF NewEnd

LEMMA NewEndKeeps ==
  ASSUME ScopesInv, NewEnd
  PROVE  ScopesInv'
<1> DEFINE f == Last(frames)
           row == f.cells[f.name]
<1>1. /\ frames # <<>> /\ f.kind = "new"
      /\ cells' = [cells EXCEPT ![f.name] = row]
      /\ frames' = Front(frames)
      /\ UNCHANGED <<cursors, allowed, depth, status>>
  BY NewEndRestores
<1>2. /\ f \in FrameSet /\ f.name \in Names /\ Kept(f, cells) /\ depth = Inner(f)
      /\ Below(f.cells, f.depth) /\ frames' \in Seq(FrameSet)
      /\ \A n \in 1 .. Len(frames') :
           frames'[n].name \in IF frames'[n].kind = "new" THEN Names ELSE Iterators
      /\ \A n \in 1 .. Len(frames') : FrameOK(frames', n)
      /\ DepthIn(frames', Len(frames')) = f.depth
      /\ frames' # <<>> => /\ Kept(Last(frames'), f.cells)
                           /\ Inner(Last(frames')) = f.depth
                           /\ Last(frames') \in FrameSet
      /\ FoldNames(frames') = FoldNames(frames)
      /\ Open(frames', Len(frames')) = allowed
  BY <1>1, InstructionEnds
<1> HIDE DEF f
<1>3. f.depth \in Nat /\ f.depth = depth /\ f.cells \in Rows
  BY <1>1, <1>2 DEF FrameSet, Inner
<1>4. row \in Seq(CellSet) /\ \A k \in 1 .. Len(row) : row[k].depth <= depth
  BY <1>2, <1>3 DEF Rows, Below
<1> HIDE DEF row
<1>5. /\ cells' \in Rows /\ Below(cells', depth) /\ cells'[f.name] = row
      /\ \A y \in Names \ {f.name} : cells'[y] = cells[y]
  BY <1>1, <1>2, <1>4, RowSet
<1>6. \A y \in Names : Grown(f.cells[y], cells'[y], f.depth)
  <2>1. ASSUME NEW y \in Names, y # f.name PROVE Grown(f.cells[y], cells'[y], f.depth)
    BY <1>1, <1>2, <1>3, <1>5, <2>1 DEF Kept
  <2>2. Grown(f.cells[f.name], cells'[f.name], f.depth)
    BY <1>5 DEF Grown, row
  <2>3. QED
    BY <2>1, <2>2
<1>7. ASSUME frames' # <<>> PROVE Kept(Last(frames'), cells')
  BY <1>2, <1>6, <1>7, KeptGrown
<1>8. /\ cursors \in Cursors /\ depth \in Nat /\ DOMAIN cursors = FoldNames(frames)
      /\ status # "ScalarsStateCorrupted"
  BY DEF ScopesInv, TypeInv
<1>9. QED
  BY <1>1, <1>2, <1>3, <1>5, <1>7, <1>8 DEF ScopesInv, TypeInv

-----------------------------------------------------------------------------
(* The theorems.                                                           *)

\* At the start of a run nothing is executed and nothing is set.
LEMMA ScopesInit == Init => ScopesInv
<1> SUFFICES ASSUME Init PROVE ScopesInv
  OBVIOUS
<1>1. frames = <<>> /\ frames \in Seq(FrameSet) /\ Len(frames) = 0
  BY EmptySeq DEF Init
<1>2. cells \in Rows /\ Below(cells, 0)
  <2>1. \A x \in Names : cells[x] = <<>> /\ Len(cells[x]) = 0
    BY DEF Init
  <2>2. QED
    BY <2>1, EmptySeq DEF Init, Rows, Below
<1>3. cursors \in Cursors /\ DOMAIN cursors = {}
  <2>1. cursors \in [{} -> Nat]
    BY DEF Init
  <2>2. {} \in SUBSET Iterators
    OBVIOUS
  <2>3. QED
    BY <2>1, <2>2 DEF Cursors
<1>4. FoldNames(frames) = {}
  BY <1>1 DEF FoldNames
<1>5. depth = 0 /\ DepthIn(frames, Len(frames)) = 0 /\ status = "running" /\ allowed = {0}
  BY <1>1 DEF Init, DepthIn
<1>6. Open(frames, Len(frames)) = {0}
  BY <1>1, <1>5 DEF Open
<1>7. QED
  BY <1>1, <1>2, <1>3, <1>4, <1>5, <1>6 DEF ScopesInv, TypeInv

LEMMA ScopesStep == ScopesInv /\ [Next]_vars => ScopesInv'
<1> SUFFICES ASSUME ScopesInv, [Next]_vars PROVE ScopesInv'
  OBVIOUS
<1>1. CASE \E x \in Names : NewStart(x)
  BY <1>1, NewStartKeeps
<1>2. CASE \E x \in Names : \E v \in Vals : SetValue(x, v)
  BY <1>2, SetValueKeeps
<1>3. CASE \E i \in Iterators : FoldStart(i)
  BY <1>3, FoldStartKeeps
<1>4. CASE \E i \in Iterators : NextBefore(i)
  BY <1>4, NextBeforeKeeps
<1>5. CASE FoldEnd
  BY <1>5, FoldEndKeeps
<1>6. CASE NextAfter
  BY <1>6, NextAfterKeeps
<1>7. CASE NextFails
  BY <1>7, NextFailsKeeps
<1>8. CASE NewEnd
  BY <1>8, NewEndKeeps
<1>9. CASE UNCHANGED vars
  BY <1>9 DEF vars, ScopesInv, TypeInv
<1>10. QED
  BY <1>1, <1>2, <1>3, <1>4, <1>5, <1>6, <1>7, <1>8, <1>9 DEF Next

\* Whatever script is executed: the rows of cells relate to those at the start
\* of each instruction as Kept says, and allowed_depths holds the depths that no
\* next has closed.
THEOREM ScopesInvariant == Spec => []ScopesInv
<1>1. QED
  BY ScopesInit, ScopesStep, PTL DEF Spec

\* meet_new_end never raises ScalarsStateCorrupted.
THEOREM NewNeverCorrupts == Spec => []NeverCorrupted
<1>1. ScopesInv => NeverCorrupted
  BY DEF ScopesInv, NeverCorrupted
<1>2. QED
  BY <1>1, ScopesInvariant, PTL

\* The next of a fold belongs to the fold that FoldOf finds, since an iterator
\* has one.
LEMMA InnermostNow ==
  ASSUME ScopesInv, NextsInnermost
  PROVE  Innermost(frames, Len(frames))
<1> DEFINE N == Len(frames)
<1>1. N \in Nat /\ DOMAIN frames = 1 .. N
  BY LenProperties DEF ScopesInv, TypeInv
<1>2. ASSUME NEW m \in 1 .. N, NEW k \in 1 .. m,
             frames[m].kind = "next", frames[k].kind = "fold", frames[k].name = frames[m].name,
             NEW j \in k + 1 .. m
      PROVE  frames[j].kind # "fold"
  <2> DEFINE F == FoldOf(frames[m].name)
  <2>1. k \in 1 .. N
    BY <1>1
  <2>2. frames[m].name \in DOMAIN cursors
    BY <1>2, <2>1 DEF ScopesInv, FoldNames
  <2>3. F \in 1 .. N /\ frames[F].kind = "fold" /\ frames[F].name = frames[m].name
    BY <2>2, FoldOfIterator
  <2>4. \A l \in F + 1 .. m : frames[l].kind # "fold"
    BY <1>1, <1>2 DEF NextsInnermost
  <2> HIDE DEF F
  <2>5. FrameIterators(frames, k) /\ FrameIterators(frames, F)
    BY <2>1, <2>3 DEF ScopesInv, FrameOK
  <2>6. ~(F < k) /\ ~(k < F)
    BY <1>2, <2>1, <2>3, <2>5 DEF FrameIterators
  <2>7. F = k
    BY <1>1, <2>1, <2>3, <2>6
  <2>8. QED
    BY <2>4, <2>7
<1>3. QED
  BY <1>2 DEF Innermost

\* What may be read is what is in scope, as long as each next belongs to the
\* innermost fold around it.
THEOREM AllowedDepths == Spec => []AllowedIsInScope
<1>1. ScopesInv => AllowedIsInScope
  <2> SUFFICES ASSUME ScopesInv, NextsInnermost PROVE allowed = Visible
    BY DEF AllowedIsInScope
  <2>1. /\ frames \in Seq(FrameSet) /\ Len(frames) \in 0 .. Len(frames)
        /\ \A m \in 1 .. Len(frames) : FrameOK(frames, m)
    BY LenProperties DEF ScopesInv, TypeInv
  <2>2. VisibleIn(frames, Len(frames)) = Open(frames, Len(frames))
    BY <2>1, InnermostNow, VisibleIsOpen
  <2>3. QED
    BY <2>2, VisibleNow DEF ScopesInv
<1>2. QED
  BY <1>1, ScopesInvariant, PTL

\* What a step that leaves a scope gives back.
Restores ==
  Len(frames') < Len(frames) =>
    LET f == Last(frames) IN
    IF f.kind = "new" THEN cells'[f.name] = f.cells[f.name] ELSE cells' = f.cells

LEMMA StepRestores ==
  ASSUME ScopesInv, [Next]_vars
  PROVE  Restores
<1> USE DEF Restores
<1>1. frames \in Seq(FrameSet) /\ Len(frames) \in Nat
  BY LenProperties DEF ScopesInv, TypeInv
<1>2. frames' = frames => Restores
  BY <1>1
<1>3. ASSUME NEW kind \in {"fold", "next", "new"}, NEW name \in Names \cup Iterators,
             NEW seen \in SUBSET Nat, frames' = Append(frames, Frame(kind, name, seen))
      PROVE  Restores
  <2>1. Len(frames') = Len(frames) + 1
    BY <1>1, <1>3, FrameType, AppendProperties
  <2>2. QED
    BY <1>1, <2>1
<1>4. ASSUME NEW x \in Names, NewStart(x) PROVE Restores
  BY <1>3, <1>4, VisibleNow DEF NewStart
<1>5. ASSUME NEW x \in Names, NEW v \in Vals, SetValue(x, v) PROVE Restores
  BY <1>2, <1>5 DEF SetValue, Fail
<1>6. ASSUME NEW i \in Iterators, FoldStart(i) PROVE Restores
  BY <1>2, <1>3, <1>6, VisibleNow DEF FoldStart, Fail
<1>7. ASSUME NEW i \in Iterators, NextBefore(i) PROVE Restores
  <2>1. FoldOf(i) \in 1 .. Len(frames)
    BY <1>7, FoldOfIterator DEF NextBefore
  <2>2. frames[FoldOf(i)].seen \in SUBSET Nat
    <3> DEFINE F == FoldOf(i)
    <3>1. F \in 1 .. Len(frames)
      BY <2>1
    <3> HIDE DEF F
    <3>2. frames[F].seen \in SUBSET Nat
      BY <1>1, <3>1, FrameTypes
    <3>3. QED
      BY <3>2 DEF F
  <2>3. QED
    BY <1>3, <1>7, <2>2 DEF NextBefore
<1>8. CASE FoldEnd \/ NextAfter \/ NextFails
  <2>1. /\ frames # <<>> /\ Last(frames).kind # "new" /\ frames' = Front(frames)
        /\ cells' = Cleanup(cells, depth - 1)
    BY <1>8 DEF FoldEnd, NextAfter, NextFails, LeaveNext, Inside
  <2>2. QED
    BY <2>1, ScopeEnds
<1>9. CASE NewEnd
  <2> DEFINE f == Last(frames)
  <2>1. f.kind = "new" /\ cells' = [cells EXCEPT ![f.name] = f.cells[f.name]]
    BY <1>9, NewEndRestores
  <2>2. f.name \in Names
    BY <1>9, <2>1, NewEndRestores, InstructionEnds
  <2>3. QED
    BY <2>1, <2>2 DEF ScopesInv, TypeInv, Rows
<1>10. CASE UNCHANGED vars
  BY <1>2, <1>10 DEF vars
<1>11. QED
  BY <1>4, <1>5, <1>6, <1>7, <1>8, <1>9, <1>10 DEF Next

\* After a fold and after a next all variables are what they were before it,
\* after a new its variable is.
THEOREM ScopesRestore == Spec => ScopeExitRestores
<1>1. ScopesInv /\ [Next]_vars => Restores
  BY StepRestores
<1>2. QED
  BY <1>1, ScopesInvariant, PTL DEF Spec, ScopeExitRestores, Restores
=============================================================================
