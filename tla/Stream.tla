------------------------------- MODULE Stream -------------------------------
(***************************************************************************)
(* A stream (air/src/execution_step/value_types/stream): three matrices of *)
(* values by generation, one for the values of the previous data, one for  *)
(* those of the current data and one for new values; and the cursor of a   *)
(* fold over a stream that may grow while it is folded.                    *)
(*                                                                         *)
(* A matrix is a sequence of generations, a generation a sequence of       *)
(* values.  Generations are numbered from 0, as in the code.               *)
(***************************************************************************)
EXTENDS Integers, Sequences, FiniteSets

CONSTANT StreamMaxSize    \* STREAM_MAX_SIZE

ASSUME StreamMaxSizeAssumption == StreamMaxSize \in Nat \ {0}

-----------------------------------------------------------------------------
(* ValuesMatrix, NewValuesMatrix.                                          *)

\* remove_empty_generations: the n-th generation that is kept is the one with
\* n - 1 kept ones before it.
NonEmpty(m) ==
  LET kept   == {i \in DOMAIN m : m[i] # <<>>}
      Nth(n) == CHOOSE i \in kept : Cardinality({j \in kept : j < i}) = n - 1
  IN [n \in 1 .. Cardinality(kept) |-> m[Nth(n)]]

\* slice_iter: the non-empty generations but the first skip of them.
SliceIter(m, skip) == SubSeq(NonEmpty(m), skip + 1, Len(NonEmpty(m)))

\* Mutant: the matrix is cut as well as extended.
AddValueToGenerationCut(m, v, gen) ==
  [i \in 1 .. gen + 1 |->
     LET g == IF i <= Len(m) THEN m[i] ELSE <<>> IN
     IF i = gen + 1 THEN Append(g, v) ELSE g]

\* add_value_to_generation: the matrix is extended up to the generation.
AddValueToGeneration(m, v, gen) ==
  [i \in 1 .. (IF gen < Len(m) THEN Len(m) ELSE gen + 1) |->
     LET g == IF i <= Len(m) THEN m[i] ELSE <<>> IN
     IF i = gen + 1 THEN Append(g, v) ELSE g]

AddToLastGeneration(m, v) ==
  AddValueToGeneration(m, v, IF m = <<>> THEN 0 ELSE Len(m) - 1)

AddNewEmptyGeneration(m) == Append(m, <<>>)

\* remove_last_generation_if_empty.
RemoveLastIfEmpty(m) ==
  IF m # <<>> /\ m[Len(m)] = <<>> THEN SubSeq(m, 1, Len(m) - 1) ELSE m

InMatrix(m) == UNION {{m[i][j] : j \in DOMAIN m[i]} : i \in DOMAIN m}

\* get_size.
SizeOf(m) == Cardinality(UNION {{<<i, j>> : j \in DOMAIN m[i]} : i \in DOMAIN m})

-----------------------------------------------------------------------------
(* Stream.                                                                 *)

EmptyStream == [prev |-> <<>>, cur |-> <<>>, new |-> <<>>]

\* The values of a stream.
InStream(s) == InMatrix(s.prev) \cup InMatrix(s.cur) \cup InMatrix(s.new)

\* Generation.
Previous(gen) == [from |-> "prev", gen |-> gen]
Current(gen)  == [from |-> "cur", gen |-> gen]
New           == [from |-> "new"]

\* add_value, without the check of the size.
AddValue(s, v, g) ==
  CASE g.from = "prev" -> [s EXCEPT !.prev = AddValueToGeneration(@, v, g.gen)]
    [] g.from = "cur"  -> [s EXCEPT !.cur = AddValueToGeneration(@, v, g.gen)]
    [] g.from = "new"  -> [s EXCEPT !.new = AddToLastGeneration(@, v)]

StreamSize(s) == SizeOf(s.prev) + SizeOf(s.cur) + SizeOf(s.new)

\* Mutant: off by one.
SizeLimitExceededLater(s) == StreamSize(s) > StreamMaxSize

\* check_stream_size_limit, on the stream that has the new value already.
SizeLimitExceeded(s) == StreamSize(s) >= StreamMaxSize

\* cursor.
CursorOf(s) == [prev |-> Len(s.prev), cur |-> Len(s.cur), new |-> Len(s.new)]

NoCursor == [prev |-> 0, cur |-> 0, new |-> 0]

\* Stream::slice_iter.
Slices(s, c) == SliceIter(s.prev, c.prev) \o SliceIter(s.cur, c.cur)
                  \o SliceIter(s.new, c.new)

\* Mutant: empty generations are kept.
CompactifiedWithGaps(s) == s.prev \o s.cur \o s.new

\* compactify: the generations that are written back into the trace.
Compactified(s) == NonEmpty(s.prev) \o NonEmpty(s.cur) \o NonEmpty(s.new)

\* update_generations: the generation that each value of the stream gets.
Generations(s) ==
  LET all == Compactified(s) IN
  [v \in InStream(s) |->
     CHOOSE n \in 0 .. Len(all) - 1 : \E j \in DOMAIN all[n + 1] : all[n + 1][j] = v]

-----------------------------------------------------------------------------
(* RecursiveStreamCursor.  What is handed to the fold is Slices(s, cursor) *)
(* in both cases; nothing ends the fold.                                   *)

\* met_fold_start: the new cursor is CursorOf(s).
AfterFoldStart(s) ==
  IF Slices(s, NoCursor) = <<>> THEN s
                                ELSE [s EXCEPT !.new = AddNewEmptyGeneration(@)]

\* Mutant: the cursor is taken before the empty generation is removed.
CursorAtIterationEndStale(s) == CursorOf(s)

\* met_iteration_end: the new cursor, and the stream.
CursorAtIterationEnd(s) == CursorOf([s EXCEPT !.new = RemoveLastIfEmpty(@)])

AfterIterationEnd(s) ==
  [s EXCEPT !.new = AddNewEmptyGeneration(RemoveLastIfEmpty(@))]
=============================================================================
