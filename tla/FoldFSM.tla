------------------------------- MODULE FoldFSM -------------------------------
(***************************************************************************)
(* The automaton that runs the iterations of a fold over a stream          *)
(* (state_automata/fold_fsm.rs), the merger of fold states                 *)
(* (merger/fold_merger.rs) and the update of generations in the trace      *)
(* under construction (handler.rs: update_generation).                     *)
(*                                                                         *)
(* A fold state says for each value of the stream, named by its position   *)
(* in the trace, where the states are that its iteration made before and   *)
(* after `next`.  Positions are 0-based, as in the code.                   *)
(***************************************************************************)
EXTENDS ParFSM, FiniteSetsExt

\* SubTraceDesc, FoldSubTraceLore and FoldResult.
SubTraceDesc(begin, len) == [begin |-> begin, len |-> len]
Lore(pos, before, after) == [pos |-> pos, before |-> before, after |-> after]
FoldState(lore)          == [kind |-> "fold", lore |-> lore]

IsFold(s) == s.kind = "fold"

\* States that have a generation: values of a stream.
IsStreamState(st) == IsAp(st) \/ (st.kind = "executed" /\ st.out = "stream")

-----------------------------------------------------------------------------
(* The fold merger.                                                        *)

\* try_get_generation.
HasGeneration(t, pos) == pos < Len(t) /\ IsStreamState(t[pos + 1])

GenerationAt(t, pos) ==
  IF IsAp(t[pos + 1]) THEN t[pos + 1].gens[1] ELSE t[pos + 1].gen

\* Lores i and j lie in one run of lores with equal generations.
SameRun(t, lore, i, j) ==
  \A n \in (IF i < j THEN i .. j ELSE j .. i) :
    GenerationAt(t, lore[n].pos) = GenerationAt(t, lore[i].pos)

SumBefore(lore, S) == MapThenSumSet(LAMBDA n : lore[n].before.len, S)
SumAfter(lore, S)  == MapThenSumSet(LAMBDA n : lore[n].after.len, S)

\* Mutant: what the later iterations of a generation left behind is not
\* counted in.
ConvolutedForgetful(t, lore, i) ==
  LET run == {n \in DOMAIN lore : SameRun(t, lore, i, n)} IN
  [before |-> SubTraceDesc(lore[i].before.begin, SumBefore(lore, {n \in run : n >= i})),
   after  |-> SubTraceDesc(lore[i].after.begin, SumAfter(lore, {n \in run : n <= i}))]

\* compute_lens_convolution: `next` runs the later iterations of a generation,
\* and all that they leave behind, inside the iteration i.
Convoluted(t, lore, i) ==
  LET run == {n \in DOMAIN lore : SameRun(t, lore, i, n)} IN
  [before |-> SubTraceDesc(lore[i].before.begin,
                           SumBefore(lore, {n \in run : n >= i}) + SumAfter(lore, run)),
   after  |-> SubTraceDesc(lore[i].after.begin, SumAfter(lore, {n \in run : n <= i}))]

FoldStatesCount(lore) == SumBefore(lore, DOMAIN lore) + SumAfter(lore, DOMAIN lore)

\* The errors of resolve_fold_lore.
Resolvable(t, lore) ==
  /\ \A i \in DOMAIN lore : HasGeneration(t, lore[i].pos)
  /\ FoldStatesCount(lore) <= MaxPos
  /\ \A i, j \in DOMAIN lore : lore[i].pos = lore[j].pos => i = j

\* resolve_fold_lore: the subtraces by the position of their value.
ResolveFoldLore(t, lore) ==
  [p \in {lore[i].pos : i \in DOMAIN lore} |->
     Convoluted(t, lore, CHOOSE i \in DOMAIN lore : lore[i].pos = p)]

\* try_merge_next_state_as_fold, on the keeper that has not popped the states
\* yet.  A missing fold is an empty one.
MetFold(k) ==
  LET p == NextState(k.prev)
      c == NextState(k.cur)
      LoreOf(s) == IF s = NoState THEN <<>> ELSE s.lore
  IN [ok   |-> /\ p = NoState \/ IsFold(p)
               /\ c = NoState \/ IsFold(c)
               /\ p # NoState => Resolvable(k.prev.trace, LoreOf(p))
               /\ c # NoState => Resolvable(k.cur.trace, LoreOf(c)),
      prev |-> LoreOf(p), cur |-> LoreOf(c)]

-----------------------------------------------------------------------------
(* FoldFSM::from_fold_start.                                               *)

\* compute_new_state: FoldPosOverflow and FoldLenUnderflow.
FoldFits(lore, s) == /\ s.pos + FoldStatesCount(lore) <= MaxPos
                     /\ FoldStatesCount(lore) <= SubtraceLen(s)

FoldEndState(lore, s) == [pos |-> s.pos + FoldStatesCount(lore),
                          len |-> SubtraceLen(s) - FoldStatesCount(lore)]

\* On the keeper whose sliders have popped the fold states.
CanStartFold(k, met) == met.ok /\ FoldFits(met.prev, k.prev) /\ FoldFits(met.cur, k.cur)

\* The automaton: the lores not met yet, the position of the temporary state,
\* the queue of iterations with the place of the back traversal, the lores of
\* the result and the slider states of the end.
NewFoldFSM(k, met) ==
  [prev   |-> ResolveFoldLore(k.prev.trace, met.prev),
   cur    |-> ResolveFoldLore(k.cur.trace, met.cur),
   at     |-> Len(k.out) + 1,
   queue  |-> <<>>, back |-> 0, started |-> FALSE,
   result |-> <<>>,
   ends   |-> [prev |-> FoldEndState(met.prev, k.prev),
               cur  |-> FoldEndState(met.cur, k.cur)]]

\* StateInserter::from_keeper: a temporary par.
StartFold(k) == PushState(k, Par(0, 0))

-----------------------------------------------------------------------------
(* SubTraceLoreCtor: the positions of an iteration's states.  Its stages   *)
(* are 0 BeforeStarted, 1 BeforeCompleted, 2 AfterStarted and              *)
(* 3 AfterCompleted, which is not left.                                    *)

NextStage(s) == IF s < 3 THEN s + 1 ELSE 3

BeforeEnd(e, end) == [e EXCEPT !.beforeEnd = end, !.stage = NextStage(@)]

MaybeBeforeEnd(e, end) == IF e.stage = 0 THEN BeforeEnd(e, end) ELSE e

AfterStart(e, pos) == [e EXCEPT !.afterStart = pos, !.stage = NextStage(@)]

AfterEnd(e, pos) == [e EXCEPT !.afterEnd = pos, !.stage = NextStage(@)]

\* finish: an iteration that was left early.
Finished(e, pos) ==
  CASE e.stage = 0 -> AfterEnd(AfterStart(BeforeEnd(e, pos), pos), pos)
    [] e.stage = 1 -> AfterEnd(AfterStart(e, pos), pos)
    [] e.stage = 2 -> AfterEnd(e, pos)
    [] e.stage = 3 -> e

\* into_subtrace_lore.
IntoLore(e) == Lore(e.pos, SubTraceDesc(e.before, e.beforeEnd - e.before),
                           SubTraceDesc(e.afterStart, e.afterEnd - e.afterStart))

-----------------------------------------------------------------------------
(* The steps of the automaton.  f is the automaton, k the keeper.          *)

\* The old positions of a value of the result trace, and its lore there.
NoLore == [none |-> TRUE]

OldPositions(m, pos) == {q[2] : q \in {r \in m : r[1] = pos}}

\* Mutant: the lore is looked up at the new position of the value.
LoreAtNewPosition(lore, m, pos) == IF pos \in DOMAIN lore THEN lore[pos] ELSE NoLore

LoreAt(lore, m, pos) ==
  LET at == OldPositions(m, pos) \cap DOMAIN lore IN
  IF at = {} THEN NoLore ELSE lore[CHOOSE p \in at : TRUE]

WithoutLoreAt(lore, m, pos) ==
  [p \in DOMAIN lore \ OldPositions(m, pos) |-> lore[p]]

\* apply_fold_lore for one slider: the subtrace of the iteration, or an empty
\* one where the slider stands.
CanApplyLore(s, lore, part) ==
  IF lore = NoLore THEN CanSetSubtraceLen(s, 0)
                   ELSE CanSetPositionAndLen(s, lore[part].begin, lore[part].len)

ApplyLore(s, lore, part) ==
  IF lore = NoLore THEN SetSubtraceLen(s, 0)
                   ELSE SetPositionAndLen(s, lore[part].begin, lore[part].len)

CanApplyLores(k, e, part) == /\ CanApplyLore(k.prev, e.prev, part)
                             /\ CanApplyLore(k.cur, e.cur, part)

ApplyLores(k, e, part) == [k EXCEPT !.prev = ApplyLore(@, e.prev, part),
                                    !.cur  = ApplyLore(@, e.cur, part)]

\* meet_iteration_start: the new last element of the queue; then the automaton
\* and the keeper.
NewIteration(f, k, pos) ==
  [pos |-> pos, stage |-> 0,
   before |-> Len(k.out), beforeEnd |-> 0, afterStart |-> 0, afterEnd |-> 0,
   prev |-> LoreAt(f.prev, k.toPrev, pos), cur |-> LoreAt(f.cur, k.toCur, pos)]

IterationStarted(f, k, pos) ==
  [f EXCEPT !.prev = WithoutLoreAt(@, k.toPrev, pos),
            !.cur = WithoutLoreAt(@, k.toCur, pos),
            !.queue = Append(@, NewIteration(f, k, pos)), !.back = @ + 1]

\* meet_iteration_end.
IterationEnded(f, k) == [f EXCEPT !.queue[f.back] = BeforeEnd(@, Len(k.out))]

\* The element that a step back turns to.
BackTo(f) == IF f.started THEN f.back - 1 ELSE f.back

\* Mutant: the end of what an iteration does after next is not recorded here.
BackIteratedOpen(f, k) ==
  LET pos == Len(k.out) IN
  [f EXCEPT !.queue[BackTo(f)] = AfterStart(MaybeBeforeEnd(@, pos), pos),
            !.back = BackTo(f), !.started = TRUE]

\* meet_back_iterator.
BackIterated(f, k) ==
  LET pos == Len(k.out) IN
  IF ~f.started
    THEN [f EXCEPT !.queue[f.back] = AfterStart(MaybeBeforeEnd(@, pos), pos),
                   !.started = TRUE]
    ELSE [f EXCEPT !.queue[f.back] = AfterEnd(@, pos),
                   !.queue[f.back - 1] = AfterStart(@, pos),
                   !.back = @ - 1]

\* meet_generation_end.
GenerationEnded(f, k) ==
  [f EXCEPT !.result = @ \o [i \in DOMAIN f.queue |-> IntoLore(Finished(f.queue[i], Len(k.out)))],
            !.queue = <<>>, !.back = 0, !.started = FALSE]

\* meet_fold_end: the fold state replaces the temporary one.
FoldEnded(f, k) == UpdateCtxStates([k EXCEPT !.out[f.at] = FoldState(f.result)], f.ends)

-----------------------------------------------------------------------------
(* update_generation of handler.rs for many values: gens gives the         *)
(* generation of the value at each position.                               *)

CanUpdateGenerations(out, gens) == \A p \in DOMAIN gens : HasGeneration(out, p)

WithGeneration(st, gen) == IF IsAp(st) THEN Ap(<<gen>>) ELSE [st EXCEPT !.gen = gen]

UpdateGenerations(out, gens) ==
  [n \in DOMAIN out |->
     IF n - 1 \in DOMAIN gens THEN WithGeneration(out[n], gens[n - 1]) ELSE out[n]]
=============================================================================
