-------------------------------- MODULE ParFSM --------------------------------
(***************************************************************************)
(* The data keeper (data_keeper/keeper.rs) and the automaton that runs the *)
(* two subgraphs of a par over it (state_automata/par_fsm.rs).             *)
(*                                                                         *)
(* A keeper is a record: the slider over the previous trace, the slider    *)
(* over the current one, the trace under construction and, for the states  *)
(* of that trace, where in the input traces their values came from.        *)
(*                                                                         *)
(* Every operator takes a keeper and answers the keeper that the code's    *)
(* method leaves, so that both the state machine of TraceHandler and the   *)
(* interpreter of Interpreter are built from the same definitions.         *)
(***************************************************************************)
EXTENDS Merger

CONSTANT MaxPos       \* The largest position or length: u32::MAX in the code.

ASSUME MaxPosAssumption == MaxPos \in Nat

-----------------------------------------------------------------------------
NewKeeper(p, c) == [prev |-> NewSlider(p), cur |-> NewSlider(c), out |-> <<>>,
                    toPrev |-> {}, toCur |-> {}]

\* BiHashMap::insert: overwrites the pairs that share either side.
BiInsert(m, new, old) ==
  {q \in m : q[1] # new /\ q[2] # old} \cup {<<new, old>>}

\* Each merger pops the next state of both traces first.
PopStates(k) == [k EXCEPT !.prev = Advance(@), !.cur = Advance(@)]

\* Mutant: the position behind the state instead of the one of the state.
MapPositionsBehind(k, scheme) ==
  LET new == Len(k.out) IN
  [k EXCEPT
     !.toPrev = IF scheme \in {"previous", "both"}
                  THEN BiInsert(@, new, k.prev.pos) ELSE @,
     !.toCur  = IF scheme \in {"current", "both"}
                  THEN BiInsert(@, new, k.cur.pos) ELSE @]

\* prepare_positions_mapping, called with the sliders already advanced.
MapPositions(k, scheme) ==
  LET new == Len(k.out) IN
  [k EXCEPT
     !.toPrev = IF scheme \in {"previous", "both"}
                  THEN BiInsert(@, new, k.prev.pos - 1) ELSE @,
     !.toCur  = IF scheme \in {"current", "both"}
                  THEN BiInsert(@, new, k.cur.pos - 1) ELSE @]

\* meet_call_start, meet_ap_start, meet_canon_start: what was met, and the
\* keeper left behind.
MetCall(k)  == MergeAsCall(NextState(k.prev), NextState(k.cur))
MetAp(k)    == MergeAsAp(NextState(k.prev), NextState(k.cur))
MetCanon(k) == MergeAsCanon(NextState(k.prev), NextState(k.cur))

AfterMet(k, met) == MapPositions(PopStates(k), met.scheme)

\* meet_call_end, meet_ap_end, meet_canon_end.
PushState(k, st) == [k EXCEPT !.out = Append(@, st)]

-----------------------------------------------------------------------------
(* ParFSM::from_left_started.                                              *)

MetPar(k) == MergeAsPar(NextState(k.prev), NextState(k.cur))

ParSize(par) == par.left + par.right

\* Mutants: the end of the left subgraph is taken one too far, or at its
\* beginning; the window left after the par is not reduced by the par.
LeftEndStateTooFar(par, s)   == [pos |-> s.pos + par.left + 1, len |-> par.left]
LeftEndStateAtStart(par, s)  == [pos |-> s.pos, len |-> par.left]
RightEndStateSameLen(par, s) == [pos |-> s.pos + ParSize(par),
                                 len |-> SubtraceLen(s)]

\* compute_new_state: where a slider will stand, and the window it will have,
\* once the left subgraph (the right one) has ended.
LeftEndState(par, s)  == [pos |-> s.pos + par.left, len |-> par.left]
RightEndState(par, s) == [pos |-> s.pos + ParSize(par),
                          len |-> SubtraceLen(s) - ParSize(par)]

\* Mutant: without the ParLenUnderflow check.
ParFitsUnchecked(par, s) == /\ ParSize(par) <= MaxPos
                            /\ s.pos + ParSize(par) <= MaxPos

\* The checks of compute_new_state: ParLenOverflow, ParPosOverflow and
\* ParLenUnderflow.
ParFits(par, s) == /\ ParSize(par) <= MaxPos
                   /\ s.pos + ParSize(par) <= MaxPos
                   /\ ParSize(par) <= SubtraceLen(s)

\* Everything that from_left_started checks, on the keeper whose sliders have
\* popped the par states.
CanStartPar(k, met) ==
  /\ met.ok
  /\ ParFits(met.prev, k.prev) /\ ParFits(met.cur, k.cur)
  /\ CanSetSubtraceLen(k.prev, met.prev.left)
  /\ CanSetSubtraceLen(k.cur, met.cur.left)

\* The automaton: the par states met, where the temporary par of the result
\* trace was inserted, the result length at which the running subgraph began,
\* the size of the left result, and the slider states of both ends.
ParFrame(k, met) ==
  [prevPar   |-> met.prev, curPar |-> met.cur,
   at        |-> Len(k.out) + 1,
   saved     |-> Len(k.out) + 1,
   left      |-> 0,
   side      |-> "left",
   leftEnd   |-> [prev |-> LeftEndState(met.prev, k.prev),
                  cur  |-> LeftEndState(met.cur, k.cur)],
   rightEnd  |-> [prev |-> RightEndState(met.prev, k.prev),
                  cur  |-> RightEndState(met.cur, k.cur)]]

\* The temporary par is pushed and the sliders are narrowed to the left
\* subgraphs.
StartPar(k, met) ==
  [PushState(k, Par(0, 0)) EXCEPT
     !.prev = SetSubtraceLen(@, met.prev.left),
     !.cur  = SetSubtraceLen(@, met.cur.left)]

-----------------------------------------------------------------------------
(* ParFSM::left_completed and right_completed.                             *)

\* update_ctx_state: an error of set_position_and_len is dropped, and then the
\* slider keeps the position and the window it had.
UpdateCtxState(s, end) ==
  IF CanSetPositionAndLen(s, end.pos, end.len)
    THEN SetPositionAndLen(s, end.pos, end.len)
    ELSE s

UpdateCtxStates(k, end) == [k EXCEPT !.prev = UpdateCtxState(@, end.prev),
                                     !.cur  = UpdateCtxState(@, end.cur)]

\* prepare_sliders(Right), whose error left_completed drops: the `?` between
\* the two sliders makes the first failure skip the second slider.
PrepareRightSliders(k, f) ==
  LET okPrev == CanSetSubtraceLen(k.prev, f.prevPar.right)
      okCur  == okPrev /\ CanSetSubtraceLen(k.cur, f.curPar.right)
  IN [k EXCEPT
        !.prev = IF okPrev THEN SetSubtraceLen(@, f.prevPar.right) ELSE @,
        !.cur  = IF okCur THEN SetSubtraceLen(@, f.curPar.right) ELSE @]

LeftCompleted(k, f) == PrepareRightSliders(UpdateCtxStates(k, f.leftEnd), f)

\* ParBuilder::track(Left).  The mutant does not move saved_states_count.
LeftFrameNotSaved(k, f) == [f EXCEPT !.left = Len(k.out) - f.saved,
                                     !.side = "right"]

LeftFrame(k, f) == [f EXCEPT !.left = Len(k.out) - f.saved,
                             !.saved = Len(k.out),
                             !.side = "right"]

\* The final par replaces the temporary one.
RightCompleted(k, f) ==
  UpdateCtxStates([k EXCEPT !.out[f.at] = Par(f.left, Len(k.out) - f.saved)],
                  f.rightEnd)
=============================================================================
