----------------------------- MODULE TraceHandler -----------------------------
(***************************************************************************)
(* The trace handler of one run of the interpreter (trace-handler crate,   *)
(* handler.rs): the instructions of the script call it at every call, ap,  *)
(* canon and par, it reads the two input traces through its sliders and    *)
(* builds the result trace.                                                *)
(*                                                                         *)
(* The script is the environment: any instruction may come next, and a     *)
(* subgraph of a par may end before it has read all its states, which is   *)
(* what a catchable error or a join does.  Only the order that the         *)
(* automata demand (start, left end, right end, innermost first) is fixed. *)
(*                                                                         *)
(* Folds over streams are not part of this machine.                        *)
(***************************************************************************)
EXTENDS ParFSM

CONSTANTS Traces,     \* The traces a run may be given.
          Self,       \* current_peer_id
          CallIds,    \* The call request ids this run may hand out.
          MaxResult,  \* Bound: the longest result trace.
          MaxDepth    \* Bound: the deepest nesting of pars.

ASSUME TracesAssumption == Traces \subseteq Seq(State)
ASSUME SelfAssumption   == Self \in Peers /\ CallIds \subseteq Nat
ASSUME BoundsAssumption == MaxResult \in Nat /\ MaxDepth \in Nat

VARIABLES keeper,     \* data_keeper
          pars,       \* fsm_keeper.par_stack
          status,     \* "running", or "failed" after an uncatchable error
          stopped     \* History: the result positions at which an instruction
                      \* stopped behind a state that it had met.

vars == <<keeper, pars, status, stopped>>

-----------------------------------------------------------------------------
(* TraceHandler::from_trace.                                               *)

Init == /\ \E p \in Traces, c \in Traces : keeper = NewKeeper(p, c)
        /\ pars = <<>>
        /\ status = "running"
        /\ stopped = {}

\* An error of the handler is uncatchable: the run ends, its keeper is
\* dropped, and the runner answers the previous data.
Fail == /\ status' = "failed"
        /\ UNCHANGED <<keeper, pars, stopped>>

-----------------------------------------------------------------------------
(* What the instructions push at the end, given the state they met.        *)

\* Call: an outcome stays, a request of this peer may have got its result, a
\* request of another peer may be taken over, and a call met for the first
\* time is forwarded or requested.
CallEnds(met) ==
  CASE met.kind \in {"executed", "failed"}      -> {met}
    [] met.kind = "sent_id" /\ met.by = Self    ->
         {met} \cup {Scalar(c) : c \in Cids} \cup {Failed(c) : c \in Cids}
               \cup {Unused(c) : c \in Cids}
               \cup {StreamValue(c, StubGen) : c \in Cids}
    [] IsSent(met) -> {met} \cup {SentByWithId(Self, id) : id \in CallIds}
    [] OTHER       -> {SentBy(Self)} \cup {SentByWithId(Self, id) : id \in CallIds}

\* Canon: executed by its peer, otherwise left requested.
CanonEnds(met) ==
  CASE met.kind = "canon"      -> {met}
    [] met.kind = "canon_sent" -> {met} \cup {CanonExecuted(c) : c \in Cids}
    [] OTHER -> {CanonSentBy(Self)} \cup {CanonExecuted(c) : c \in Cids}

\* One instruction that reads and writes one state.  An instruction that met
\* nothing and joins (its arguments are not there yet) writes nothing; nor does
\* one that resolves an argument behind the state it met, and fails to: its
\* mapping stays without a state of its own.
Meet(met, ends, stops) ==
  /\ status = "running" /\ Len(keeper.out) < MaxResult
  /\ \/ ~met.ok /\ Fail
     \/ /\ met.ok
        /\ \/ /\ \E st \in ends : keeper' = PushState(AfterMet(keeper, met), st)
              /\ UNCHANGED stopped
           \/ met = NotMet /\ keeper' = AfterMet(keeper, met) /\ UNCHANGED stopped
           \/ /\ stops /\ met # NotMet /\ keeper' = AfterMet(keeper, met)
              /\ stopped' = stopped \cup {Len(keeper.out)}
        /\ UNCHANGED <<pars, status>>

\* A call resolves its peer before it meets its state, an ap_map its key and a
\* canon its peer only then.
MeetCall  == Meet(MetCall(keeper), CallEnds(MetCall(keeper).state), FALSE)
MeetAp    == Meet(MetAp(keeper), {Ap(<<StubGen>>)}, TRUE)
MeetCanon == Meet(MetCanon(keeper), CanonEnds(MetCanon(keeper).state), TRUE)

-----------------------------------------------------------------------------
(* meet_par_start, meet_par_subgraph_end.                                  *)

Top(s) == s[Len(s)]
Pop(s) == SubSeq(s, 1, Len(s) - 1)

MeetParStart ==
  LET met == MetPar(keeper)
      k   == PopStates(keeper)
  IN /\ status = "running" /\ Len(keeper.out) < MaxResult /\ Len(pars) < MaxDepth
     /\ \/ ~CanStartPar(k, met) /\ Fail
        \/ /\ CanStartPar(k, met)
           /\ keeper' = StartPar(k, met)
           /\ pars' = Append(pars, ParFrame(k, met))
           /\ UNCHANGED <<status, stopped>>

MeetParLeftEnd ==
  /\ status = "running" /\ pars # <<>> /\ Top(pars).side = "left"
  /\ keeper' = LeftCompleted(keeper, Top(pars))
  /\ pars' = [pars EXCEPT ![Len(pars)] = LeftFrame(keeper, @)]
  /\ UNCHANGED <<status, stopped>>

MeetParRightEnd ==
  /\ status = "running" /\ pars # <<>> /\ Top(pars).side = "right"
  /\ keeper' = RightCompleted(keeper, Top(pars))
  /\ pars' = Pop(pars)
  /\ UNCHANGED <<status, stopped>>

Next == \/ MeetCall \/ MeetAp \/ MeetCanon
        \/ MeetParStart \/ MeetParLeftEnd \/ MeetParRightEnd

Spec == Init /\ [][Next]_vars

-----------------------------------------------------------------------------
(* Properties.                                                             *)

Slider == [trace : Seq(State), pos : Nat, len : Nat, seen : Nat]

Keeper == [prev : Slider, cur : Slider, out : Seq(State),
           toPrev : SUBSET (Nat \X Nat), toCur : SUBSET (Nat \X Nat)]

EndState == [pos : Nat, len : Nat]

Frame == [prevPar : [kind : {"par"}, left : Nat, right : Nat],
          curPar  : [kind : {"par"}, left : Nat, right : Nat],
          at : Nat \ {0}, saved : Nat \ {0}, left : Nat, side : {"left", "right"},
          leftEnd  : [prev : EndState, cur : EndState],
          rightEnd : [prev : EndState, cur : EndState]]

\* The types of the handler's state.  The positions, lengths and sizes of the
\* code are unsigned: that they stay in Nat says that no subtraction of the
\* sliders, of the automata or of the position mapping goes below zero.
TypeOK ==
  /\ keeper \in Keeper
  /\ pars \in Seq(Frame)
  /\ status \in {"running", "failed"}
  /\ stopped \in SUBSET Nat

InBounds(s) == /\ s.seen <= s.len
               /\ s.pos + SubtraceLen(s) <= Len(s.trace)

\* Whatever the script does, and also after a subgraph that ended early, the
\* window of each slider lies inside its trace: the sliders hand out only
\* states that exist (TraceSlider::next_state indexes the trace) and the
\* debug_assert of subtrace_len() holds.
SlidersInBounds == InBounds(keeper.prev) /\ InBounds(keeper.cur)

\* What the automata on the stack rely on: the slider states that they will
\* restore lie inside the traces, and the result trace only grew since they
\* noted its length.
FrameFits(f, k) ==
  /\ f.at <= f.saved /\ f.saved <= Len(k.out)
  /\ f.leftEnd.prev.pos <= Len(k.prev.trace)
  /\ f.leftEnd.cur.pos <= Len(k.cur.trace)
  /\ f.rightEnd.prev.pos + f.rightEnd.prev.len <= Len(k.prev.trace)
  /\ f.rightEnd.cur.pos + f.rightEnd.cur.len <= Len(k.cur.trace)

\* The inductive invariant behind the types and the bounds.
IndInv == /\ TypeOK
          /\ SlidersInBounds
          /\ \A i \in 1 .. Len(pars) : FrameFits(pars[i], keeper)

LeftLast(t, i)  == i + t[i].left
RightLast(t, i) == i + ParSize(t[i])

\* The pars at the positions P of t are each followed by their left and then
\* their right states, and a par inside such a subgraph ends inside it.
WellNested(t, P) ==
  \A i \in P :
    /\ RightLast(t, i) <= Len(t)
    /\ \A j \in P :
         /\ i < j /\ j <= LeftLast(t, i) => RightLast(t, j) <= LeftLast(t, i)
         /\ LeftLast(t, i) < j /\ j <= RightLast(t, i)
              => RightLast(t, j) <= RightLast(t, i)

\* The pars of the result trace, without those that are still open and hold a
\* temporary state.
ClosedPars(o, ps) == {i \in 1 .. Len(o) : IsPar(o[i])}
                       \ {ps[n].at : n \in 1 .. Len(ps)}

\* The sizes in the par states describe the result trace.  The next run cuts
\* its subtraces out of the trace by these sizes alone (compute_new_state), so
\* a wrong size would hand one subgraph's states to another.
ParsWellNested == WellNested(keeper.out, ClosedPars(keeper.out, pars))

\* Why it holds: no finished par reaches over the position of an open one, nor
\* over the border between the left and the right subgraph of an open one; and
\* open pars lie inside each other.
Borders(o, ps) ==
  /\ \A n \in 1 .. Len(ps) :
       /\ ps[n].saved = IF ps[n].side = "left" THEN ps[n].at
                                               ELSE ps[n].at + ps[n].left
       /\ \A m \in 1 .. n - 1 : ps[m].saved < ps[n].at
       /\ \A i \in ClosedPars(o, ps) :
            /\ i < ps[n].at => RightLast(o, i) < ps[n].at
            /\ i <= ps[n].saved => RightLast(o, i) <= ps[n].saved

NestInv == ParsWellNested /\ Borders(keeper.out, pars)

\* When a par ends, both sliders stand behind the whole subtrace of that par
\* with the rest of the enclosing window before them, however much of it the
\* two subgraphs have read: the error that update_ctx_states drops does not
\* occur at this point.
ParEndRestoresSliders ==
  [][Len(pars') < Len(pars) =>
       \A side \in {"prev", "cur"} :
         /\ keeper'[side].pos = Top(pars).rightEnd[side].pos
         /\ SubtraceLen(keeper'[side]) = Top(pars).rightEnd[side].len]_vars

\* A slider never moves back: no state of an input trace is merged into the
\* result twice.
SlidersNeverGoBack ==
  [][\A side \in {"prev", "cur"} : keeper'[side].pos >= keeper[side].pos]_vars

\* Whether the state n may stand in the result for the input state o: the same
\* instruction, an outcome unchanged.
Continues(n, o) ==
  \/ IsSent(o) /\ IsCall(n)
  \/ o.kind \in {"executed", "failed"} /\ n = o
  \/ IsAp(o) /\ IsAp(n)

\* The pairs of the mapping, without those of positions at which an instruction
\* stopped: there the pair of what it had met may stay behind.
Mapped == {m \in keeper.toPrev : m[1] \notin stopped}

\* The position mapping, from which folds find the generation of a value,
\* leads from a state of the result to the state of the input it was merged
\* from (position_mapping.rs).
MappingPointsBack ==
  \A m \in Mapped :
    /\ m[1] < Len(keeper.out) /\ m[2] < Len(keeper.prev.trace)
    /\ Continues(keeper.out[m[1] + 1], keeper.prev.trace[m[2] + 1])
=============================================================================
