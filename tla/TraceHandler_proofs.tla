-------------------------- MODULE TraceHandler_proofs --------------------------
(***************************************************************************)
(* Theorems about the trace handler, for all traces, scripts and bounds.   *)
(***************************************************************************)
EXTENDS TraceHandler, SequenceTheorems, TLAPS

-----------------------------------------------------------------------------
(* Sliders.                                                                *)

\* A slider with some fields replaced is a slider.
LEMMA SliderExcept ==
  ASSUME NEW s \in Slider, NEW p \in Nat, NEW n \in Nat, NEW e \in Nat
  PROVE  /\ [s EXCEPT !.pos = p, !.seen = e] \in Slider
         /\ [s EXCEPT !.len = n, !.seen = e] \in Slider
         /\ [s EXCEPT !.pos = p, !.len = n, !.seen = e] \in Slider
  BY DEF Slider

\* next_state() keeps a slider inside its trace, and stands behind at least
\* one state when it has answered one.
LEMMA AdvanceInBounds ==
  ASSUME NEW s \in Slider, InBounds(s)
  PROVE  /\ Advance(s) \in Slider /\ InBounds(Advance(s))
         /\ Advance(s).trace = s.trace
         /\ NextState(s) \in State \cup {NoState}
         /\ NextState(s) # NoState => Advance(s).pos > 0
         /\ Advance(s).pos >= s.pos
<1>1. CASE HasNext(s)
  <2>1. s.pos + 1 \in 1 .. Len(s.trace) /\ s.trace \in Seq(State)
    BY <1>1 DEF HasNext, Slider
  <2>2. s.trace[s.pos + 1] \in State
    BY <2>1, ElementOfSeq
  <2> DEFINE a == [s EXCEPT !.pos = @ + 1, !.seen = @ + 1]
  <2>3. Advance(s) = a /\ NextState(s) = s.trace[s.pos + 1]
    BY <1>1 DEF Advance, NextState
  <2>4. a \in Slider /\ a.trace = s.trace /\ a.pos = s.pos + 1
        /\ a.len = s.len /\ a.seen = s.seen + 1
    <3>1. s.pos + 1 \in Nat /\ s.seen + 1 \in Nat
      BY DEF Slider
    <3>2. a \in Slider
      BY <3>1, SliderExcept
    <3>3. QED
      BY <3>2 DEF Slider
  <2>5. InBounds(a) /\ a.pos > 0 /\ a.pos >= s.pos
    BY <1>1, <2>1, <2>4 DEF HasNext, Slider, InBounds, SubtraceLen
  <2>6. QED
    BY <2>2, <2>3, <2>4, <2>5
<1>2. CASE ~HasNext(s)
  BY <1>2 DEF Advance, NextState, Slider
<1>3. QED
  BY <1>1, <1>2

\* An accepted set_subtrace_len keeps a slider inside its trace.
LEMMA SetSubtraceLenInBounds ==
  ASSUME NEW s \in Slider, NEW n \in Nat, CanSetSubtraceLen(s, n)
  PROVE  /\ SetSubtraceLen(s, n) \in Slider /\ InBounds(SetSubtraceLen(s, n))
         /\ SetSubtraceLen(s, n).trace = s.trace
<1>1. SetSubtraceLen(s, n) \in Slider
  BY SliderExcept DEF SetSubtraceLen
<1>2. QED
  BY <1>1 DEF Slider, CanSetSubtraceLen, SetSubtraceLen, InBounds, SubtraceLen

\* update_ctx_state keeps a slider inside its trace, also when the error of
\* set_position_and_len is dropped.
LEMMA UpdateCtxStateInBounds ==
  ASSUME NEW s \in Slider, InBounds(s), NEW e \in EndState, e.pos <= Len(s.trace)
  PROVE  /\ UpdateCtxState(s, e) \in Slider /\ InBounds(UpdateCtxState(s, e))
         /\ UpdateCtxState(s, e).trace = s.trace
<1>1. SetPositionAndLen(s, e.pos, e.len) \in Slider
  BY SliderExcept DEF SetPositionAndLen, EndState
<1>2. QED
  BY <1>1 DEF Slider, EndState, UpdateCtxState, CanSetPositionAndLen,
              SetPositionAndLen, InBounds, SubtraceLen

-----------------------------------------------------------------------------
(* Keepers.                                                                *)

KeeperInBounds(k) == k \in Keeper /\ InBounds(k.prev) /\ InBounds(k.cur)

\* A keeper with some fields replaced is a keeper.
LEMMA KeeperSliders ==
  ASSUME NEW k \in Keeper, NEW p \in Slider, NEW c \in Slider
  PROVE  [k EXCEPT !.prev = p, !.cur = c] \in Keeper
  BY DEF Keeper

LEMMA KeeperOut ==
  ASSUME NEW k \in Keeper, NEW o \in Seq(State)
  PROVE  [k EXCEPT !.out = o] \in Keeper
  BY DEF Keeper

\* Popping the next states keeps a keeper's sliders in their traces.
LEMMA PopStatesInBounds ==
  ASSUME NEW k, KeeperInBounds(k)
  PROVE  /\ KeeperInBounds(PopStates(k))
         /\ PopStates(k).prev = Advance(k.prev) /\ PopStates(k).cur = Advance(k.cur)
         /\ PopStates(k).out = k.out
         /\ PopStates(k).prev.trace = k.prev.trace
         /\ PopStates(k).cur.trace = k.cur.trace
<1>1. k \in Keeper /\ k.prev \in Slider /\ k.cur \in Slider
  BY DEF KeeperInBounds, Keeper
<1>2. /\ Advance(k.prev) \in Slider /\ InBounds(Advance(k.prev))
      /\ Advance(k.cur) \in Slider /\ InBounds(Advance(k.cur))
      /\ Advance(k.prev).trace = k.prev.trace /\ Advance(k.cur).trace = k.cur.trace
  BY <1>1, AdvanceInBounds DEF KeeperInBounds
<1>3. PopStates(k) \in Keeper
  BY <1>1, <1>2, KeeperSliders DEF PopStates
<1>4. /\ PopStates(k).prev = Advance(k.prev) /\ PopStates(k).cur = Advance(k.cur)
      /\ PopStates(k).out = k.out
  BY <1>1 DEF PopStates, Keeper
<1>5. QED
  BY <1>2, <1>3, <1>4 DEF KeeperInBounds

\* What a merger may answer for two states: a state, and a scheme that names
\* only traces that had a state.
MetFits(met, p, c) ==
  /\ met.state \in State \cup {NoState}
  /\ met.scheme \in {"previous", "both"} => p # NoState
  /\ met.scheme \in {"current", "both"} => c # NoState

\* Each merger keeps to that.
LEMMA MergersFit ==
  ASSUME NEW p \in State \cup {NoState}, NEW c \in State \cup {NoState}
  PROVE  /\ MetFits(MergeAsCall(p, c), p, c)
         /\ MetFits(MergeAsAp(p, c), p, c)
         /\ MetFits(MergeAsCanon(p, c), p, c)
<1>1. /\ MetFits(NotMet, p, c) /\ MetFits(MergeError, p, c)
      /\ c # NoState => MetFits(Merged(c, "current"), p, c)
      /\ p # NoState => MetFits(Merged(p, "previous"), p, c)
      /\ p # NoState /\ c # NoState => MetFits(Merged(p, "both"), p, c)
      /\ MetFits(Merged(p, "none"), p, c) /\ MetFits(Merged(c, "none"), p, c)
  BY DEF MetFits, Merged, NotMet, MergeError
<1>2. MetFits(MergeAsCall(p, c), p, c)
  <2>1. p # NoState /\ c # NoState =>
          MergeCallResults(p, c) \in {Merged(p, "previous"), Merged(c, "current"),
                                      Merged(p, "both"), MergeError}
    BY DEF MergeCallResults
  <2>2. \/ MergeAsCall(p, c) \in {NotMet, MergeError}
        \/ p = NoState /\ c # NoState /\ MergeAsCall(p, c) = Merged(c, "current")
        \/ c = NoState /\ p # NoState /\ MergeAsCall(p, c) = Merged(p, "previous")
        \/ p # NoState /\ c # NoState /\ MergeAsCall(p, c) = MergeCallResults(p, c)
    BY DEF MergeAsCall, MergeStates
  <2>3. QED
    BY <1>1, <2>1, <2>2
<1>3. MetFits(MergeAsAp(p, c), p, c)
  <2>1. \A x, sc : ApMet(x, sc) \in {Merged(x, sc), MergeError}
    BY DEF ApMet
  <2>2. \/ MergeAsAp(p, c) \in {NotMet, MergeError}
        \/ p = NoState /\ c # NoState /\ MergeAsAp(p, c) = ApMet(c, "current")
        \/ c = NoState /\ p # NoState /\ MergeAsAp(p, c) = ApMet(p, "previous")
        \/ p # NoState /\ c # NoState /\ MergeAsAp(p, c) = ApMet(p, "both")
    BY DEF MergeAsAp, MergeStates
  <2>3. QED
    BY <1>1, <2>1, <2>2
<1>4. MetFits(MergeAsCanon(p, c), p, c)
  <2>1. MergeCanonResults(p, c) \in {Merged(p, "none"), Merged(c, "none"), MergeError}
    BY DEF MergeCanonResults
  <2>2. MergeAsCanon(p, c) \in {NotMet, MergeError, Merged(p, "none"),
                               Merged(c, "none"), MergeCanonResults(p, c)}
    BY DEF MergeAsCanon, MergeStates
  <2>3. QED
    BY <1>1, <2>1, <2>2
<1>5. QED
  BY <1>2, <1>3, <1>4

\* The position mapping subtracts one only from positions behind a state.
LEMMA AfterMetInBounds ==
  ASSUME NEW k, KeeperInBounds(k), NEW met,
         MetFits(met, NextState(k.prev), NextState(k.cur))
  PROVE  /\ KeeperInBounds(AfterMet(k, met))
         /\ AfterMet(k, met).out = k.out
         /\ AfterMet(k, met).prev = Advance(k.prev)
         /\ AfterMet(k, met).cur = Advance(k.cur)
<1> DEFINE q == PopStates(k)
<1>1. /\ KeeperInBounds(q) /\ q.out = k.out
      /\ q.prev = Advance(k.prev) /\ q.cur = Advance(k.cur)
  BY PopStatesInBounds
<1>2. q \in Keeper /\ q.toPrev \in SUBSET (Nat \X Nat) /\ q.toCur \in SUBSET (Nat \X Nat)
      /\ q.prev \in Slider /\ q.cur \in Slider /\ Len(q.out) \in Nat
      /\ k.prev \in Slider /\ k.cur \in Slider
  BY <1>1 DEF KeeperInBounds, Keeper
<1>3. /\ met.scheme \in {"previous", "both"} => q.prev.pos - 1 \in Nat
      /\ met.scheme \in {"current", "both"} => q.cur.pos - 1 \in Nat
  <2>1. /\ NextState(k.prev) # NoState => Advance(k.prev).pos > 0
        /\ NextState(k.cur) # NoState => Advance(k.cur).pos > 0
    BY <1>2, AdvanceInBounds DEF KeeperInBounds
  <2>2. q.prev.pos \in Nat /\ q.cur.pos \in Nat
    BY <1>2 DEF Slider
  <2>3. QED
    BY <1>1, <2>1, <2>2 DEF MetFits
<1>4. ASSUME NEW mm \in SUBSET (Nat \X Nat), NEW a \in Nat, NEW b \in Nat
      PROVE  BiInsert(mm, a, b) \in SUBSET (Nat \X Nat)
  BY DEF BiInsert
<1> DEFINE mp == IF met.scheme \in {"previous", "both"}
                   THEN BiInsert(q.toPrev, Len(q.out), q.prev.pos - 1) ELSE q.toPrev
           mc == IF met.scheme \in {"current", "both"}
                   THEN BiInsert(q.toCur, Len(q.out), q.cur.pos - 1) ELSE q.toCur
<1>5. mp \in SUBSET (Nat \X Nat) /\ mc \in SUBSET (Nat \X Nat)
  BY <1>2, <1>3, <1>4
<1>6. AfterMet(k, met) = [q EXCEPT !.toPrev = mp, !.toCur = mc]
  BY DEF AfterMet, MapPositions
<1> HIDE DEF q, mp, mc
<1>7. AfterMet(k, met) \in Keeper
  BY <1>2, <1>5, <1>6 DEF Keeper
<1>8. AfterMet(k, met).out = q.out /\ AfterMet(k, met).prev = q.prev
      /\ AfterMet(k, met).cur = q.cur
  BY <1>2, <1>6 DEF Keeper
<1>9. QED
  BY <1>1, <1>7, <1>8 DEF KeeperInBounds

\* Pushing a state keeps the sliders and lengthens the result by one.
LEMMA PushStateInBounds ==
  ASSUME NEW k, KeeperInBounds(k), NEW st \in State
  PROVE  /\ KeeperInBounds(PushState(k, st))
         /\ PushState(k, st).prev = k.prev /\ PushState(k, st).cur = k.cur
         /\ PushState(k, st).out = Append(k.out, st)
         /\ Len(PushState(k, st).out) = Len(k.out) + 1
<1>1. k \in Keeper /\ k.out \in Seq(State)
  BY DEF KeeperInBounds, Keeper
<1>2. Append(k.out, st) \in Seq(State) /\ Len(Append(k.out, st)) = Len(k.out) + 1
  BY <1>1
<1>3. PushState(k, st) \in Keeper
  BY <1>1, <1>2, KeeperOut DEF PushState
<1>4. /\ PushState(k, st).prev = k.prev /\ PushState(k, st).cur = k.cur
      /\ PushState(k, st).out = Append(k.out, st)
  BY <1>1 DEF PushState, Keeper
<1>5. QED
  BY <1>2, <1>3, <1>4 DEF KeeperInBounds

-----------------------------------------------------------------------------
(* The actions.                                                            *)

\* An automaton still fits a keeper whose result has grown.
LEMMA FrameFitsLater ==
  ASSUME NEW f \in Frame, NEW k \in Keeper, NEW n \in Keeper, FrameFits(f, k),
         Len(k.out) <= Len(n.out),
         n.prev.trace = k.prev.trace, n.cur.trace = k.cur.trace
  PROVE  FrameFits(f, n)
<1>1. Len(k.out) \in Nat /\ Len(n.out) \in Nat /\ f.saved \in Nat
  BY DEF Keeper, Frame
<1>2. QED
  BY <1>1 DEF FrameFits

\* The invariant survives a step that leaves the stack and the traces alone
\* and does not shorten the result.
LEMMA SameStack ==
  ASSUME IndInv, KeeperInBounds(keeper'), UNCHANGED <<pars, status>>,
         stopped' \in SUBSET Nat,
         Len(keeper.out) <= Len(keeper'.out),
         keeper'.prev.trace = keeper.prev.trace, keeper'.cur.trace = keeper.cur.trace
  PROVE  IndInv'
<1>1. TypeOK' /\ SlidersInBounds'
  BY DEF IndInv, TypeOK, SlidersInBounds, KeeperInBounds
<1>2. ASSUME NEW i \in 1 .. Len(pars) PROVE FrameFits(pars[i], keeper')
  <2>1. FrameFits(pars[i], keeper) /\ pars[i] \in Frame
    BY DEF IndInv, TypeOK
  <2>2. keeper \in Keeper /\ keeper' \in Keeper
    BY DEF IndInv, TypeOK, KeeperInBounds
  <2>3. QED
    BY <2>1, <2>2, FrameFitsLater
<1>3. QED
  BY <1>1, <1>2 DEF IndInv

\* One instruction that reads and writes one state.
LEMMA MeetInBounds ==
  ASSUME IndInv, NEW met, NEW ends \in SUBSET State,
         MetFits(met, NextState(keeper.prev), NextState(keeper.cur)),
         NEW stops, Meet(met, ends, stops)
  PROVE  IndInv'
<1> DEFINE k == AfterMet(keeper, met)
<1>1. KeeperInBounds(keeper) /\ keeper.prev \in Slider /\ keeper.cur \in Slider
      /\ Len(keeper.out) \in Nat
  BY DEF IndInv, TypeOK, SlidersInBounds, KeeperInBounds, Keeper
<1>2. KeeperInBounds(k) /\ k.out = keeper.out
      /\ k.prev.trace = keeper.prev.trace /\ k.cur.trace = keeper.cur.trace
  <2>1. /\ Advance(keeper.prev).trace = keeper.prev.trace
        /\ Advance(keeper.cur).trace = keeper.cur.trace
    BY <1>1, AdvanceInBounds DEF KeeperInBounds
  <2>2. QED
    BY <1>1, <2>1, AfterMetInBounds
<1>3. CASE Fail
  BY <1>3 DEF Fail, IndInv, TypeOK, SlidersInBounds
<1>4. CASE /\ \E st \in ends : keeper' = PushState(k, st)
           /\ UNCHANGED <<pars, status, stopped>>
  <2>1. PICK st \in State : keeper' = PushState(k, st)
    BY <1>4
  <2>2. /\ KeeperInBounds(keeper') /\ keeper'.prev = k.prev /\ keeper'.cur = k.cur
        /\ Len(keeper'.out) = Len(k.out) + 1
    BY <1>2, <2>1, PushStateInBounds
  <2>3. QED
    BY <1>1, <1>2, <1>4, <2>2, SameStack DEF IndInv, TypeOK
<1>5. CASE /\ keeper' = k /\ UNCHANGED <<pars, status>>
           /\ stopped' \in {stopped, stopped \cup {Len(keeper.out)}}
  <2>1. stopped' \in SUBSET Nat
    BY <1>1, <1>5 DEF IndInv, TypeOK
  <2>2. QED
    BY <1>1, <1>2, <1>5, <2>1, SameStack
<1>6. QED
  BY <1>3, <1>4, <1>5 DEF Meet

\* What the instructions push are states.
LEMMA EndsAreStates ==
  /\ \A met \in State \cup {NoState} : CallEnds(met) \subseteq State
  /\ \A met \in State \cup {NoState} : CanonEnds(met) \subseteq State
  /\ Ap(<<StubGen>>) \in State
  /\ \A l, r \in Nat : Par(l, r) \in State
<1>1. ASSUME NEW c \in Cids
      PROVE  {Scalar(c), Failed(c), Unused(c), StreamValue(c, StubGen),
              CanonExecuted(c)} \subseteq State
  BY DEF State, Scalar, Failed, Unused, StreamValue, CanonExecuted, StubGen
<1>2. SentBy(Self) \in State /\ CanonSentBy(Self) \in State
      /\ \A id \in CallIds : SentByWithId(Self, id) \in State
  BY SelfAssumption DEF State, SentBy, CanonSentBy, SentByWithId
<1>3. \A met \in State \cup {NoState} : CallEnds(met) \subseteq State
  <2>1. TAKE met \in State \cup {NoState}
  <2>2. CallEnds(met) \subseteq
          (IF met.kind = "none" THEN {} ELSE {met})
          \cup {Scalar(c) : c \in Cids} \cup {Failed(c) : c \in Cids}
          \cup {Unused(c) : c \in Cids} \cup {StreamValue(c, StubGen) : c \in Cids}
          \cup {SentBy(Self)} \cup {SentByWithId(Self, id) : id \in CallIds}
    BY DEF CallEnds, IsSent
  <2>3. met.kind # "none" => met \in State
    BY DEF NoState
  <2>4. QED
    BY <1>1, <1>2, <2>2, <2>3
<1>4. \A met \in State \cup {NoState} : CanonEnds(met) \subseteq State
  <2>1. TAKE met \in State \cup {NoState}
  <2>2. CanonEnds(met) \subseteq
          (IF met.kind = "none" THEN {} ELSE {met})
          \cup {CanonExecuted(c) : c \in Cids} \cup {CanonSentBy(Self)}
    BY DEF CanonEnds
  <2>3. met.kind # "none" => met \in State
    BY DEF NoState
  <2>4. QED
    BY <1>1, <1>2, <2>2, <2>3
<1>5. Ap(<<StubGen>>) \in State
  BY DEF State, Ap, StubGen
<1>6. \A l, r \in Nat : Par(l, r) \in State
  BY DEF State, Par
<1>7. QED
  BY <1>3, <1>4, <1>5, <1>6

ParResult == [kind : {"par"}, left : Nat, right : Nat]

\* The par states met, or the default ones, have natural sizes.
LEMMA MetParFits ==
  ASSUME NEW p \in State \cup {NoState}, NEW c \in State \cup {NoState},
         MergeAsPar(p, c).ok
  PROVE  MergeAsPar(p, c).prev \in ParResult /\ MergeAsPar(p, c).cur \in ParResult
<1>1. \A st \in State : IsPar(st) => st \in ParResult
  BY DEF State, IsPar, ParResult
<1>2. Par(0, 0) \in ParResult
  BY DEF Par, ParResult
<1>3. QED
  BY <1>1, <1>2 DEF MergeAsPar

\* A par that passes the checks of compute_new_state leaves slider states
\* inside the trace.
LEMMA EndStatesFit ==
  ASSUME NEW s \in Slider, InBounds(s), NEW par \in ParResult, ParFits(par, s)
  PROVE  /\ LeftEndState(par, s) \in EndState /\ RightEndState(par, s) \in EndState
         /\ LeftEndState(par, s).pos <= Len(s.trace)
         /\ RightEndState(par, s).pos + RightEndState(par, s).len <= Len(s.trace)
  BY DEF Slider, InBounds, ParResult, ParFits, LeftEndState, RightEndState, EndState,
         ParSize, SubtraceLen

LEMMA ParStartInBounds ==
  ASSUME IndInv, MeetParStart
  PROVE  IndInv'
<1> DEFINE met == MetPar(keeper)
           k   == PopStates(keeper)
           f   == ParFrame(k, met)
<1>1. KeeperInBounds(keeper) /\ keeper \in Keeper
      /\ keeper.prev \in Slider /\ keeper.cur \in Slider
  BY DEF IndInv, TypeOK, SlidersInBounds, KeeperInBounds, Keeper
<1>2. /\ KeeperInBounds(k) /\ k.out = keeper.out
      /\ k.prev.trace = keeper.prev.trace /\ k.cur.trace = keeper.cur.trace
  BY <1>1, PopStatesInBounds
<1>3. k \in Keeper /\ k.prev \in Slider /\ k.cur \in Slider /\ k.out \in Seq(State)
      /\ Len(k.out) \in Nat
  BY <1>2 DEF KeeperInBounds, Keeper
<1>4. CASE Fail
  BY <1>4 DEF Fail, IndInv, TypeOK, SlidersInBounds
<1>5. CASE /\ CanStartPar(k, met) /\ keeper' = StartPar(k, met)
           /\ pars' = Append(pars, f) /\ UNCHANGED <<status, stopped>>
  <2>1. met.prev \in ParResult /\ met.cur \in ParResult
    <3>1. NextState(keeper.prev) \in State \cup {NoState}
          /\ NextState(keeper.cur) \in State \cup {NoState}
      BY <1>1, AdvanceInBounds DEF KeeperInBounds
    <3>2. QED
      BY <1>5, <3>1, MetParFits DEF MetPar, CanStartPar
  <2>2. /\ LeftEndState(met.prev, k.prev) \in EndState
        /\ RightEndState(met.prev, k.prev) \in EndState
        /\ LeftEndState(met.prev, k.prev).pos <= Len(k.prev.trace)
        /\ RightEndState(met.prev, k.prev).pos + RightEndState(met.prev, k.prev).len
             <= Len(k.prev.trace)
    BY <1>2, <1>3, <1>5, <2>1, EndStatesFit DEF CanStartPar, KeeperInBounds
  <2>3. /\ LeftEndState(met.cur, k.cur) \in EndState
        /\ RightEndState(met.cur, k.cur) \in EndState
        /\ LeftEndState(met.cur, k.cur).pos <= Len(k.cur.trace)
        /\ RightEndState(met.cur, k.cur).pos + RightEndState(met.cur, k.cur).len
             <= Len(k.cur.trace)
    BY <1>2, <1>3, <1>5, <2>1, EndStatesFit DEF CanStartPar, KeeperInBounds
  <2> DEFINE ps == SetSubtraceLen(k.prev, met.prev.left)
             cs == SetSubtraceLen(k.cur, met.cur.left)
             o  == PushState(k, Par(0, 0))
  <2>4. /\ ps \in Slider /\ InBounds(ps) /\ ps.trace = k.prev.trace
        /\ cs \in Slider /\ InBounds(cs) /\ cs.trace = k.cur.trace
    <3>1. met.prev.left \in Nat /\ met.cur.left \in Nat
      BY <2>1 DEF ParResult
    <3>2. QED
      BY <1>3, <1>5, <3>1, SetSubtraceLenInBounds DEF CanStartPar
  <2>5. /\ o \in Keeper /\ o.prev = k.prev /\ o.cur = k.cur
        /\ Len(o.out) = Len(k.out) + 1
    BY <1>2, EndsAreStates, PushStateInBounds DEF KeeperInBounds
  <2>6. /\ keeper' \in Keeper /\ keeper'.prev = ps /\ keeper'.cur = cs
        /\ Len(keeper'.out) = Len(k.out) + 1
    <3>1. keeper' = [o EXCEPT !.prev = ps, !.cur = cs]
      BY <1>5, <2>5 DEF StartPar
    <3> HIDE DEF o, ps, cs
    <3>2. keeper' \in Keeper
      BY <2>4, <2>5, <3>1, KeeperSliders
    <3>3. keeper'.prev = ps /\ keeper'.cur = cs /\ keeper'.out = o.out
      BY <2>5, <3>1 DEF Keeper
    <3>4. QED
      BY <2>5, <3>2, <3>3
  <2>7. f \in Frame /\ FrameFits(f, keeper')
    <3>1. Len(k.out) + 1 \in Nat \ {0}
      BY <1>3
    <3>2. f \in Frame
      BY <2>1, <2>2, <2>3, <3>1 DEF ParFrame, Frame, ParResult
    <3>3. QED
      BY <2>2, <2>3, <2>4, <2>6, <3>1, <3>2 DEF ParFrame, FrameFits
  <2>8. TypeOK' /\ SlidersInBounds'
    BY <1>5, <2>4, <2>6, <2>7 DEF IndInv, TypeOK, SlidersInBounds
  <2>9. ASSUME NEW i \in 1 .. Len(pars') PROVE FrameFits(pars'[i], keeper')
    <3>1. pars \in Seq(Frame) /\ Len(pars') = Len(pars) + 1
      BY <1>5, <2>7 DEF IndInv, TypeOK
    <3>2. CASE i = Len(pars) + 1
      BY <1>5, <2>7, <3>1, <3>2
    <3>3. CASE i \in 1 .. Len(pars)
      <4>1. pars'[i] = pars[i] /\ pars[i] \in Frame /\ FrameFits(pars[i], keeper)
        BY <1>5, <3>1, <3>3 DEF IndInv
      <4>2. QED
        BY <1>1, <1>2, <1>3, <2>4, <2>6, <4>1, FrameFitsLater
    <3>4. QED
      BY <3>1, <3>2, <3>3
  <2>10. QED
    BY <2>8, <2>9 DEF IndInv
<1>6. QED
  BY <1>4, <1>5 DEF MeetParStart

\* update_ctx_states with prepared slider states that lie inside the traces.
LEMMA UpdateCtxStatesInBounds ==
  ASSUME NEW k, KeeperInBounds(k), NEW e \in [prev : EndState, cur : EndState],
         e.prev.pos <= Len(k.prev.trace), e.cur.pos <= Len(k.cur.trace)
  PROVE  LET n == UpdateCtxStates(k, e) IN
         /\ KeeperInBounds(n) /\ n.out = k.out
         /\ n.prev = UpdateCtxState(k.prev, e.prev)
         /\ n.cur = UpdateCtxState(k.cur, e.cur)
         /\ n.prev.trace = k.prev.trace /\ n.cur.trace = k.cur.trace
<1> DEFINE ps == UpdateCtxState(k.prev, e.prev)
           cs == UpdateCtxState(k.cur, e.cur)
           n  == UpdateCtxStates(k, e)
<1>1. k \in Keeper /\ k.prev \in Slider /\ k.cur \in Slider
      /\ e.prev \in EndState /\ e.cur \in EndState
  BY DEF KeeperInBounds, Keeper
<1>2. /\ ps \in Slider /\ InBounds(ps) /\ ps.trace = k.prev.trace
      /\ cs \in Slider /\ InBounds(cs) /\ cs.trace = k.cur.trace
  BY <1>1, UpdateCtxStateInBounds DEF KeeperInBounds
<1>3. n = [k EXCEPT !.prev = ps, !.cur = cs]
  BY DEF UpdateCtxStates
<1> HIDE DEF ps, cs, n
<1>4. n \in Keeper
  BY <1>1, <1>2, <1>3, KeeperSliders
<1>5. n.prev = ps /\ n.cur = cs /\ n.out = k.out
  BY <1>1, <1>3 DEF Keeper
<1>6. QED
  BY <1>2, <1>4, <1>5 DEF KeeperInBounds, n, ps, cs

\* prepare_sliders(Right), whichever of its two checks fails.
LEMMA PrepareRightInBounds ==
  ASSUME NEW k, KeeperInBounds(k), NEW f \in Frame
  PROVE  LET n == PrepareRightSliders(k, f) IN
         /\ KeeperInBounds(n) /\ n.out = k.out
         /\ n.prev.trace = k.prev.trace /\ n.cur.trace = k.cur.trace
<1> DEFINE okPrev == CanSetSubtraceLen(k.prev, f.prevPar.right)
           okCur  == okPrev /\ CanSetSubtraceLen(k.cur, f.curPar.right)
           ps == IF okPrev THEN SetSubtraceLen(k.prev, f.prevPar.right) ELSE k.prev
           cs == IF okCur THEN SetSubtraceLen(k.cur, f.curPar.right) ELSE k.cur
           n  == PrepareRightSliders(k, f)
<1>1. k \in Keeper /\ k.prev \in Slider /\ k.cur \in Slider
      /\ f.prevPar.right \in Nat /\ f.curPar.right \in Nat
  BY DEF KeeperInBounds, Keeper, Frame
<1>2. /\ ps \in Slider /\ InBounds(ps) /\ ps.trace = k.prev.trace
      /\ cs \in Slider /\ InBounds(cs) /\ cs.trace = k.cur.trace
  BY <1>1, SetSubtraceLenInBounds DEF KeeperInBounds
<1>3. n = [k EXCEPT !.prev = ps, !.cur = cs]
  BY DEF PrepareRightSliders
<1> HIDE DEF ps, cs, n
<1>4. n \in Keeper
  BY <1>1, <1>2, <1>3, KeeperSliders
<1>5. n.prev = ps /\ n.cur = cs /\ n.out = k.out
  BY <1>1, <1>3 DEF Keeper
<1>6. QED
  BY <1>2, <1>4, <1>5 DEF KeeperInBounds, n

LEMMA ParLeftEndInBounds ==
  ASSUME IndInv, MeetParLeftEnd
  PROVE  IndInv'
<1> DEFINE f == Top(pars)
           g == LeftFrame(keeper, f)
<1>1. KeeperInBounds(keeper) /\ keeper \in Keeper /\ Len(keeper.out) \in Nat
  BY DEF IndInv, TypeOK, SlidersInBounds, KeeperInBounds, Keeper
<1>2. pars \in Seq(Frame) /\ Len(pars) \in 1 .. Len(pars)
  BY DEF MeetParLeftEnd, IndInv, TypeOK
<1>3. f \in Frame /\ FrameFits(f, keeper)
  BY <1>2 DEF Top, IndInv
<1>4. /\ KeeperInBounds(keeper') /\ keeper'.out = keeper.out
      /\ keeper'.prev.trace = keeper.prev.trace
      /\ keeper'.cur.trace = keeper.cur.trace
  <2>1. /\ f.leftEnd \in [prev : EndState, cur : EndState]
        /\ f.leftEnd.prev.pos <= Len(keeper.prev.trace)
        /\ f.leftEnd.cur.pos <= Len(keeper.cur.trace)
    BY <1>3 DEF Frame, FrameFits
  <2> DEFINE u == UpdateCtxStates(keeper, f.leftEnd)
  <2> HIDE DEF f
  <2>2. KeeperInBounds(u) /\ u.out = keeper.out
        /\ u.prev.trace = keeper.prev.trace /\ u.cur.trace = keeper.cur.trace
    BY <1>1, <2>1, UpdateCtxStatesInBounds
  <2>3. keeper' = PrepareRightSliders(u, f)
    BY DEF MeetParLeftEnd, LeftCompleted, f
  <2> HIDE DEF u
  <2>4. QED
    BY <1>3, <2>2, <2>3, PrepareRightInBounds
<1>5. g \in Frame /\ FrameFits(g, keeper)
  <2>1. f.saved \in Nat /\ f.saved <= Len(keeper.out) /\ f.at <= f.saved
        /\ f.at \in Nat \ {0} /\ f.saved # 0
    BY <1>3 DEF Frame, FrameFits
  <2>2. Len(keeper.out) - f.saved \in Nat /\ Len(keeper.out) \in Nat \ {0}
    BY <1>1, <2>1
  <2> HIDE DEF f
  <2>3. g \in Frame
    BY <1>3, <2>2 DEF LeftFrame, Frame
  <2>4. g.at = f.at /\ g.saved = Len(keeper.out) /\ g.leftEnd = f.leftEnd
        /\ g.rightEnd = f.rightEnd
    BY <1>3 DEF LeftFrame, Frame
  <2>5. QED
    BY <1>1, <1>3, <2>1, <2>3, <2>4 DEF FrameFits
<1>6. pars' = [pars EXCEPT ![Len(pars)] = g]
  BY DEF MeetParLeftEnd, Top
<1> HIDE DEF f, g
<1>7. pars' \in Seq(Frame) /\ Len(pars') = Len(pars)
      /\ \A i \in 1 .. Len(pars) : pars'[i] = IF i = Len(pars) THEN g ELSE pars[i]
  BY <1>2, <1>5, <1>6, ExceptSeq
<1>8. ASSUME NEW i \in 1 .. Len(pars') PROVE FrameFits(pars'[i], keeper')
  <2>1. pars'[i] \in Frame /\ FrameFits(pars'[i], keeper)
    BY <1>2, <1>5, <1>7 DEF IndInv
  <2>2. keeper' \in Keeper /\ Len(keeper.out) <= Len(keeper'.out)
    BY <1>1, <1>4 DEF KeeperInBounds
  <2>3. QED
    BY <1>1, <1>4, <2>1, <2>2, FrameFitsLater
<1>9. status' \in {"running", "failed"} /\ stopped' \in SUBSET Nat
  BY DEF MeetParLeftEnd, IndInv, TypeOK
<1>10. QED
  BY <1>4, <1>7, <1>8, <1>9 DEF IndInv, TypeOK, SlidersInBounds, KeeperInBounds

\* Popping a stack keeps the frames below the top one.
LEMMA PopProperties ==
  ASSUME NEW S, NEW s \in Seq(S), s # <<>>
  PROVE  /\ Pop(s) \in Seq(S) /\ Len(Pop(s)) = Len(s) - 1
         /\ \A i \in 1 .. Len(s) - 1 : Pop(s)[i] = s[i]
<1> DEFINE n == Len(s) - 1
<1>1. n \in Nat /\ Len(s) = n + 1
  BY EmptySeq
<1>2. \A i \in 1 .. n : s[i] \in S
  BY <1>1
<1> HIDE DEF n
<1>3. /\ SubSeq(s, 1, n) \in Seq(S)
      /\ Len(SubSeq(s, 1, n)) = IF 1 <= n THEN n - 1 + 1 ELSE 0
      /\ \A i \in 1 .. n - 1 + 1 : SubSeq(s, 1, n)[i] = s[1 + i - 1]
  BY <1>1, <1>2, SubSeqProperties
<1>4. n - 1 + 1 = n /\ \A i \in 1 .. n : 1 + i - 1 = i
  BY <1>1
<1>5. Len(SubSeq(s, 1, n)) = n
  BY <1>1, <1>3
<1>6. QED
  BY <1>3, <1>4, <1>5 DEF Pop, n

\* The final par state replaces the temporary one: the result keeps its length,
\* and the sliders take exactly the states prepared for the right end.
LEMMA ParRightEndStep ==
  ASSUME IndInv, MeetParRightEnd
  PROVE  LET f == Top(pars) IN
         /\ f \in Frame /\ FrameFits(f, keeper) /\ f.at \in 1 .. Len(keeper.out)
         /\ KeeperInBounds(keeper') /\ Len(keeper'.out) = Len(keeper.out)
         /\ keeper'.out = [keeper.out EXCEPT
                             ![f.at] = Par(f.left, Len(keeper.out) - f.saved)]
         /\ Len(keeper.out) - f.saved \in Nat
         /\ keeper'.prev.trace = keeper.prev.trace
         /\ keeper'.cur.trace = keeper.cur.trace
         /\ keeper'.prev = SetPositionAndLen(keeper.prev, f.rightEnd.prev.pos,
                                             f.rightEnd.prev.len)
         /\ keeper'.cur = SetPositionAndLen(keeper.cur, f.rightEnd.cur.pos,
                                            f.rightEnd.cur.len)
<1> DEFINE f == Top(pars)
           o == [keeper.out EXCEPT ![f.at] = Par(f.left, Len(keeper.out) - f.saved)]
           k == [keeper EXCEPT !.out = o]
<1>1. KeeperInBounds(keeper) /\ keeper \in Keeper /\ Len(keeper.out) \in Nat
      /\ keeper.out \in Seq(State)
  BY DEF IndInv, TypeOK, SlidersInBounds, KeeperInBounds, Keeper
<1>2. pars \in Seq(Frame) /\ Len(pars) \in 1 .. Len(pars)
  BY DEF MeetParRightEnd, IndInv, TypeOK
<1>3. f \in Frame /\ FrameFits(f, keeper)
  BY <1>2 DEF Top, IndInv
<1>4. f.at \in 1 .. Len(keeper.out) /\ Len(keeper.out) - f.saved \in Nat
  BY <1>1, <1>3 DEF Frame, FrameFits
<1>5. Par(f.left, Len(keeper.out) - f.saved) \in State
  BY <1>3, <1>4, EndsAreStates DEF Frame
<1>6. o \in Seq(State) /\ Len(o) = Len(keeper.out)
  BY <1>1, <1>4, <1>5, ExceptSeq
<1>7. keeper' = UpdateCtxStates(k, f.rightEnd)
  BY DEF MeetParRightEnd, RightCompleted
<1> HIDE DEF o
<1>8. KeeperInBounds(k) /\ k.out = o /\ k.prev = keeper.prev /\ k.cur = keeper.cur
  <2>1. k \in Keeper
    BY <1>1, <1>6, KeeperOut
  <2>2. k.out = o /\ k.prev = keeper.prev /\ k.cur = keeper.cur
    BY <1>1 DEF Keeper
  <2>3. QED
    BY <1>1, <2>1, <2>2 DEF KeeperInBounds
<1> HIDE DEF f, k
<1>9. /\ f.rightEnd \in [prev : EndState, cur : EndState]
      /\ f.rightEnd.prev.pos <= Len(k.prev.trace)
      /\ f.rightEnd.cur.pos <= Len(k.cur.trace)
      /\ CanSetPositionAndLen(k.prev, f.rightEnd.prev.pos, f.rightEnd.prev.len)
      /\ CanSetPositionAndLen(k.cur, f.rightEnd.cur.pos, f.rightEnd.cur.len)
  <2>1. Len(k.prev.trace) \in Nat /\ Len(k.cur.trace) \in Nat
    BY <1>8 DEF KeeperInBounds, Keeper, Slider
  <2>2. f.rightEnd \in [prev : EndState, cur : EndState]
    BY <1>3 DEF Frame
  <2>3. /\ f.rightEnd.prev.pos \in Nat /\ f.rightEnd.prev.len \in Nat
        /\ f.rightEnd.cur.pos \in Nat /\ f.rightEnd.cur.len \in Nat
    BY <2>2 DEF EndState
  <2>4. /\ f.rightEnd.prev.pos + f.rightEnd.prev.len <= Len(k.prev.trace)
        /\ f.rightEnd.cur.pos + f.rightEnd.cur.len <= Len(k.cur.trace)
    BY <1>3, <1>8 DEF FrameFits
  <2>5. QED
    BY <2>1, <2>2, <2>3, <2>4 DEF CanSetPositionAndLen
<1>10. /\ KeeperInBounds(keeper') /\ keeper'.out = k.out
       /\ keeper'.prev = UpdateCtxState(k.prev, f.rightEnd.prev)
       /\ keeper'.cur = UpdateCtxState(k.cur, f.rightEnd.cur)
       /\ keeper'.prev.trace = k.prev.trace /\ keeper'.cur.trace = k.cur.trace
  BY <1>7, <1>8, <1>9, UpdateCtxStatesInBounds
<1>11. QED
  BY <1>3, <1>4, <1>6, <1>8, <1>9, <1>10 DEF UpdateCtxState, f, o

LEMMA ParRightEndInBounds ==
  ASSUME IndInv, MeetParRightEnd
  PROVE  IndInv'
<1>1. /\ KeeperInBounds(keeper') /\ Len(keeper'.out) = Len(keeper.out)
      /\ keeper'.prev.trace = keeper.prev.trace
      /\ keeper'.cur.trace = keeper.cur.trace
  BY ParRightEndStep
<1>2. keeper \in Keeper /\ keeper' \in Keeper /\ Len(keeper.out) \in Nat
  BY <1>1 DEF IndInv, TypeOK, KeeperInBounds, Keeper
<1>3. pars \in Seq(Frame) /\ Len(pars) \in Nat \ {0} /\ pars' = SubSeq(pars, 1, Len(pars) - 1)
  BY DEF MeetParRightEnd, IndInv, TypeOK, Pop
<1>4. /\ pars' \in Seq(Frame) /\ Len(pars') = Len(pars) - 1
      /\ \A i \in 1 .. Len(pars) - 1 : pars'[i] = pars[i]
  BY <1>3, PopProperties DEF Pop
<1>5. ASSUME NEW i \in 1 .. Len(pars') PROVE FrameFits(pars'[i], keeper')
  <2>1. i \in 1 .. Len(pars) /\ pars'[i] = pars[i]
    BY <1>3, <1>4
  <2>2. pars[i] \in Frame /\ FrameFits(pars[i], keeper)
    BY <1>3, <2>1 DEF IndInv
  <2>3. QED
    BY <1>1, <1>2, <2>1, <2>2, FrameFitsLater
<1>6. status' \in {"running", "failed"} /\ stopped' \in SUBSET Nat
  BY DEF MeetParRightEnd, IndInv, TypeOK
<1>7. QED
  BY <1>1, <1>4, <1>5, <1>6 DEF IndInv, TypeOK, SlidersInBounds, KeeperInBounds

-----------------------------------------------------------------------------
(* The theorems.                                                           *)

\* The invariant holds in every state of every run of the handler.
THEOREM HandlerInvariant == Spec => []IndInv
<1>1. Init => IndInv
  <2> SUFFICES ASSUME Init PROVE IndInv
    OBVIOUS
  <2>1. PICK p \in Traces, c \in Traces : keeper = NewKeeper(p, c)
    BY DEF Init
  <2>2. p \in Seq(State) /\ c \in Seq(State)
    BY TracesAssumption
  <2>3. /\ NewSlider(p) \in Slider /\ InBounds(NewSlider(p))
        /\ NewSlider(c) \in Slider /\ InBounds(NewSlider(c))
    BY <2>2 DEF NewSlider, Slider, InBounds, SubtraceLen
  <2>4. keeper \in Keeper /\ SlidersInBounds
    BY <2>1, <2>3 DEF NewKeeper, Keeper, SlidersInBounds
  <2>5. pars = <<>> /\ status = "running" /\ stopped = {}
    BY DEF Init
  <2>6. QED
    BY <2>4, <2>5 DEF IndInv, TypeOK
<1>2. IndInv /\ [Next]_vars => IndInv'
  <2> SUFFICES ASSUME IndInv, [Next]_vars PROVE IndInv'
    OBVIOUS
  <2>1. NextState(keeper.prev) \in State \cup {NoState}
        /\ NextState(keeper.cur) \in State \cup {NoState}
    BY AdvanceInBounds DEF IndInv, TypeOK, SlidersInBounds, Keeper
  <2>2. CASE MeetCall
    <3>1. MetFits(MetCall(keeper), NextState(keeper.prev), NextState(keeper.cur))
      BY <2>1, MergersFit DEF MetCall
    <3>2. CallEnds(MetCall(keeper).state) \in SUBSET State
      BY <3>1, EndsAreStates DEF MetFits
    <3>3. QED
      BY <2>2, <3>1, <3>2, MeetInBounds DEF MeetCall
  <2>3. CASE MeetAp
    <3>1. MetFits(MetAp(keeper), NextState(keeper.prev), NextState(keeper.cur))
      BY <2>1, MergersFit DEF MetAp
    <3>2. {Ap(<<StubGen>>)} \in SUBSET State
      BY EndsAreStates
    <3>3. QED
      BY <2>3, <3>1, <3>2, MeetInBounds DEF MeetAp
  <2>4. CASE MeetCanon
    <3>1. MetFits(MetCanon(keeper), NextState(keeper.prev), NextState(keeper.cur))
      BY <2>1, MergersFit DEF MetCanon
    <3>2. CanonEnds(MetCanon(keeper).state) \in SUBSET State
      BY <3>1, EndsAreStates DEF MetFits
    <3>3. QED
      BY <2>4, <3>1, <3>2, MeetInBounds DEF MeetCanon
  <2>5. CASE MeetParStart
    BY <2>5, ParStartInBounds
  <2>6. CASE MeetParLeftEnd
    BY <2>6, ParLeftEndInBounds
  <2>7. CASE MeetParRightEnd
    BY <2>7, ParRightEndInBounds
  <2>8. CASE UNCHANGED vars
    BY <2>8 DEF vars, IndInv, TypeOK, SlidersInBounds
  <2>9. QED
    BY <2>2, <2>3, <2>4, <2>5, <2>6, <2>7, <2>8 DEF Next
<1>3. QED
  BY <1>1, <1>2, PTL DEF Spec

\* No position, length or size of the trace handler goes below zero and no
\* state of another shape enters a trace (unsigned arithmetic of
\* trace_slider.rs, position_mapping.rs and par_builder.rs).
THEOREM TypeCorrect == Spec => []TypeOK
<1>1. IndInv => TypeOK
  BY DEF IndInv
<1>2. QED
  BY <1>1, HandlerInvariant, PTL

\* The sliders never point outside of their traces, for all traces and all
\* scripts (trace_slider.rs next_state and subtrace_len).
THEOREM SlidersStayInBounds == Spec => []SlidersInBounds
<1>1. IndInv => SlidersInBounds
  BY DEF IndInv
<1>2. QED
  BY <1>1, HandlerInvariant, PTL

\* At the end of a par the sliders always stand behind its subtrace
\* (par_fsm.rs right_completed, state_handler.rs handle_subgraph_end).
THEOREM ParEndRestores == Spec => ParEndRestoresSliders
<1> DEFINE A == Len(pars') < Len(pars) =>
                  \A side \in {"prev", "cur"} :
                    /\ keeper'[side].pos = Top(pars).rightEnd[side].pos
                    /\ SubtraceLen(keeper'[side]) = Top(pars).rightEnd[side].len
<1>1. IndInv /\ [Next]_vars => [A]_vars
  <2> SUFFICES ASSUME IndInv, Next, Len(pars') < Len(pars) PROVE A
    OBVIOUS
  <2>1. pars \in Seq(Frame) /\ Len(pars) \in Nat
    BY DEF IndInv, TypeOK
  <2>2. MeetParRightEnd
    <3>1. ASSUME NEW met, NEW ends, NEW stops, Meet(met, ends, stops) PROVE pars' = pars
      BY <3>1 DEF Meet, Fail
    <3>2. MeetCall \/ MeetAp \/ MeetCanon => pars' = pars
      BY <3>1 DEF MeetCall, MeetAp, MeetCanon
    <3>3. MeetParStart => Len(pars') >= Len(pars)
      BY <2>1 DEF MeetParStart, Fail
    <3>4. MeetParLeftEnd => Len(pars') = Len(pars)
      BY <2>1 DEF MeetParLeftEnd
    <3>5. QED
      BY <2>1, <3>2, <3>3, <3>4 DEF Next
  <2> DEFINE f == Top(pars)
  <2>3. /\ f \in Frame
        /\ keeper'.prev = SetPositionAndLen(keeper.prev, f.rightEnd.prev.pos,
                                            f.rightEnd.prev.len)
        /\ keeper'.cur = SetPositionAndLen(keeper.cur, f.rightEnd.cur.pos,
                                           f.rightEnd.cur.len)
    BY <2>2, ParRightEndStep
  <2>4. keeper.prev \in Slider /\ keeper.cur \in Slider
    BY DEF IndInv, TypeOK, Keeper
  <2>5. f.rightEnd.prev.len \in Nat /\ f.rightEnd.cur.len \in Nat
    BY <2>3 DEF Frame, EndState
  <2> HIDE DEF f
  <2>6. /\ keeper'.prev.pos = f.rightEnd.prev.pos
        /\ SubtraceLen(keeper'.prev) = f.rightEnd.prev.len
        /\ keeper'.cur.pos = f.rightEnd.cur.pos
        /\ SubtraceLen(keeper'.cur) = f.rightEnd.cur.len
    <3>1. ASSUME NEW sl \in Slider, NEW p, NEW n \in Nat
          PROVE  /\ SetPositionAndLen(sl, p, n).pos = p
                 /\ SubtraceLen(SetPositionAndLen(sl, p, n)) = n
      BY DEF SetPositionAndLen, SubtraceLen, Slider
    <3>2. QED
      BY <2>3, <2>4, <2>5, <3>1
  <2>7. QED
    BY <2>6 DEF f
<1>2. QED
  BY <1>1, HandlerInvariant, PTL DEF Spec, ParEndRestoresSliders

-----------------------------------------------------------------------------
(* The nesting of the pars of the result.                                  *)

\* The extent of a finished par is a pair of natural numbers.
LEMMA ClosedParTypes ==
  ASSUME NEW o \in Seq(State), NEW ps, NEW i \in ClosedPars(o, ps)
  PROVE  /\ i \in 1 .. Len(o) /\ IsPar(o[i]) /\ i \in Nat
         /\ \A n \in 1 .. Len(ps) : i # ps[n].at
         /\ LeftLast(o, i) \in Nat /\ RightLast(o, i) \in Nat
         /\ i <= LeftLast(o, i) /\ LeftLast(o, i) <= RightLast(o, i)
<1>1. i \in 1 .. Len(o) /\ IsPar(o[i]) /\ \A n \in 1 .. Len(ps) : i # ps[n].at
  BY DEF ClosedPars
<1>2. o[i] \in State /\ i \in Nat
  BY <1>1
<1>3. o[i].left \in Nat /\ o[i].right \in Nat
  BY <1>1, <1>2 DEF State, IsPar
<1>4. QED
  BY <1>1, <1>2, <1>3 DEF LeftLast, RightLast, ParSize

\* A longer result with the same finished pars and the same open ones is
\* nested as well.
LEMMA NestedLater ==
  ASSUME NEW o \in Seq(State), NEW q \in Seq(State), NEW ps \in Seq(Frame),
         WellNested(o, ClosedPars(o, ps)), Borders(o, ps),
         ClosedPars(q, ps) = ClosedPars(o, ps), Len(o) <= Len(q),
         \A i \in ClosedPars(o, ps) : q[i] = o[i]
  PROVE  WellNested(q, ClosedPars(q, ps)) /\ Borders(q, ps)
<1>1. \A i \in ClosedPars(o, ps) : /\ LeftLast(q, i) = LeftLast(o, i)
                                   /\ RightLast(q, i) = RightLast(o, i)
                                   /\ RightLast(o, i) \in Nat
  BY ClosedParTypes DEF LeftLast, RightLast
<1>2. Len(o) \in Nat /\ Len(q) \in Nat
  OBVIOUS
<1>3. WellNested(q, ClosedPars(q, ps))
  BY <1>1, <1>2 DEF WellNested
<1>4. Borders(q, ps)
  BY <1>1 DEF Borders
<1>5. QED
  BY <1>3, <1>4

\* Appending a state that is not a par keeps the finished pars.
LEMMA AppendNested ==
  ASSUME NEW o \in Seq(State), NEW st \in State, ~IsPar(st), NEW ps \in Seq(Frame),
         WellNested(o, ClosedPars(o, ps)), Borders(o, ps)
  PROVE  WellNested(Append(o, st), ClosedPars(Append(o, st), ps))
         /\ Borders(Append(o, st), ps)
<1> DEFINE q == Append(o, st)
<1>1. q \in Seq(State) /\ Len(q) = Len(o) + 1 /\ Len(o) \in Nat
      /\ q[Len(o) + 1] = st /\ \A i \in 1 .. Len(o) : q[i] = o[i]
  OBVIOUS
<1> HIDE DEF q
<1>2. ClosedPars(q, ps) = ClosedPars(o, ps)
  BY <1>1 DEF ClosedPars
<1>3. \A i \in ClosedPars(o, ps) : q[i] = o[i]
  BY <1>1 DEF ClosedPars
<1>4. Len(o) <= Len(q)
  BY <1>1
<1>5. WellNested(q, ClosedPars(q, ps)) /\ Borders(q, ps)
  <2>1. q \in Seq(State)
    BY <1>1
  <2>2. QED
    BY <1>2, <1>3, <1>4, <2>1, NestedLater
<1>6. QED
  BY <1>5 DEF q

\* A started par is open.
LEMMA StartNested ==
  ASSUME NEW o \in Seq(State), NEW ps \in Seq(Frame), NEW f \in Frame,
         WellNested(o, ClosedPars(o, ps)), Borders(o, ps),
         \A n \in 1 .. Len(ps) : ps[n].at <= ps[n].saved /\ ps[n].saved <= Len(o),
         f.at = Len(o) + 1, f.saved = Len(o) + 1, f.side = "left"
  PROVE  LET q == Append(o, Par(0, 0))
             fs == Append(ps, f)
         IN WellNested(q, ClosedPars(q, fs)) /\ Borders(q, fs)
<1> DEFINE q == Append(o, Par(0, 0))
           fs == Append(ps, f)
<1>1. q \in Seq(State) /\ Len(q) = Len(o) + 1 /\ Len(o) \in Nat
      /\ \A i \in 1 .. Len(o) : q[i] = o[i]
  <2>1. Par(0, 0) \in State
    BY EndsAreStates
  <2>2. QED
    BY <2>1
<1>2. fs \in Seq(Frame) /\ Len(fs) = Len(ps) + 1 /\ Len(ps) \in Nat
      /\ fs[Len(ps) + 1] = f /\ \A n \in 1 .. Len(ps) : fs[n] = ps[n]
  OBVIOUS
<1> HIDE DEF q, fs
<1>3. ClosedPars(q, fs) = ClosedPars(o, ps)
  <2>1. {fs[n].at : n \in 1 .. Len(fs)} = {ps[n].at : n \in 1 .. Len(ps)} \cup {Len(o) + 1}
    BY <1>2
  <2>2. 1 .. Len(q) = 1 .. Len(o) \cup {Len(o) + 1} /\ Len(o) + 1 \notin 1 .. Len(o)
    BY <1>1
  <2>3. QED
    BY <1>1, <2>1, <2>2 DEF ClosedPars
<1>4. \A i \in ClosedPars(o, ps) : /\ q[i] = o[i] /\ i \in Nat /\ i <= Len(o)
                                   /\ LeftLast(q, i) = LeftLast(o, i)
                                   /\ RightLast(q, i) = RightLast(o, i)
                                   /\ RightLast(o, i) \in Nat
                                   /\ RightLast(o, i) <= Len(o)
  BY <1>1, ClosedParTypes DEF ClosedPars, LeftLast, RightLast, WellNested
<1>5. WellNested(q, ClosedPars(q, fs))
  BY <1>1, <1>3, <1>4 DEF WellNested
<1>6. ASSUME NEW n \in 1 .. Len(fs)
      PROVE  /\ fs[n].saved = IF fs[n].side = "left" THEN fs[n].at
                                                     ELSE fs[n].at + fs[n].left
             /\ \A m \in 1 .. n - 1 : fs[m].saved < fs[n].at
             /\ \A i \in ClosedPars(q, fs) :
                  /\ i < fs[n].at => RightLast(q, i) < fs[n].at
                  /\ i <= fs[n].saved => RightLast(q, i) <= fs[n].saved
  <2>1. CASE n \in 1 .. Len(ps)
    <3>1. fs[n] = ps[n] /\ \A m \in 1 .. n - 1 : fs[m] = ps[m]
      BY <1>2, <2>1
    <3>2. QED
      BY <1>3, <1>4, <2>1, <3>1 DEF Borders
  <2>2. CASE n = Len(ps) + 1
    <3>1. fs[n] = f
      BY <1>2, <2>2
    <3>2. ASSUME NEW m \in 1 .. n - 1 PROVE fs[m].saved < fs[n].at
      <4>1. m \in 1 .. Len(ps) /\ fs[m] = ps[m] /\ ps[m].saved <= Len(o)
        BY <1>2, <2>2
      <4>a. ps[m] \in Frame
        BY <4>1
      <4>2. ps[m].saved \in Nat
        BY <4>a DEF Frame
      <4>3. QED
        BY <1>1, <3>1, <4>1, <4>2
    <3>3. QED
      BY <1>1, <1>3, <1>4, <3>1, <3>2
  <2>3. QED
    BY <1>2, <2>1, <2>2
<1>7. Borders(q, fs)
  BY <1>6 DEF Borders
<1>8. QED
  BY <1>5, <1>7 DEF q, fs

\* The end of the left subgraph moves the border of the innermost open par.
LEMMA LeftEndNested ==
  ASSUME NEW o \in Seq(State), NEW ps \in Seq(Frame), NEW g \in Frame,
         WellNested(o, ClosedPars(o, ps)), Borders(o, ps), ps # <<>>,
         ps[Len(ps)].side = "left",
         g.at = ps[Len(ps)].at, g.left = Len(o) - ps[Len(ps)].saved,
         g.saved = Len(o), g.side = "right"
  PROVE  LET fs == [ps EXCEPT ![Len(ps)] = g]
         IN WellNested(o, ClosedPars(o, fs)) /\ Borders(o, fs)
<1> DEFINE fs == [ps EXCEPT ![Len(ps)] = g]
           N  == Len(ps)
<1>1. N \in Nat \ {0} /\ Len(fs) = N /\ fs[N] = g
      /\ \A n \in 1 .. N - 1 : fs[n] = ps[n]
  OBVIOUS
<1>2. ps[N] \in Frame /\ N \in 1 .. Len(ps)
  BY <1>1
<1>3. ps[N].at \in Nat /\ ps[N].saved = ps[N].at /\ ps[N].side = "left"
  BY <1>2 DEF Borders, Frame
<1> HIDE DEF fs
<1>4. ClosedPars(o, fs) = ClosedPars(o, ps)
  <2>1. {fs[n].at : n \in 1 .. Len(fs)} = {ps[n].at : n \in 1 .. Len(ps)}
    BY <1>1
  <2>2. QED
    BY <2>1 DEF ClosedPars
<1>5. ASSUME NEW n \in 1 .. Len(fs)
      PROVE  /\ fs[n].saved = IF fs[n].side = "left" THEN fs[n].at
                                                     ELSE fs[n].at + fs[n].left
             /\ \A m \in 1 .. n - 1 : fs[m].saved < fs[n].at
             /\ \A i \in ClosedPars(o, fs) :
                  /\ i < fs[n].at => RightLast(o, i) < fs[n].at
                  /\ i <= fs[n].saved => RightLast(o, i) <= fs[n].saved
  <2>1. \A m \in 1 .. n - 1 : fs[m] = ps[m]
    BY <1>1
  <2>2. CASE n \in 1 .. N - 1
    <3>1. fs[n] = ps[n] /\ n \in 1 .. Len(ps)
      BY <1>1, <2>2
    <3>2. QED
      BY <1>4, <2>1, <3>1 DEF Borders
  <2>3. CASE n = N
    <3>1. fs[n] = g /\ fs[n].at = ps[N].at
      BY <1>1, <2>3
    <3>2. fs[n].saved = fs[n].at + fs[n].left
      BY <1>3, <3>1
    <3>3. \A m \in 1 .. n - 1 : fs[m].saved < fs[n].at
      BY <1>2, <2>1, <2>3, <3>1 DEF Borders
    <3>4. \A i \in ClosedPars(o, fs) : i < fs[n].at => RightLast(o, i) < fs[n].at
      BY <1>2, <1>4, <3>1 DEF Borders
    <3>5. \A i \in ClosedPars(o, fs) : RightLast(o, i) <= fs[n].saved
      BY <1>4, <3>1 DEF WellNested
    <3>6. QED
      BY <3>1, <3>2, <3>3, <3>4, <3>5
  <2>4. QED
    BY <1>1, <2>2, <2>3
<1>6. Borders(o, fs)
  BY <1>5 DEF Borders
<1>7. QED
  BY <1>4, <1>6 DEF fs

\* The end of the right subgraph closes the innermost open par: its left
\* subgraph ends at the border, its right one at the end of the result.
LEMMA RightEndNested ==
  ASSUME NEW o \in Seq(State), NEW ps \in Seq(Frame), ps # <<>>,
         WellNested(o, ClosedPars(o, ps)), Borders(o, ps),
         \A n \in 1 .. Len(ps) : ps[n].at <= ps[n].saved /\ ps[n].saved <= Len(o),
         ps[Len(ps)].side = "right"
  PROVE  LET f == ps[Len(ps)]
             q == [o EXCEPT ![f.at] = Par(f.left, Len(o) - f.saved)]
         IN WellNested(q, ClosedPars(q, Pop(ps))) /\ Borders(q, Pop(ps))
<1> DEFINE N  == Len(ps)
           f  == ps[N]
           st == Par(f.left, Len(o) - f.saved)
           q  == [o EXCEPT ![f.at] = st]
           fs == Pop(ps)
<1>1. N \in Nat \ {0} /\ N \in 1 .. Len(ps)
  OBVIOUS
<1>2. Len(fs) = N - 1 /\ \A n \in 1 .. N - 1 : fs[n] = ps[n]
  BY <1>1, PopProperties
<1>3. \A n \in 1 .. N : ps[n].at \in Nat /\ ps[n].saved \in Nat /\ ps[n].left \in Nat
                        /\ ps[n].at >= 1
  <2>1. \A fr \in Frame : fr.at \in Nat /\ fr.saved \in Nat /\ fr.left \in Nat
                          /\ fr.at >= 1
    BY DEF Frame
  <2>2. \A n \in 1 .. N : ps[n] \in Frame
    OBVIOUS
  <2>3. QED
    BY <2>1, <2>2
<1>4. f.at \in 1 .. Len(o) /\ f.at \in Nat /\ f.saved \in Nat /\ f.left \in Nat
      /\ f.saved = f.at + f.left /\ f.saved <= Len(o) /\ Len(o) \in Nat
  <2>1. f.at \in Nat /\ f.saved \in Nat /\ f.left \in Nat /\ f.at >= 1
    BY <1>1, <1>3
  <2>2. f.at <= f.saved /\ f.saved <= Len(o)
    BY <1>1
  <2>3. f.saved = f.at + f.left
    BY <1>1 DEF Borders
  <2>4. Len(o) \in Nat
    OBVIOUS
  <2>5. QED
    BY <2>1, <2>2, <2>3, <2>4
<1>5. Len(q) = Len(o) /\ q[f.at] = st
      /\ \A i \in 1 .. Len(o) : i # f.at => q[i] = o[i]
  BY <1>4
<1>6. st.kind = "par" /\ st.left = f.left /\ st.right = Len(o) - f.saved
  BY DEF Par
<1>7. \A n \in 1 .. N - 1 : ps[n].at < f.at /\ ps[n].saved < f.at
  <2>1. \A n \in 1 .. N - 1 : n \in 1 .. N /\ ps[n].saved < f.at
    BY <1>1 DEF Borders
  <2>2. \A n \in 1 .. N : ps[n].at <= ps[n].saved
    OBVIOUS
  <2> HIDE DEF N, f
  <2>3. QED
    BY <1>3, <1>4, <2>1, <2>2
<1> HIDE DEF q, fs, st, f, N
<1>8. /\ ClosedPars(q, fs) = ClosedPars(o, ps) \cup {f.at}
      /\ f.at \notin ClosedPars(o, ps)
  <2>1. {ps[n].at : n \in 1 .. Len(ps)} = {fs[n].at : n \in 1 .. Len(fs)} \cup {f.at}
    <3>1. Len(ps) = N /\ 1 .. N = (1 .. N - 1) \cup {N} /\ f = ps[N]
      BY <1>1 DEF N, f
    <3>2. QED
      BY <1>2, <3>1
  <2>2. f.at \notin {fs[n].at : n \in 1 .. Len(fs)}
    <3>1. ASSUME NEW n \in 1 .. N - 1 PROVE fs[n].at # f.at
      <4>1. n \in 1 .. N /\ fs[n] = ps[n] /\ ps[n].at < f.at
        BY <1>1, <1>2, <1>7
      <4>2. ps[n].at \in Nat
        BY <1>3, <4>1
      <4>3. QED
        BY <1>4, <4>1, <4>2
    <3>2. QED
      BY <1>2, <3>1
  <2>3. \A i \in 1 .. Len(o) : i = f.at => IsPar(q[i])
    BY <1>5, <1>6 DEF IsPar
  <2>4. \A i \in 1 .. Len(o) : i # f.at => (IsPar(q[i]) <=> IsPar(o[i]))
    BY <1>5
  <2>5. QED
    BY <1>4, <1>5, <2>1, <2>2, <2>3, <2>4 DEF ClosedPars
<1>9. LeftLast(q, f.at) = f.saved /\ RightLast(q, f.at) = Len(o)
  BY <1>4, <1>5, <1>6 DEF LeftLast, RightLast, ParSize
<1>10. \A i \in ClosedPars(o, ps) :
         /\ i \in Nat /\ i <= Len(o) /\ i # f.at
         /\ LeftLast(q, i) = LeftLast(o, i) /\ RightLast(q, i) = RightLast(o, i)
         /\ LeftLast(o, i) \in Nat /\ RightLast(o, i) \in Nat /\ i <= LeftLast(o, i)
         /\ LeftLast(o, i) <= RightLast(o, i) /\ RightLast(o, i) <= Len(o)
  <2>1. ASSUME NEW i \in ClosedPars(o, ps)
        PROVE i \in 1 .. Len(o) /\ i # f.at /\ q[i] = o[i]
    BY <1>5, <1>8, <2>1, ClosedParTypes
  <2>2. QED
    BY <2>1, ClosedParTypes DEF LeftLast, RightLast, WellNested
<1>11. \A i \in ClosedPars(o, ps) :
         /\ i < f.at => RightLast(o, i) < f.at
         /\ i <= f.saved => RightLast(o, i) <= f.saved
  BY <1>1 DEF Borders, f, N
<1>12. WellNested(q, ClosedPars(q, fs))
  <2>1. ASSUME NEW i \in ClosedPars(q, fs) PROVE RightLast(q, i) <= Len(q)
    BY <1>4, <1>5, <1>8, <1>9, <1>10
  <2>2. ASSUME NEW i \in ClosedPars(q, fs), NEW j \in ClosedPars(q, fs)
        PROVE  /\ i < j /\ j <= LeftLast(q, i) => RightLast(q, j) <= LeftLast(q, i)
               /\ LeftLast(q, i) < j /\ j <= RightLast(q, i)
                    => RightLast(q, j) <= RightLast(q, i)
    <3>1. CASE i \in ClosedPars(o, ps) /\ j \in ClosedPars(o, ps)
      BY <1>10, <3>1 DEF WellNested
    <3>2. CASE i = f.at /\ j \in ClosedPars(o, ps)
      BY <1>4, <1>9, <1>10, <1>11, <3>2
    <3>3. CASE i \in ClosedPars(o, ps) /\ j = f.at
      BY <1>4, <1>10, <1>11, <3>3
    <3>4. CASE i = f.at /\ j = f.at
      BY <1>4, <1>9, <3>4
    <3>5. QED
      BY <1>8, <3>1, <3>2, <3>3, <3>4
  <2>3. QED
    BY <2>1, <2>2 DEF WellNested
<1>13. Borders(q, fs)
  <2>1. ASSUME NEW n \in 1 .. Len(fs)
        PROVE  /\ fs[n].saved = IF fs[n].side = "left" THEN fs[n].at
                                                       ELSE fs[n].at + fs[n].left
               /\ \A m \in 1 .. n - 1 : fs[m].saved < fs[n].at
               /\ \A i \in ClosedPars(q, fs) :
                    /\ i < fs[n].at => RightLast(q, i) < fs[n].at
                    /\ i <= fs[n].saved => RightLast(q, i) <= fs[n].saved
    <3>1. n \in 1 .. N - 1 /\ n \in 1 .. Len(ps) /\ fs[n] = ps[n]
          /\ \A m \in 1 .. n - 1 : fs[m] = ps[m]
      <4>1. Len(ps) = N
        BY DEF N
      <4>2. QED
        BY <1>1, <1>2, <2>1, <4>1
    <3>2. \A i \in ClosedPars(o, ps) :
            /\ i < fs[n].at => RightLast(q, i) < fs[n].at
            /\ i <= fs[n].saved => RightLast(q, i) <= fs[n].saved
      BY <1>10, <3>1 DEF Borders
    <3>3. ~(f.at < fs[n].at) /\ ~(f.at <= fs[n].saved)
      <4>1. n \in 1 .. N /\ ps[n].at < f.at /\ ps[n].saved < f.at
        BY <1>1, <1>7, <3>1
      <4>2. ps[n].at \in Nat /\ ps[n].saved \in Nat
        BY <1>3, <4>1
      <4>3. QED
        BY <1>4, <3>1, <4>1, <4>2
    <3>4. QED
      BY <1>8, <3>1, <3>2, <3>3 DEF Borders
  <2>2. QED
    BY <2>1 DEF Borders
<1>14. QED
  BY <1>12, <1>13 DEF q, fs, st, f, N

\* No instruction but par writes a par.
LEMMA EndsAreNoPars ==
  /\ \A met : \A st \in CallEnds(met) : ~IsPar(st)
  /\ \A met : \A st \in CanonEnds(met) : ~IsPar(st)
  /\ ~IsPar(Ap(<<StubGen>>))
<1>1. ASSUME NEW met, NEW st \in CallEnds(met) PROVE ~IsPar(st)
  BY <1>1 DEF CallEnds, IsSent, IsPar, Scalar, Failed, Unused, StreamValue,
              SentBy, SentByWithId
<1>2. ASSUME NEW met, NEW st \in CanonEnds(met) PROVE ~IsPar(st)
  BY <1>2 DEF CanonEnds, IsPar, CanonExecuted, CanonSentBy
<1>3. ~IsPar(Ap(<<StubGen>>))
  BY DEF IsPar, Ap
<1>4. QED
  BY <1>1, <1>2, <1>3

LEMMA MeetNested ==
  ASSUME IndInv, NestInv, NEW met, NEW ends \in SUBSET State,
         \A st \in ends : ~IsPar(st),
         NEW stops, Meet(met, ends, stops)
  PROVE  NestInv'
<1>1. keeper \in Keeper /\ keeper.out \in Seq(State) /\ pars \in Seq(Frame)
  BY DEF IndInv, TypeOK, Keeper
<1>2. AfterMet(keeper, met).out = keeper.out
  BY <1>1 DEF AfterMet, MapPositions, PopStates, Keeper
<1>3. pars' = pars
  BY DEF Meet, Fail
<1>4. CASE keeper'.out = keeper.out
  BY <1>3, <1>4 DEF NestInv, ParsWellNested
<1>5. CASE \E st \in ends : keeper'.out = Append(keeper.out, st)
  <2>1. PICK st \in State : ~IsPar(st) /\ keeper'.out = Append(keeper.out, st)
    BY <1>5
  <2>2. QED
    BY <1>1, <1>3, <2>1, AppendNested DEF NestInv, ParsWellNested
<1>6. \/ keeper'.out = keeper.out
      \/ \E st \in ends : keeper'.out = Append(keeper.out, st)
  <2>1. \A st : PushState(AfterMet(keeper, met), st).out = Append(keeper.out, st)
    BY <1>1, <1>2 DEF PushState, AfterMet, MapPositions, PopStates, Keeper
  <2>2. QED
    BY <1>2, <2>1 DEF Meet, Fail
<1>7. QED
  BY <1>4, <1>5, <1>6

LEMMA ParStartNested ==
  ASSUME IndInv, IndInv', NestInv, MeetParStart
  PROVE  NestInv'
<1> DEFINE k == PopStates(keeper)
           f == ParFrame(k, MetPar(keeper))
<1>1. keeper \in Keeper /\ keeper.out \in Seq(State) /\ pars \in Seq(Frame)
      /\ k.out = keeper.out
  BY DEF IndInv, TypeOK, Keeper, PopStates
<1>2. CASE Fail
  BY <1>2 DEF Fail, NestInv, ParsWellNested
<1>3. CASE keeper' = StartPar(k, MetPar(keeper)) /\ pars' = Append(pars, f)
  <2>1. keeper'.out = Append(keeper.out, Par(0, 0))
    BY <1>1, <1>3 DEF StartPar, PushState, PopStates, Keeper
  <2>2. f.at = Len(keeper.out) + 1 /\ f.saved = Len(keeper.out) + 1 /\ f.side = "left"
    BY <1>1 DEF ParFrame
  <2>3. f \in Frame
    <3>1. pars' \in Seq(Frame)
      BY DEF IndInv, TypeOK
    <3> HIDE DEF f
    <3>2. Len(pars') = Len(pars) + 1 /\ pars'[Len(pars) + 1] = f /\ Len(pars) \in Nat
      BY <1>1, <1>3
    <3>3. QED
      BY <3>1, <3>2
  <2>4. \A n \in 1 .. Len(pars) : pars[n].at <= pars[n].saved
                                  /\ pars[n].saved <= Len(keeper.out)
    BY DEF IndInv, FrameFits
  <2> HIDE DEF f
  <2>5. QED
    BY <1>1, <1>3, <2>1, <2>2, <2>3, <2>4, StartNested DEF NestInv, ParsWellNested
<1>4. QED
  BY <1>2, <1>3 DEF MeetParStart

LEMMA ParLeftEndNested ==
  ASSUME IndInv, IndInv', NestInv, MeetParLeftEnd
  PROVE  NestInv'
<1> DEFINE g == LeftFrame(keeper, Top(pars))
<1>1. keeper \in Keeper /\ keeper.out \in Seq(State) /\ pars \in Seq(Frame)
      /\ pars # <<>> /\ Len(pars) \in 1 .. Len(pars) /\ Top(pars) \in Frame
  BY DEF IndInv, TypeOK, Keeper, MeetParLeftEnd, Top
<1>2. keeper'.out = keeper.out
  BY <1>1 DEF MeetParLeftEnd, LeftCompleted, PrepareRightSliders, UpdateCtxStates, Keeper
<1>3. pars' = [pars EXCEPT ![Len(pars)] = g]
  BY <1>1 DEF MeetParLeftEnd, Top
<1>4. /\ g.at = pars[Len(pars)].at /\ g.left = Len(keeper.out) - pars[Len(pars)].saved
      /\ g.saved = Len(keeper.out) /\ g.side = "right"
      /\ pars[Len(pars)].side = "left"
  BY <1>1 DEF LeftFrame, Frame, Top, MeetParLeftEnd
<1>5. g \in Frame
  <2>1. pars' \in Seq(Frame)
    BY DEF IndInv, TypeOK
  <2> HIDE DEF g
  <2>2. Len(pars') = Len(pars) /\ pars'[Len(pars)] = g
    BY <1>1, <1>3
  <2>3. QED
    BY <1>1, <2>1, <2>2
<1> HIDE DEF g
<1>6. QED
  BY <1>1, <1>2, <1>3, <1>4, <1>5, LeftEndNested DEF NestInv, ParsWellNested

LEMMA ParRightEndNested ==
  ASSUME IndInv, NestInv, MeetParRightEnd
  PROVE  NestInv'
<1>1. keeper.out \in Seq(State) /\ pars \in Seq(Frame) /\ pars # <<>>
      /\ pars[Len(pars)].side = "right" /\ pars' = Pop(pars)
  BY DEF IndInv, TypeOK, Keeper, MeetParRightEnd, Top
<1>2. keeper'.out = [keeper.out EXCEPT ![pars[Len(pars)].at] =
                       Par(pars[Len(pars)].left,
                           Len(keeper.out) - pars[Len(pars)].saved)]
  BY ParRightEndStep DEF Top
<1>3. \A n \in 1 .. Len(pars) : pars[n].at <= pars[n].saved
                                /\ pars[n].saved <= Len(keeper.out)
  BY DEF IndInv, FrameFits
<1>4. QED
  BY <1>1, <1>2, <1>3, RightEndNested DEF NestInv, ParsWellNested

\* In the result of every run the par states hold the sizes of the subgraphs
\* that follow them (par_builder.rs), so that the next run cuts the right
\* subtraces out of it.
THEOREM ParsNested == Spec => []ParsWellNested
<1>1. Init => NestInv
  <2> SUFFICES ASSUME Init PROVE NestInv
    OBVIOUS
  <2>1. keeper.out = <<>> /\ pars = <<>>
    BY DEF Init, NewKeeper
  <2>2. ClosedPars(keeper.out, pars) = {}
    BY <2>1 DEF ClosedPars
  <2>3. QED
    BY <2>1, <2>2 DEF NestInv, ParsWellNested, WellNested, Borders
<1>2. IndInv /\ IndInv' /\ NestInv /\ [Next]_vars => NestInv'
  <2> SUFFICES ASSUME IndInv, IndInv', NestInv, [Next]_vars PROVE NestInv'
    OBVIOUS
  <2>1. NextState(keeper.prev) \in State \cup {NoState}
        /\ NextState(keeper.cur) \in State \cup {NoState}
    BY AdvanceInBounds DEF IndInv, TypeOK, SlidersInBounds, Keeper
  <2>2. CASE MeetCall
    <3>1. CallEnds(MetCall(keeper).state) \in SUBSET State
      BY <2>1, MergersFit, EndsAreStates DEF MetCall, MetFits
    <3>2. QED
      BY <2>2, <3>1, EndsAreNoPars, MeetNested DEF MeetCall
  <2>3. CASE MeetAp
    <3>1. {Ap(<<StubGen>>)} \in SUBSET State
          /\ \A st \in {Ap(<<StubGen>>)} : ~IsPar(st)
      BY EndsAreStates, EndsAreNoPars
    <3>2. QED
      BY <2>3, <3>1, MeetNested DEF MeetAp
  <2>4. CASE MeetCanon
    <3>1. CanonEnds(MetCanon(keeper).state) \in SUBSET State
      BY <2>1, MergersFit, EndsAreStates DEF MetCanon, MetFits
    <3>2. QED
      BY <2>4, <3>1, EndsAreNoPars, MeetNested DEF MeetCanon
  <2>5. CASE MeetParStart
    BY <2>5, ParStartNested
  <2>6. CASE MeetParLeftEnd
    BY <2>6, ParLeftEndNested
  <2>7. CASE MeetParRightEnd
    BY <2>7, ParRightEndNested
  <2>8. CASE UNCHANGED vars
    BY <2>8 DEF vars, NestInv, ParsWellNested
  <2>9. QED
    BY <2>2, <2>3, <2>4, <2>5, <2>6, <2>7, <2>8 DEF Next
<1>3. NestInv => ParsWellNested
  BY DEF NestInv
<1>4. QED
  BY <1>1, <1>2, <1>3, HandlerInvariant, PTL DEF Spec
=============================================================================
