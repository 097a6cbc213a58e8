------------------------- MODULE TraceReading_proofs -------------------------
(***************************************************************************)
(* Theorems about how the trace handler reads its input traces: no slider  *)
(* moves back, the position mapping leads to the state that was read, and  *)
(* merging two states loses and invents nothing.                           *)
(***************************************************************************)
EXTENDS TraceHandler_proofs

-----------------------------------------------------------------------------
(* The inductive invariants.                                               *)

\* Where the sliders will stand when the running subgraph of a par has ended.
EndOf(f) == IF f.side = "left" THEN f.leftEnd ELSE f.rightEnd

\* The window of a slider ends before that.
Before(s, e) == s.pos + SubtraceLen(s) <= e.pos

\* The two ends of a par are as far apart as its right subgraph is long, and
\* what remains behind a par ends before the end of the subgraph it stands in.
FrameWindow(ps, n) ==
  LET f == ps[n] IN
  /\ f.leftEnd.prev.pos + f.prevPar.right = f.rightEnd.prev.pos
  /\ f.leftEnd.cur.pos + f.curPar.right = f.rightEnd.cur.pos
  /\ n > 1 => /\ f.rightEnd.prev.pos + f.rightEnd.prev.len <= EndOf(ps[n - 1]).prev.pos
              /\ f.rightEnd.cur.pos + f.rightEnd.cur.len <= EndOf(ps[n - 1]).cur.pos

\* Why a slider has not passed the end that a par will set it to.
WindowInv ==
  /\ \A n \in 1 .. Len(pars) : FrameWindow(pars, n)
  /\ pars # <<>> => /\ Before(keeper.prev, EndOf(Top(pars)).prev)
                    /\ Before(keeper.cur, EndOf(Top(pars)).cur)

\* Why a par that ends does not overwrite a state that the mapping points to.
MappingInv ==
  /\ MappingPointsBack
  /\ \A m \in Mapped : \A n \in 1 .. Len(pars) : m[1] + 1 # pars[n].at

-----------------------------------------------------------------------------
(* Sliders.                                                                *)

\* next_state() leaves the end of the window where it is.
LEMMA AdvanceWindow ==
  ASSUME NEW s \in Slider, InBounds(s)
  PROVE  /\ Advance(s).pos + SubtraceLen(Advance(s)) = s.pos + SubtraceLen(s)
         /\ s.pos + SubtraceLen(s) \in Nat /\ Advance(s).pos >= s.pos
<1>1. CASE HasNext(s)
  <2>1. Advance(s) = [s EXCEPT !.pos = @ + 1, !.seen = @ + 1]
    BY <1>1 DEF Advance
  <2>2. /\ Advance(s).pos = s.pos + 1 /\ Advance(s).len = s.len
        /\ Advance(s).seen = s.seen + 1
    BY <2>1 DEF Slider
  <2>3. QED
    BY <2>2 DEF Slider, SubtraceLen, InBounds
<1>2. CASE ~HasNext(s)
  BY <1>2 DEF Advance, Slider, SubtraceLen, InBounds
<1>3. QED
  BY <1>1, <1>2

\* A slider with a window inside its trace ends before e only if it stands
\* before e.
LEMMA BeforeEnd ==
  ASSUME NEW s \in Slider, InBounds(s), NEW e \in EndState, Before(s, e)
  PROVE  s.pos <= e.pos
  BY DEF Slider, InBounds, EndState, Before, SubtraceLen

\* The left end of a par on one slider: whether or not the prepared position
\* is taken, the slider does not move back, the window of the right subgraph
\* can be set, and it ends before the right end.
LEMMA LeftEndSlider ==
  ASSUME NEW s \in Slider, InBounds(s), NEW e \in EndState, Before(s, e),
         NEW right \in Nat, e.pos + right <= Len(s.trace)
  PROVE  LET u == UpdateCtxState(s, e) IN
         /\ u \in Slider /\ CanSetSubtraceLen(u, right)
         /\ SetSubtraceLen(u, right).pos >= s.pos
         /\ SetSubtraceLen(u, right).pos + SubtraceLen(SetSubtraceLen(u, right))
              <= e.pos + right
<1> DEFINE u == UpdateCtxState(s, e)
           w == SetSubtraceLen(u, right)
<1>1. s.pos <= e.pos /\ e.pos \in Nat /\ s.pos \in Nat
  BY BeforeEnd DEF EndState, Slider
<1>2. u \in Slider /\ u.trace = s.trace
  <2>1. Len(s.trace) \in Nat
    BY DEF Slider
  <2>2. e.pos <= Len(s.trace)
    BY <1>1, <2>1
  <2>3. QED
    BY <2>2, UpdateCtxStateInBounds
<1>3. u.pos = e.pos \/ u.pos = s.pos
  BY DEF UpdateCtxState, SetPositionAndLen, Slider
<1> HIDE DEF u
<1>4. CanSetSubtraceLen(u, right)
  BY <1>1, <1>2, <1>3 DEF CanSetSubtraceLen, Slider
<1>5. w.pos = u.pos /\ w.len = right /\ w.seen = 0
  BY <1>2 DEF SetSubtraceLen, Slider
<1>6. w.pos >= s.pos /\ w.pos + SubtraceLen(w) <= e.pos + right
  <2> HIDE DEF w
  <2>1. QED
    BY <1>1, <1>3, <1>5 DEF SubtraceLen
<1>7. QED
  BY <1>2, <1>4, <1>6 DEF u

\* The start of a par on one slider s that has popped the par: the windows of
\* its two subgraphs and the rest lie behind each other.
LEMMA ParStartSlider ==
  ASSUME NEW s \in Slider, InBounds(s), NEW par \in ParResult, ParFits(par, s)
  PROVE  LET w == SetSubtraceLen(s, par.left)
             l == LeftEndState(par, s)
             r == RightEndState(par, s) IN
         /\ w.pos = s.pos /\ Before(w, l)
         /\ l.pos + par.right = r.pos
         /\ r.pos + r.len = s.pos + SubtraceLen(s)
<1>1. par.left \in Nat /\ par.right \in Nat
  BY DEF ParResult
<1>2. s.pos \in Nat /\ s.len \in Nat /\ s.seen \in Nat
  BY DEF Slider
<1>3. LET w == SetSubtraceLen(s, par.left) IN
      w.pos = s.pos /\ w.len = par.left /\ w.seen = 0
  BY DEF SetSubtraceLen, Slider
<1>4. QED
  BY <1>1, <1>2, <1>3 DEF Before, SubtraceLen, LeftEndState, RightEndState, ParSize

-----------------------------------------------------------------------------
(* The actions.                                                            *)

\* What a step of the handler does to the positions of its sliders.
Forward == keeper'.prev.pos >= keeper.prev.pos /\ keeper'.cur.pos >= keeper.cur.pos

\* The facts about the keeper and the stack that every action starts from.
LEMMA KeeperFacts ==
  ASSUME IndInv
  PROVE  /\ KeeperInBounds(keeper) /\ keeper \in Keeper
         /\ keeper.prev \in Slider /\ InBounds(keeper.prev)
         /\ keeper.cur \in Slider /\ InBounds(keeper.cur)
         /\ keeper.prev.pos \in Nat /\ keeper.cur.pos \in Nat
         /\ keeper.out \in Seq(State) /\ pars \in Seq(Frame)
         /\ NextState(keeper.prev) \in State \cup {NoState}
         /\ NextState(keeper.cur) \in State \cup {NoState}
<1>1. /\ KeeperInBounds(keeper) /\ keeper \in Keeper
      /\ keeper.prev \in Slider /\ InBounds(keeper.prev)
      /\ keeper.cur \in Slider /\ InBounds(keeper.cur)
      /\ keeper.out \in Seq(State) /\ pars \in Seq(Frame)
  BY DEF IndInv, TypeOK, SlidersInBounds, KeeperInBounds, Keeper
<1>2. keeper.prev.pos \in Nat /\ keeper.cur.pos \in Nat
  BY <1>1 DEF Slider
<1>3. QED
  BY <1>1, <1>2, AdvanceInBounds

\* An instruction that reads one state moves inside the window it stands in.
LEMMA MeetWindow ==
  ASSUME IndInv, WindowInv, NEW met, NEW ends \in SUBSET State,
         MetFits(met, NextState(keeper.prev), NextState(keeper.cur)),
         NEW stops, Meet(met, ends, stops)
  PROVE  WindowInv' /\ Forward
<1>1. CASE Fail
  BY <1>1, KeeperFacts DEF Fail, WindowInv, Forward
<1>2. CASE /\ UNCHANGED <<pars, status>>
           /\ \/ \E st \in ends : keeper' = PushState(AfterMet(keeper, met), st)
              \/ keeper' = AfterMet(keeper, met)
  <2>1. /\ KeeperInBounds(AfterMet(keeper, met))
        /\ AfterMet(keeper, met).prev = Advance(keeper.prev)
        /\ AfterMet(keeper, met).cur = Advance(keeper.cur)
    BY KeeperFacts, AfterMetInBounds
  <2>2. keeper'.prev = Advance(keeper.prev) /\ keeper'.cur = Advance(keeper.cur)
    BY <1>2, <2>1, PushStateInBounds
  <2>3. /\ keeper'.prev.pos + SubtraceLen(keeper'.prev)
             = keeper.prev.pos + SubtraceLen(keeper.prev)
        /\ keeper'.cur.pos + SubtraceLen(keeper'.cur)
             = keeper.cur.pos + SubtraceLen(keeper.cur)
        /\ Forward
    BY <2>2, KeeperFacts, AdvanceWindow DEF Forward
  <2>4. QED
    BY <1>2, <2>3 DEF WindowInv, Before
<1>3. QED
  BY <1>1, <1>2 DEF Meet

\* What the start of a par leaves, when it is no error.
LEMMA ParStartStep ==
  ASSUME IndInv, MeetParStart, ~Fail
  PROVE  LET met == MetPar(keeper)
             k   == PopStates(keeper) IN
         /\ k.prev = Advance(keeper.prev) /\ k.cur = Advance(keeper.cur)
         /\ k.prev \in Slider /\ InBounds(k.prev) /\ k.cur \in Slider /\ InBounds(k.cur)
         /\ met.prev \in ParResult /\ met.cur \in ParResult
         /\ ParFits(met.prev, k.prev) /\ ParFits(met.cur, k.cur)
         /\ keeper'.prev = SetSubtraceLen(k.prev, met.prev.left)
         /\ keeper'.cur = SetSubtraceLen(k.cur, met.cur.left)
         /\ keeper'.out = Append(keeper.out, Par(0, 0))
         /\ keeper'.toPrev = keeper.toPrev
         /\ pars' = Append(pars, ParFrame(k, met))
<1> DEFINE met == MetPar(keeper)
           k   == PopStates(keeper)
<1>1. CanStartPar(k, met) /\ keeper' = StartPar(k, met)
      /\ pars' = Append(pars, ParFrame(k, met))
  BY DEF MeetParStart
<1>2. KeeperInBounds(k) /\ k.prev = Advance(keeper.prev) /\ k.cur = Advance(keeper.cur)
      /\ k.out = keeper.out
  BY KeeperFacts, PopStatesInBounds
<1>3. k \in Keeper /\ k.prev \in Slider /\ InBounds(k.prev)
      /\ k.cur \in Slider /\ InBounds(k.cur)
  BY <1>2 DEF KeeperInBounds, Keeper
<1>4. k.toPrev = keeper.toPrev
  BY KeeperFacts DEF PopStates, Keeper
<1>5. met.prev \in ParResult /\ met.cur \in ParResult
  BY <1>1, KeeperFacts, MetParFits DEF MetPar, CanStartPar
<1>6. ParFits(met.prev, k.prev) /\ ParFits(met.cur, k.cur)
  BY <1>1 DEF CanStartPar
<1> HIDE DEF k, met
<1>7. /\ keeper'.prev = SetSubtraceLen(k.prev, met.prev.left)
      /\ keeper'.cur = SetSubtraceLen(k.cur, met.cur.left)
      /\ keeper'.out = Append(k.out, Par(0, 0))
      /\ keeper'.toPrev = k.toPrev
  BY <1>1, <1>3 DEF StartPar, PushState, Keeper
<1>8. QED
  BY <1>1, <1>2, <1>3, <1>4, <1>5, <1>6, <1>7 DEF k, met

\* The windows of the subgraphs of a new par lie inside the enclosing one.
LEMMA ParStartWindow ==
  ASSUME IndInv, WindowInv, MeetParStart
  PROVE  WindowInv' /\ Forward
<1> DEFINE met == MetPar(keeper)
           k   == PopStates(keeper)
           f   == ParFrame(k, met)
<1>1. CASE Fail
  BY <1>1, KeeperFacts DEF Fail, WindowInv, Forward
<1>2. CASE ~Fail
  <2>1. /\ k.prev = Advance(keeper.prev) /\ k.cur = Advance(keeper.cur)
        /\ k.prev \in Slider /\ InBounds(k.prev) /\ k.cur \in Slider /\ InBounds(k.cur)
        /\ met.prev \in ParResult /\ met.cur \in ParResult
        /\ ParFits(met.prev, k.prev) /\ ParFits(met.cur, k.cur)
        /\ keeper'.prev = SetSubtraceLen(k.prev, met.prev.left)
        /\ keeper'.cur = SetSubtraceLen(k.cur, met.cur.left)
        /\ pars' = Append(pars, f)
    BY <1>2, ParStartStep
  <2>2. /\ f.prevPar = met.prev /\ f.curPar = met.cur /\ f.side = "left"
        /\ f.leftEnd.prev = LeftEndState(met.prev, k.prev)
        /\ f.leftEnd.cur = LeftEndState(met.cur, k.cur)
        /\ f.rightEnd.prev = RightEndState(met.prev, k.prev)
        /\ f.rightEnd.cur = RightEndState(met.cur, k.cur)
    BY DEF ParFrame
  <2> HIDE DEF f, k, met
  <2>3. /\ keeper'.prev.pos = k.prev.pos /\ Before(keeper'.prev, f.leftEnd.prev)
        /\ f.leftEnd.prev.pos + f.prevPar.right = f.rightEnd.prev.pos
        /\ f.rightEnd.prev.pos + f.rightEnd.prev.len = k.prev.pos + SubtraceLen(k.prev)
    BY <2>1, <2>2, ParStartSlider
  <2>4. /\ keeper'.cur.pos = k.cur.pos /\ Before(keeper'.cur, f.leftEnd.cur)
        /\ f.leftEnd.cur.pos + f.curPar.right = f.rightEnd.cur.pos
        /\ f.rightEnd.cur.pos + f.rightEnd.cur.len = k.cur.pos + SubtraceLen(k.cur)
    BY <2>1, <2>2, ParStartSlider
  <2>5. /\ k.prev.pos + SubtraceLen(k.prev) = keeper.prev.pos + SubtraceLen(keeper.prev)
        /\ k.cur.pos + SubtraceLen(k.cur) = keeper.cur.pos + SubtraceLen(keeper.cur)
        /\ k.prev.pos >= keeper.prev.pos /\ k.cur.pos >= keeper.cur.pos
    BY <2>1, KeeperFacts, AdvanceWindow
  <2>6. Len(pars) \in Nat /\ Len(pars') = Len(pars) + 1 /\ pars'[Len(pars) + 1] = f
        /\ \A n \in 1 .. Len(pars) : pars'[n] = pars[n]
    BY <2>1, KeeperFacts
  <2>7. ASSUME NEW n \in 1 .. Len(pars') PROVE FrameWindow(pars', n)
    <3>1. CASE n \in 1 .. Len(pars)
      <4>1. pars'[n] = pars[n] /\ (n > 1 => pars'[n - 1] = pars[n - 1])
        BY <2>6, <3>1
      <4>2. FrameWindow(pars, n)
        BY <3>1 DEF WindowInv
      <4>3. QED
        BY <4>1, <4>2 DEF FrameWindow
    <3>2. CASE n = Len(pars) + 1
      <4>1. ASSUME n > 1
            PROVE  /\ pars # <<>> /\ pars'[n - 1] = Top(pars)
        <5>1. n - 1 = Len(pars) /\ Len(pars) \in 1 .. Len(pars)
          BY <2>6, <3>2, <4>1
        <5>2. QED
          BY <2>6, <5>1 DEF Top
      <4>2. n > 1 => /\ f.rightEnd.prev.pos + f.rightEnd.prev.len
                          <= EndOf(pars'[n - 1]).prev.pos
                     /\ f.rightEnd.cur.pos + f.rightEnd.cur.len
                          <= EndOf(pars'[n - 1]).cur.pos
        BY <2>3, <2>4, <2>5, <4>1 DEF WindowInv, Before
      <4>3. pars'[n] = f
        BY <2>6, <3>2
      <4>4. QED
        BY <2>3, <2>4, <4>2, <4>3 DEF FrameWindow
    <3>3. QED
      BY <2>6, <3>1, <3>2
  <2>8. Top(pars') = f /\ EndOf(f) = f.leftEnd
    BY <2>2, <2>6 DEF Top, EndOf
  <2>9. QED
    BY <2>3, <2>4, <2>5, <2>7, <2>8 DEF WindowInv, Forward
<1>3. QED
  BY <1>1, <1>2

\* What the left end of a par leaves of one slider: the error that
\* prepare_sliders could answer does not occur, so both windows are set.
LEMMA ParLeftEndStep ==
  ASSUME IndInv, WindowInv, MeetParLeftEnd
  PROVE  LET f == Top(pars) IN
         /\ keeper'.prev.pos >= keeper.prev.pos /\ keeper'.cur.pos >= keeper.cur.pos
         /\ Before(keeper'.prev, f.rightEnd.prev) /\ Before(keeper'.cur, f.rightEnd.cur)
         /\ keeper'.out = keeper.out /\ keeper'.toPrev = keeper.toPrev
         /\ keeper'.prev.trace = keeper.prev.trace
<1> DEFINE f == Top(pars)
           u == UpdateCtxStates(keeper, f.leftEnd)
<1>1. Len(pars) \in 1 .. Len(pars) /\ f.side = "left" /\ pars # <<>>
      /\ keeper' = PrepareRightSliders(u, f)
  BY KeeperFacts DEF MeetParLeftEnd, LeftCompleted
<1>2. f \in Frame /\ FrameFits(f, keeper) /\ FrameWindow(pars, Len(pars))
      /\ Before(keeper.prev, f.leftEnd.prev) /\ Before(keeper.cur, f.leftEnd.cur)
  BY <1>1, KeeperFacts DEF Top, IndInv, WindowInv, EndOf
<1>3. /\ f.leftEnd.prev.pos + f.prevPar.right = f.rightEnd.prev.pos
      /\ f.leftEnd.cur.pos + f.curPar.right = f.rightEnd.cur.pos
  BY <1>2 DEF FrameWindow, Top
<1> HIDE DEF f, u
<1>4. /\ f.prevPar.right \in Nat /\ f.curPar.right \in Nat
      /\ f.leftEnd \in [prev : EndState, cur : EndState]
      /\ f.leftEnd.prev \in EndState /\ f.leftEnd.cur \in EndState
      /\ f.rightEnd.prev \in EndState /\ f.rightEnd.cur \in EndState
  BY <1>2 DEF Frame
<1>5. /\ f.rightEnd.prev.pos <= Len(keeper.prev.trace)
      /\ f.rightEnd.cur.pos <= Len(keeper.cur.trace)
  <2>1. Len(keeper.prev.trace) \in Nat /\ Len(keeper.cur.trace) \in Nat
    BY KeeperFacts DEF Slider
  <2>2. /\ f.rightEnd.prev.pos \in Nat /\ f.rightEnd.prev.len \in Nat
        /\ f.rightEnd.cur.pos \in Nat /\ f.rightEnd.cur.len \in Nat
    BY <1>4 DEF EndState
  <2>3. /\ f.rightEnd.prev.pos + f.rightEnd.prev.len <= Len(keeper.prev.trace)
        /\ f.rightEnd.cur.pos + f.rightEnd.cur.len <= Len(keeper.cur.trace)
    BY <1>2 DEF FrameFits
  <2>4. \A a, b, c \in Nat : a + b <= c => a <= c
    OBVIOUS
  <2>5. QED
    BY <2>1, <2>2, <2>3, <2>4
<1>6. /\ u \in Keeper /\ u.out = keeper.out /\ u.prev.trace = keeper.prev.trace
      /\ u.prev = UpdateCtxState(keeper.prev, f.leftEnd.prev)
      /\ u.cur = UpdateCtxState(keeper.cur, f.leftEnd.cur)
      /\ u.toPrev = keeper.toPrev
  <2>1. /\ f.leftEnd.prev.pos <= Len(keeper.prev.trace)
        /\ f.leftEnd.cur.pos <= Len(keeper.cur.trace)
    BY <1>2 DEF FrameFits
  <2>2. u.toPrev = keeper.toPrev
    BY KeeperFacts DEF u, UpdateCtxStates, Keeper
  <2>3. QED
    BY <1>4, <2>1, <2>2, KeeperFacts, UpdateCtxStatesInBounds DEF u, KeeperInBounds
<1> DEFINE wp == SetSubtraceLen(u.prev, f.prevPar.right)
           wc == SetSubtraceLen(u.cur, f.curPar.right)
<1>7. /\ CanSetSubtraceLen(u.prev, f.prevPar.right)
      /\ wp.pos >= keeper.prev.pos /\ Before(wp, f.rightEnd.prev)
  BY <1>2, <1>3, <1>4, <1>5, <1>6, KeeperFacts, LeftEndSlider DEF Before
<1>8. /\ CanSetSubtraceLen(u.cur, f.curPar.right)
      /\ wc.pos >= keeper.cur.pos /\ Before(wc, f.rightEnd.cur)
  BY <1>2, <1>3, <1>4, <1>5, <1>6, KeeperFacts, LeftEndSlider DEF Before
<1>9. keeper' = [u EXCEPT !.prev = wp, !.cur = wc]
  BY <1>1, <1>7, <1>8 DEF PrepareRightSliders
<1>10. wp.trace = u.prev.trace
  BY <1>6 DEF SetSubtraceLen, Keeper, Slider
<1> HIDE DEF wp, wc
<1>11. keeper'.prev = wp /\ keeper'.cur = wc /\ keeper'.out = u.out
       /\ keeper'.toPrev = u.toPrev
  BY <1>6, <1>9 DEF Keeper
<1>12. QED
  BY <1>6, <1>7, <1>8, <1>10, <1>11 DEF f

LEMMA ParLeftEndWindow ==
  ASSUME IndInv, WindowInv, MeetParLeftEnd
  PROVE  WindowInv' /\ Forward
<1> DEFINE f == Top(pars)
           g == LeftFrame(keeper, f)
           N == Len(pars)
<1>1. /\ keeper'.prev.pos >= keeper.prev.pos /\ keeper'.cur.pos >= keeper.cur.pos
      /\ Before(keeper'.prev, f.rightEnd.prev) /\ Before(keeper'.cur, f.rightEnd.cur)
  BY ParLeftEndStep
<1>2. pars \in Seq(Frame) /\ N \in 1 .. N /\ f = pars[N] /\ f \in Frame
      /\ pars' = [pars EXCEPT ![N] = g]
  BY KeeperFacts DEF MeetParLeftEnd, Top
<1>3. g.prevPar = f.prevPar /\ g.curPar = f.curPar /\ g.leftEnd = f.leftEnd
      /\ g.rightEnd = f.rightEnd /\ g.side = "right"
  BY <1>2 DEF LeftFrame, Frame
<1> HIDE DEF f, g
<1>4. Len(pars') = N /\ pars'[N] = g /\ \A n \in 1 .. N - 1 : pars'[n] = pars[n]
  BY <1>2
<1>5. ASSUME NEW n \in 1 .. Len(pars') PROVE FrameWindow(pars', n)
  <2>1. /\ n \in 1 .. N /\ FrameWindow(pars, n)
        /\ n > 1 => pars'[n - 1] = pars[n - 1]
    BY <1>2, <1>4 DEF WindowInv
  <2>2. /\ pars'[n].prevPar = pars[n].prevPar /\ pars'[n].curPar = pars[n].curPar
        /\ pars'[n].leftEnd = pars[n].leftEnd /\ pars'[n].rightEnd = pars[n].rightEnd
    <3>1. CASE n = N
      BY <1>2, <1>3, <1>4, <3>1
    <3>2. CASE n # N
      <4>1. N \in Nat
        BY <1>2
      <4> HIDE DEF N
      <4>2. n \in 1 .. N - 1
        BY <2>1, <3>2, <4>1
      <4>3. QED
        BY <1>4, <4>2
    <3>3. QED
      BY <3>1, <3>2
  <2>3. QED
    BY <2>1, <2>2 DEF FrameWindow
<1>6. Top(pars') = g /\ EndOf(g) = f.rightEnd
  BY <1>3, <1>4 DEF Top, EndOf
<1>7. QED
  BY <1>1, <1>5, <1>6 DEF WindowInv, Forward

LEMMA ParRightEndWindow ==
  ASSUME IndInv, WindowInv, MeetParRightEnd
  PROVE  WindowInv' /\ Forward
<1> DEFINE f == Top(pars)
           N == Len(pars)
<1>1. pars \in Seq(Frame) /\ pars # <<>> /\ N \in Nat \ {0} /\ N \in 1 .. N
      /\ f = pars[N] /\ f.side = "right" /\ pars' = Pop(pars)
  BY KeeperFacts DEF MeetParRightEnd, Top
<1>2. Len(pars') = N - 1 /\ \A n \in 1 .. N - 1 : pars'[n] = pars[n]
  BY <1>1, PopProperties
<1>3. f \in Frame
      /\ keeper'.prev = SetPositionAndLen(keeper.prev, f.rightEnd.prev.pos,
                                          f.rightEnd.prev.len)
      /\ keeper'.cur = SetPositionAndLen(keeper.cur, f.rightEnd.cur.pos,
                                         f.rightEnd.cur.len)
  BY ParRightEndStep
<1>4. /\ Before(keeper.prev, f.rightEnd.prev) /\ Before(keeper.cur, f.rightEnd.cur)
      /\ FrameWindow(pars, N)
  BY <1>1 DEF WindowInv, EndOf
<1> HIDE DEF f
<1>5. f.rightEnd.prev \in EndState /\ f.rightEnd.cur \in EndState
      /\ f.rightEnd.prev.len \in Nat /\ f.rightEnd.cur.len \in Nat
  BY <1>3 DEF Frame, EndState
<1>6. /\ keeper'.prev.pos = f.rightEnd.prev.pos
      /\ SubtraceLen(keeper'.prev) = f.rightEnd.prev.len
      /\ keeper'.cur.pos = f.rightEnd.cur.pos
      /\ SubtraceLen(keeper'.cur) = f.rightEnd.cur.len
  BY <1>3, <1>5, KeeperFacts DEF SetPositionAndLen, SubtraceLen, Slider
<1>7. Forward
  BY <1>4, <1>5, <1>6, KeeperFacts, BeforeEnd DEF Forward
<1>8. ASSUME NEW n \in 1 .. Len(pars') PROVE FrameWindow(pars', n)
  <2>1. /\ n \in 1 .. N /\ pars'[n] = pars[n] /\ FrameWindow(pars, n)
        /\ n > 1 => pars'[n - 1] = pars[n - 1]
    BY <1>1, <1>2 DEF WindowInv
  <2>2. QED
    BY <2>1 DEF FrameWindow
<1>9. ASSUME pars' # <<>>
      PROVE  /\ Before(keeper'.prev, EndOf(Top(pars')).prev)
             /\ Before(keeper'.cur, EndOf(Top(pars')).cur)
  <2>1. N > 1 /\ N - 1 \in 1 .. N - 1
    BY <1>1, <1>2, <1>9, PopProperties, EmptySeq
  <2>2. Top(pars') = pars[N - 1]
    BY <1>2, <2>1 DEF Top
  <2>3. QED
    BY <1>1, <1>4, <1>6, <2>1, <2>2 DEF FrameWindow, Before
<1>10. QED
  BY <1>7, <1>8, <1>9 DEF WindowInv

-----------------------------------------------------------------------------
(* No slider goes back.                                                    *)

\* What the call, ap and canon instructions meet and push fits the keeper.
LEMMA InstructionsFit ==
  ASSUME IndInv
  PROVE  /\ MetFits(MetCall(keeper), NextState(keeper.prev), NextState(keeper.cur))
         /\ MetFits(MetAp(keeper), NextState(keeper.prev), NextState(keeper.cur))
         /\ MetFits(MetCanon(keeper), NextState(keeper.prev), NextState(keeper.cur))
         /\ CallEnds(MetCall(keeper).state) \in SUBSET State
         /\ {Ap(<<StubGen>>)} \in SUBSET State
         /\ CanonEnds(MetCanon(keeper).state) \in SUBSET State
<1>1. /\ MetFits(MetCall(keeper), NextState(keeper.prev), NextState(keeper.cur))
      /\ MetFits(MetAp(keeper), NextState(keeper.prev), NextState(keeper.cur))
      /\ MetFits(MetCanon(keeper), NextState(keeper.prev), NextState(keeper.cur))
  BY KeeperFacts, MergersFit DEF MetCall, MetAp, MetCanon
<1>2. QED
  BY <1>1, EndsAreStates DEF MetFits

LEMMA WindowStep ==
  ASSUME IndInv, WindowInv, [Next]_vars
  PROVE  WindowInv' /\ Forward
<1>1. CASE MeetCall
  BY <1>1, InstructionsFit, MeetWindow DEF MeetCall
<1>2. CASE MeetAp
  BY <1>2, InstructionsFit, MeetWindow DEF MeetAp
<1>3. CASE MeetCanon
  BY <1>3, InstructionsFit, MeetWindow DEF MeetCanon
<1>4. CASE MeetParStart
  BY <1>4, ParStartWindow
<1>5. CASE MeetParLeftEnd
  BY <1>5, ParLeftEndWindow
<1>6. CASE MeetParRightEnd
  BY <1>6, ParRightEndWindow
<1>7. CASE UNCHANGED vars
  BY <1>7, KeeperFacts DEF vars, WindowInv, Forward
<1>8. QED
  BY <1>1, <1>2, <1>3, <1>4, <1>5, <1>6, <1>7 DEF Next

\* The windows of the sliders lie inside those of the enclosing pars, in every
\* state of every run of the handler.
THEOREM WindowInvariant == Spec => []WindowInv
<1>1. Init => WindowInv
  BY DEF Init, WindowInv
<1>2. IndInv /\ WindowInv /\ [Next]_vars => WindowInv'
  BY WindowStep
<1>3. QED
  BY <1>1, <1>2, HandlerInvariant, PTL DEF Spec

\* Whatever the script does, no slider moves back (trace_slider.rs,
\* set_position_and_len takes any position): no state of an input trace is
\* merged into the result twice.
THEOREM SlidersGoForward == Spec => SlidersNeverGoBack
<1>1. IndInv /\ WindowInv /\ [Next]_vars =>
        [\A side \in {"prev", "cur"} : keeper'[side].pos >= keeper[side].pos]_vars
  BY WindowStep DEF Forward
<1>2. QED
  BY <1>1, HandlerInvariant, WindowInvariant, PTL DEF Spec, SlidersNeverGoBack

-----------------------------------------------------------------------------
(* The position mapping.                                                   *)

\* What may be pushed for a state of the previous trace that is mapped.
MapsBack(p, met, ends) ==
  met.scheme \in {"previous", "both"} => \A st \in ends : Continues(st, p)

\* A merger that answers the state of the previous trace, answers it unchanged;
\* and what the instructions push for it continues it.  Canons are not mapped.
LEMMA MergersMapBack ==
  ASSUME NEW p \in State \cup {NoState}, NEW c \in State \cup {NoState}
  PROVE  /\ MapsBack(p, MergeAsCall(p, c), CallEnds(MergeAsCall(p, c).state))
         /\ MapsBack(p, MergeAsAp(p, c), {Ap(<<StubGen>>)})
         /\ \A ends : MapsBack(p, MergeAsCanon(p, c), ends)
<1>1. \A st : /\ Merged(st, "none").scheme = "none"
              /\ Merged(st, "current").scheme = "current"
              /\ \A sc : Merged(st, sc).state = st
  BY DEF Merged
<1>2. NotMet.scheme = "none" /\ MergeError.scheme = "none"
  BY DEF NotMet, Merged, MergeError
<1>3. MapsBack(p, MergeAsCall(p, c), CallEnds(MergeAsCall(p, c).state))
  <2> SUFFICES ASSUME MergeAsCall(p, c).scheme \in {"previous", "both"},
                      NEW st \in CallEnds(MergeAsCall(p, c).state)
               PROVE  Continues(st, p)
    BY DEF MapsBack
  <2>1. MergeCallResults(p, c) \in {Merged(p, "previous"), Merged(c, "current"),
                                    Merged(p, "both"), MergeError}
    BY DEF MergeCallResults
  <2>2. \/ MergeAsCall(p, c) \in {NotMet, MergeError, Merged(c, "current")}
        \/ IsCall(p) /\ MergeAsCall(p, c) \in {Merged(p, "previous"), Merged(p, "both")}
    BY <2>1 DEF MergeAsCall, MergeStates
  <2>3. IsCall(p) /\ MergeAsCall(p, c).state = p
    BY <1>1, <1>2, <2>2
  <2>4. st \in CallEnds(p)
    BY <2>3
  <2>5. CASE p.kind \in {"executed", "failed"}
    <3>1. CallEnds(p) = {p}
      BY <2>5 DEF CallEnds, IsSent
    <3>2. QED
      BY <2>4, <2>5, <3>1 DEF Continues
  <2>6. CASE IsSent(p)
    <3>1. IsCall(st)
      BY <2>4, <2>6 DEF CallEnds, IsSent, IsCall, Scalar, Failed, Unused, StreamValue,
                        SentByWithId
    <3>2. QED
      BY <2>6, <3>1 DEF Continues
  <2>7. QED
    BY <2>3, <2>5, <2>6 DEF IsCall, IsSent
<1>4. MapsBack(p, MergeAsAp(p, c), {Ap(<<StubGen>>)})
  <2>1. \A x, sc : ApMet(x, sc) \in {Merged(x, sc), MergeError}
    BY DEF ApMet
  <2>2. \/ MergeAsAp(p, c) \in {NotMet, MergeError, ApMet(c, "current")}
        \/ IsAp(p)
    BY DEF MergeAsAp, MergeStates
  <2>3. \/ MergeAsAp(p, c).scheme \notin {"previous", "both"}
        \/ IsAp(p)
    BY <1>1, <1>2, <2>1, <2>2
  <2>4. IsAp(Ap(<<StubGen>>))
    BY DEF IsAp, Ap
  <2>5. QED
    BY <2>3, <2>4 DEF MapsBack, Continues
<1>5. \A ends : MapsBack(p, MergeAsCanon(p, c), ends)
  <2>1. MergeCanonResults(p, c) \in {Merged(p, "none"), Merged(c, "none"), MergeError}
    BY DEF MergeCanonResults
  <2>2. MergeAsCanon(p, c) \in {NotMet, MergeError, Merged(p, "none"),
                                Merged(c, "none"), MergeCanonResults(p, c)}
    BY DEF MergeAsCanon, MergeStates
  <2>3. MergeAsCanon(p, c).scheme = "none"
    BY <1>1, <1>2, <2>1, <2>2
  <2>4. QED
    BY <2>3 DEF MapsBack
<1>6. QED
  BY <1>3, <1>4, <1>5

\* next_state() answers the state behind which it then stands.
LEMMA NextStateRead ==
  ASSUME NEW s \in Slider, NextState(s) # NoState
  PROVE  /\ Advance(s).pos - 1 = s.pos /\ s.pos < Len(s.trace)
         /\ NextState(s) = s.trace[s.pos + 1]
<1>1. HasNext(s)
  BY DEF NextState
<1>2. Advance(s) = [s EXCEPT !.pos = @ + 1, !.seen = @ + 1]
  BY <1>1 DEF Advance
<1>3. Advance(s).pos = s.pos + 1 /\ s.pos \in Nat
  BY <1>2 DEF Slider
<1>4. QED
  BY <1>1, <1>3 DEF HasNext, NextState

\* A pair of the mapping stays right while the result grows behind it.
PairOK(m, o, t) == m[1] < Len(o) /\ m[2] < Len(t) /\ Continues(o[m[1] + 1], t[m[2] + 1])

LEMMA PairStays ==
  ASSUME NEW m \in Nat \X Nat, NEW o \in Seq(State), NEW t, PairOK(m, o, t),
         NEW st \in State
  PROVE  PairOK(m, Append(o, st), t)
<1>1. m[1] \in Nat /\ m[1] + 1 \in 1 .. Len(o)
  BY DEF PairOK
<1>2. Append(o, st)[m[1] + 1] = o[m[1] + 1] /\ Len(Append(o, st)) = Len(o) + 1
  BY <1>1
<1>3. QED
  BY <1>1, <1>2 DEF PairOK

\* Every open par has its temporary state in the result already.
LEMMA OpenPars ==
  ASSUME IndInv
  PROVE  \A n \in 1 .. Len(pars) : pars[n].at \in Nat /\ pars[n].at <= Len(keeper.out)
<1>1. TAKE n \in 1 .. Len(pars)
<1>2. pars[n] \in Frame /\ FrameFits(pars[n], keeper)
  BY KeeperFacts DEF IndInv
<1>3. pars[n].at \in Nat /\ pars[n].saved \in Nat /\ Len(keeper.out) \in Nat
  <2>1. \A f \in Frame : f.at \in Nat /\ f.saved \in Nat
    BY DEF Frame
  <2>2. QED
    BY <1>2, <2>1, KeeperFacts
<1>4. pars[n].at <= pars[n].saved /\ pars[n].saved <= Len(keeper.out)
  BY <1>2 DEF FrameFits
<1>5. QED
  BY <1>3, <1>4

\* The pair that an instruction adds leads from the state it pushes to the one
\* it has read.
LEMMA MeetMapping ==
  ASSUME IndInv, MappingInv, NEW met, NEW ends \in SUBSET State,
         MetFits(met, NextState(keeper.prev), NextState(keeper.cur)),
         MapsBack(NextState(keeper.prev), met, ends),
         NEW stops, Meet(met, ends, stops)
  PROVE  MappingInv'
<1> DEFINE k  == AfterMet(keeper, met)
           t  == keeper.prev.trace
           nw == <<Len(keeper.out), Advance(keeper.prev).pos - 1>>
<1>1. /\ KeeperInBounds(k) /\ k.out = keeper.out /\ k.prev = Advance(keeper.prev)
      /\ k.prev.trace = t
  BY KeeperFacts, AfterMetInBounds, AdvanceInBounds
<1>2. /\ met.scheme \notin {"previous", "both"} => k.toPrev = keeper.toPrev
      /\ met.scheme \in {"previous", "both"} => k.toPrev \subseteq keeper.toPrev \cup {nw}
  <2>1. PopStates(keeper).toPrev = keeper.toPrev /\ PopStates(keeper).out = keeper.out
        /\ PopStates(keeper).prev = Advance(keeper.prev) /\ PopStates(keeper) \in Keeper
    BY KeeperFacts, PopStatesInBounds DEF PopStates, Keeper, KeeperInBounds
  <2>2. k.toPrev = IF met.scheme \in {"previous", "both"}
                     THEN BiInsert(keeper.toPrev, Len(keeper.out),
                                   Advance(keeper.prev).pos - 1)
                     ELSE keeper.toPrev
    BY <2>1 DEF AfterMet, MapPositions, Keeper
  <2>3. QED
    BY <2>2 DEF BiInsert
<1>3. /\ Mapped \in SUBSET (Nat \X Nat)
      /\ \A m \in Mapped : PairOK(m, keeper.out, t)
  BY KeeperFacts DEF Keeper, MappingInv, MappingPointsBack, Mapped, PairOK
<1>4. CASE Fail
  BY <1>4 DEF Fail, MappingInv, MappingPointsBack, Mapped
<1>5. CASE /\ \E st \in ends : keeper' = PushState(k, st)
           /\ UNCHANGED <<pars, status, stopped>>
  <2>1. PICK st \in ends : keeper' = PushState(k, st)
    BY <1>5
  <2>2. st \in State /\ keeper'.out = Append(keeper.out, st) /\ keeper'.prev.trace = t
        /\ keeper'.toPrev = k.toPrev
    <3>1. st \in State
      OBVIOUS
    <3>2. k \in Keeper
      BY <1>1 DEF KeeperInBounds
    <3>3. keeper'.toPrev = k.toPrev
      <4> HIDE DEF k
      <4>1. QED
        BY <2>1, <3>2 DEF PushState, Keeper
    <3>4. QED
      BY <1>1, <2>1, <3>1, <3>3, PushStateInBounds
  <2>3. met.scheme \in {"previous", "both"} => PairOK(nw, Append(keeper.out, st), t)
    <3> SUFFICES ASSUME met.scheme \in {"previous", "both"}
                 PROVE  PairOK(nw, Append(keeper.out, st), t)
      OBVIOUS
    <3>1. NextState(keeper.prev) # NoState /\ Continues(st, NextState(keeper.prev))
      BY DEF MetFits, MapsBack
    <3>2. nw[1] = Len(keeper.out) /\ nw[2] = keeper.prev.pos /\ keeper.prev.pos < Len(t)
          /\ NextState(keeper.prev) = t[keeper.prev.pos + 1]
      BY <3>1, KeeperFacts, NextStateRead
    <3>3. Len(keeper.out) < Len(Append(keeper.out, st))
          /\ Append(keeper.out, st)[Len(keeper.out) + 1] = st
      BY <2>2, KeeperFacts
    <3> HIDE DEF nw
    <3>4. QED
      BY <3>1, <3>2, <3>3 DEF PairOK
  <2> DEFINE New == met.scheme \in {"previous", "both"}
  <2>4. \A m \in Mapped' : m \in Mapped \/ (New /\ m = nw)
    BY <1>2, <1>5, <2>2 DEF Mapped
  <2>5. \A m \in Mapped' : PairOK(m, keeper'.out, t)
    <3>1. \A m \in Mapped : PairOK(m, Append(keeper.out, st), t)
      BY <1>3, <2>2, KeeperFacts, PairStays
    <3>2. QED
      BY <2>2, <2>3, <2>4, <3>1
  <2>6. \A m \in Mapped' : \A n \in 1 .. Len(pars) : m[1] + 1 # pars[n].at
    <3>1. \A n \in 1 .. Len(pars) : nw[1] + 1 # pars[n].at
      BY OpenPars, KeeperFacts
    <3>2. \A m \in Mapped : \A n \in 1 .. Len(pars) : m[1] + 1 # pars[n].at
      BY DEF MappingInv
    <3> HIDE DEF nw
    <3>3. QED
      BY <2>4, <3>1, <3>2
  <2>7. QED
    BY <1>5, <2>2, <2>5, <2>6 DEF MappingInv, MappingPointsBack, PairOK
<1>6. CASE met = NotMet /\ keeper' = k /\ UNCHANGED <<pars, status, stopped>>
  <2>1. met.scheme = "none"
    BY <1>6 DEF NotMet, Merged
  <2>2. keeper'.toPrev = keeper.toPrev /\ keeper'.out = keeper.out
        /\ keeper'.prev.trace = t
    BY <1>1, <1>2, <1>6, <2>1
  <2>3. QED
    BY <1>6, <2>2 DEF MappingInv, MappingPointsBack, Mapped
<1>7. CASE keeper' = k /\ stopped' = stopped \cup {Len(keeper.out)} /\ UNCHANGED <<pars, status>>
  <2>1. keeper'.out = keeper.out /\ keeper'.prev.trace = t
    BY <1>1, <1>7
  <2>2. Mapped' \subseteq Mapped
    <3>1. nw[1] \in stopped' /\ stopped \subseteq stopped'
      BY <1>7
    <3>2. \A m \in keeper'.toPrev : m \in keeper.toPrev \/ m = nw
      BY <1>2, <1>7
    <3> HIDE DEF nw
    <3>3. QED
      BY <3>1, <3>2 DEF Mapped
  <2>3. QED
    BY <1>7, <2>1, <2>2 DEF MappingInv, MappingPointsBack
<1>8. QED
  BY <1>4, <1>5, <1>6, <1>7 DEF Meet

\* A par starts behind every state that is mapped.
LEMMA ParStartMapping ==
  ASSUME IndInv, MappingInv, MeetParStart
  PROVE  MappingInv'
<1> DEFINE f == ParFrame(PopStates(keeper), MetPar(keeper))
<1>1. CASE Fail
  BY <1>1 DEF Fail, MappingInv, MappingPointsBack, Mapped
<1>2. CASE ~Fail
  <2>1. /\ keeper'.out = Append(keeper.out, Par(0, 0))
        /\ Mapped' = Mapped /\ pars' = Append(pars, f)
    BY <1>2, ParStartStep DEF Mapped, MeetParStart
  <2>2. keeper'.prev.trace = keeper.prev.trace
    <3>1. /\ keeper'.prev = SetSubtraceLen(Advance(keeper.prev), MetPar(keeper).prev.left)
          /\ Advance(keeper.prev) \in Slider /\ Advance(keeper.prev).trace = keeper.prev.trace
      BY <1>2, KeeperFacts, ParStartStep, AdvanceInBounds
    <3>2. QED
      BY <3>1 DEF SetSubtraceLen, Slider
  <2>3. f.at = Len(keeper.out) + 1
    BY KeeperFacts, PopStatesInBounds DEF ParFrame
  <2>4. Mapped \in SUBSET (Nat \X Nat) /\ Par(0, 0) \in State
        /\ \A m \in Mapped : PairOK(m, keeper.out, keeper.prev.trace)
    BY KeeperFacts, EndsAreStates DEF Keeper, MappingInv, MappingPointsBack, Mapped, PairOK
  <2>5. \A m \in Mapped' : PairOK(m, keeper'.out, keeper'.prev.trace)
    BY <2>1, <2>2, <2>4, KeeperFacts, PairStays
  <2> HIDE DEF f
  <2>6. Len(pars) \in Nat /\ Len(pars') = Len(pars) + 1 /\ pars'[Len(pars) + 1] = f
        /\ \A n \in 1 .. Len(pars) : pars'[n] = pars[n]
    BY <2>1, KeeperFacts
  <2>7. \A m \in Mapped : m[1] + 1 # f.at
    <3>1. \A m \in Mapped : m[1] \in Nat /\ m[1] < Len(keeper.out)
      BY <2>4 DEF PairOK
    <3>2. Len(keeper.out) \in Nat
      BY KeeperFacts
    <3>3. QED
      BY <2>3, <3>1, <3>2
  <2>8. \A m \in Mapped : \A n \in 1 .. Len(pars') : m[1] + 1 # pars'[n].at
    BY <2>6, <2>7 DEF MappingInv
  <2>9. QED
    BY <2>1, <2>5, <2>8 DEF MappingInv, MappingPointsBack, PairOK
<1>3. QED
  BY <1>1, <1>2

LEMMA ParLeftEndMapping ==
  ASSUME IndInv, WindowInv, MappingInv, MeetParLeftEnd
  PROVE  MappingInv'
<1> DEFINE f == Top(pars)
           g == LeftFrame(keeper, f)
           N == Len(pars)
<1>1. keeper'.out = keeper.out /\ Mapped' = Mapped
      /\ keeper'.prev.trace = keeper.prev.trace
  BY ParLeftEndStep DEF Mapped, MeetParLeftEnd
<1>2. pars \in Seq(Frame) /\ N \in 1 .. N /\ f = pars[N] /\ f \in Frame
      /\ pars' = [pars EXCEPT ![N] = g]
  BY KeeperFacts DEF MeetParLeftEnd, Top
<1>3. g.at = f.at
  BY <1>2 DEF LeftFrame, Frame
<1> HIDE DEF f, g
<1>4. Len(pars') = Len(pars) /\ \A n \in 1 .. Len(pars) : pars'[n].at = pars[n].at
  BY <1>2, <1>3
<1>5. QED
  BY <1>1, <1>4 DEF MappingInv, MappingPointsBack

\* The final par state overwrites the temporary one, which is not mapped.
LEMMA ParRightEndMapping ==
  ASSUME IndInv, MappingInv, MeetParRightEnd
  PROVE  MappingInv'
<1> DEFINE f == Top(pars)
           st == Par(f.left, Len(keeper.out) - f.saved)
           N == Len(pars)
<1>1. pars \in Seq(Frame) /\ pars # <<>> /\ N \in Nat \ {0} /\ N \in 1 .. N
      /\ f = pars[N] /\ pars' = Pop(pars)
  BY KeeperFacts DEF MeetParRightEnd, Top
<1>2. Len(pars') = N - 1 /\ \A n \in 1 .. N - 1 : pars'[n] = pars[n]
  BY <1>1, PopProperties
<1>3. f.at \in 1 .. Len(keeper.out) /\ Len(keeper'.out) = Len(keeper.out)
      /\ keeper'.out = [keeper.out EXCEPT ![f.at] = st]
      /\ keeper'.prev.trace = keeper.prev.trace
  BY ParRightEndStep
<1>4. Mapped' = Mapped
  <2>1. keeper'.toPrev = keeper.toPrev /\ stopped' = stopped
    BY KeeperFacts DEF MeetParRightEnd, RightCompleted, UpdateCtxStates, Keeper
  <2>2. QED
    BY <2>1 DEF Mapped
<1>5. \A m \in Mapped : m[1] + 1 \in 1 .. Len(keeper.out) /\ m[1] + 1 # f.at
  <2>1. \A m \in Mapped : m[1] \in Nat /\ m[1] < Len(keeper.out)
    BY KeeperFacts DEF Keeper, MappingInv, MappingPointsBack, Mapped
  <2>2. Len(keeper.out) \in Nat
    BY KeeperFacts
  <2>3. \A m \in Mapped : m[1] + 1 # f.at
    BY <1>1 DEF MappingInv
  <2>4. QED
    BY <2>1, <2>2, <2>3
<1> HIDE DEF f, st
<1>6. \A m \in Mapped : keeper'.out[m[1] + 1] = keeper.out[m[1] + 1]
  BY <1>3, <1>5, KeeperFacts
<1>7. \A n \in 1 .. Len(pars') : n \in 1 .. Len(pars) /\ pars'[n] = pars[n]
  BY <1>1, <1>2
<1>8. QED
  BY <1>3, <1>4, <1>6, <1>7 DEF MappingInv, MappingPointsBack

\* The position mapping leads from a state of the result to the state of the
\* previous trace that it was merged from (position_mapping.rs), also after
\* pars whose temporary states were replaced. Positions at which an instruction
\* stopped behind a state that it had met are left out (Mapped).
THEOREM MappingCorrect == Spec => []MappingPointsBack
<1>1. Init => MappingInv
  BY DEF Init, NewKeeper, MappingInv, MappingPointsBack, Mapped
<1>2. IndInv /\ WindowInv /\ MappingInv /\ [Next]_vars => MappingInv'
  <2> SUFFICES ASSUME IndInv, WindowInv, MappingInv, [Next]_vars PROVE MappingInv'
    OBVIOUS
  <2>1. /\ MapsBack(NextState(keeper.prev), MetCall(keeper),
                    CallEnds(MetCall(keeper).state))
        /\ MapsBack(NextState(keeper.prev), MetAp(keeper), {Ap(<<StubGen>>)})
        /\ MapsBack(NextState(keeper.prev), MetCanon(keeper),
                    CanonEnds(MetCanon(keeper).state))
    BY KeeperFacts, MergersMapBack DEF MetCall, MetAp, MetCanon
  <2>2. CASE MeetCall
    BY <2>1, <2>2, InstructionsFit, MeetMapping DEF MeetCall
  <2>3. CASE MeetAp
    BY <2>1, <2>3, InstructionsFit, MeetMapping DEF MeetAp
  <2>4. CASE MeetCanon
    BY <2>1, <2>4, InstructionsFit, MeetMapping DEF MeetCanon
  <2>5. CASE MeetParStart
    BY <2>5, ParStartMapping
  <2>6. CASE MeetParLeftEnd
    BY <2>6, ParLeftEndMapping
  <2>7. CASE MeetParRightEnd
    BY <2>7, ParRightEndMapping
  <2>8. CASE UNCHANGED vars
    BY <2>8 DEF vars, MappingInv, MappingPointsBack, Mapped
  <2>9. QED
    BY <2>2, <2>3, <2>4, <2>5, <2>6, <2>7, <2>8 DEF Next
<1>3. MappingInv => MappingPointsBack
  BY DEF MappingInv
<1>4. QED
  BY <1>1, <1>2, <1>3, HandlerInvariant, WindowInvariant, PTL DEF Spec

-----------------------------------------------------------------------------
(* The mergers of call and canon states: which trace is the previous one   *)
(* and in which order traces arrive makes no difference to what is known.  *)

\* The states of calls that mergers see, with NoState for a trace that has none.
CallStates == {s \in State : IsCall(s)} \cup {NoState}

\* Two states tell the same about a call: nothing, that it was requested, or one and
\* the same outcome (requests may come from two peers, and a value of a stream may
\* have two generations).
SameCall(s, t) ==
  \/ s = NoState /\ t = NoState
  \/ IsSent(s) /\ IsSent(t)
  \/ s.kind = "failed" /\ t = s
  \/ s.kind = "executed" /\ t.kind = "executed" /\ SameValue(s, t)

\* t tells all that s tells.
CallBelow(s, t) == s = NoState \/ (IsSent(s) /\ t # NoState) \/ SameCall(s, t)

\* The states of canons, and what they tell.
CanonStates == {s \in State : IsCanon(s)} \cup {NoState}

SameCanon(s, t) == s = t \/ (s.kind = "canon_sent" /\ t.kind = "canon_sent")

CanonBelow(s, t) == s = NoState \/ (s.kind = "canon_sent" /\ t # NoState) \/ SameCanon(s, t)

\* What the state of a call may be.
LEMMA CallKinds ==
  ASSUME NEW s \in CallStates
  PROVE  \/ s = NoState /\ s.kind = "none"
         \/ s # NoState /\ s.kind \in {"sent", "sent_id"} /\ IsSent(s) /\ IsCall(s)
         \/ s # NoState /\ s.kind = "executed" /\ ~IsSent(s) /\ IsCall(s)
         \/ s # NoState /\ s.kind = "failed" /\ ~IsSent(s) /\ IsCall(s)
  BY DEF CallStates, NoState, IsCall, IsSent

\* What the state of a canon may be.
LEMMA CanonKinds ==
  ASSUME NEW s \in CanonStates
  PROVE  \/ s = NoState /\ s.kind = "none"
         \/ s # NoState /\ s.kind = "canon_sent" /\ IsCanon(s)
         \/ s # NoState /\ s.kind = "canon" /\ IsCanon(s)
  BY DEF CanonStates, NoState, IsCanon

\* "Tells all that" is a preorder, and "tells the same" its equivalence.
LEMMA CallBelowIsPreorder ==
  ASSUME NEW s \in CallStates, NEW t \in CallStates, NEW u \in CallStates
  PROVE  /\ CallBelow(s, s)
         /\ CallBelow(s, t) /\ CallBelow(t, u) => CallBelow(s, u)
         /\ CallBelow(s, t) /\ CallBelow(t, s) <=> SameCall(s, t)
  BY CallKinds, Zenon DEF CallBelow, SameCall, SameValue, IsSent

\* The same of canons.
LEMMA CanonBelowIsPreorder ==
  ASSUME NEW s \in CanonStates, NEW t \in CanonStates, NEW u \in CanonStates
  PROVE  /\ CanonBelow(s, s)
         /\ CanonBelow(s, t) /\ CanonBelow(t, u) => CanonBelow(s, u)
         /\ CanonBelow(s, t) /\ CanonBelow(t, s) <=> SameCanon(s, t)
  BY CanonKinds DEF CanonBelow, SameCanon

\* merge_call_results by cases of what the two traces have.
LEMMA CallMergeCases ==
  ASSUME NEW p \in CallStates, NEW c \in CallStates
  PROVE  LET m == MergeAsCall(p, c) IN
         /\ p = NoState => m.ok /\ m.state = c
         /\ c = NoState => m.ok /\ m.state = p
         /\ IsSent(p) /\ c # NoState => m.ok /\ m.state = (IF IsSent(c) THEN p ELSE c)
         /\ IsSent(c) /\ p # NoState => m.ok /\ m.state = p
         /\ p.kind \in {"executed", "failed"} /\ c.kind \in {"executed", "failed"} =>
              IF SameCall(p, c) THEN m.ok /\ m.state = p ELSE ~m.ok
  BY CallKinds DEF MergeAsCall, MergeStates, MergeCallResults, Merged, NotMet, MergeError,
                   SameCall, SameValue, IsSent, IsCall

\* Merging two call states computes a least upper bound: it succeeds exactly if the two
\* traces do not contradict each other, it loses nothing that either of them says,
\* and adds nothing (call_merger.rs, merge_call_results).
THEOREM CallMergeIsJoin ==
  ASSUME NEW p \in CallStates, NEW c \in CallStates
  PROVE  LET m == MergeAsCall(p, c) IN
         /\ m.ok <=> \E u \in CallStates : CallBelow(p, u) /\ CallBelow(c, u)
         /\ m.ok => /\ m.state \in CallStates
                    /\ CallBelow(p, m.state) /\ CallBelow(c, m.state)
                    /\ \A u \in CallStates :
                         CallBelow(p, u) /\ CallBelow(c, u) => CallBelow(m.state, u)
<1> DEFINE m == MergeAsCall(p, c)
<1>1. /\ m.ok => m.state \in CallStates /\ (m.state = p \/ m.state = c)
      /\ m.ok => CallBelow(p, m.state) /\ CallBelow(c, m.state)
  <2>1. CASE p = NoState \/ c = NoState
    BY <2>1, CallMergeCases, CallBelowIsPreorder DEF CallBelow
  <2>2. CASE p # NoState /\ c # NoState /\ (IsSent(p) \/ IsSent(c))
    BY <2>2, CallMergeCases, CallBelowIsPreorder DEF CallBelow
  <2>3. CASE p.kind \in {"executed", "failed"} /\ c.kind \in {"executed", "failed"}
    <3>1. m.ok => SameCall(p, c) /\ m.state = p
      BY <2>3, CallMergeCases
    <3>2. SameCall(p, c) => CallBelow(p, p) /\ CallBelow(c, p)
      BY CallBelowIsPreorder
    <3>3. QED
      BY <3>1, <3>2
  <2>4. QED
    BY <2>1, <2>2, <2>3, CallKinds
<1>2. ASSUME NEW u \in CallStates, CallBelow(p, u), CallBelow(c, u)
      PROVE  m.ok
  <2>1. CASE p = NoState \/ c = NoState \/ IsSent(p) \/ IsSent(c)
    BY <2>1, CallMergeCases
  <2>2. CASE p.kind \in {"executed", "failed"} /\ c.kind \in {"executed", "failed"}
    <3>1. SameCall(p, u) /\ SameCall(c, u)
      BY <1>2, <2>2, CallKinds DEF CallBelow
    <3>2. SameCall(p, c)
      BY <3>1, CallBelowIsPreorder
    <3>3. QED
      BY <2>2, <3>2, CallMergeCases
  <2>3. QED
    BY <2>1, <2>2, CallKinds
<1>3. QED
  BY <1>1, <1>2

\* What a peer learns from call states does not depend on which trace is the previous
\* one, nor on the order in which three traces come together, nor on a trace that
\* comes again; contradictions are found in every order.
THEOREM CallMergeOrderIsIrrelevant ==
  ASSUME NEW r \in CallStates, NEW s \in CallStates, NEW t \in CallStates
  PROVE  LET rs == MergeAsCall(r, s)
             sr == MergeAsCall(s, r)
             st == MergeAsCall(s, t)
             left  == MergeAsCall(rs.state, t)
             right == MergeAsCall(r, st.state)
         IN  /\ rs.ok <=> sr.ok
             /\ rs.ok => SameCall(rs.state, sr.state)
             /\ rs.ok /\ left.ok <=> st.ok /\ right.ok
             /\ rs.ok /\ left.ok => SameCall(left.state, right.state)
             /\ rs.ok => SameCall(MergeAsCall(rs.state, s).state, rs.state)
                         /\ MergeAsCall(rs.state, s).ok
<1> DEFINE rs == MergeAsCall(r, s)
           sr == MergeAsCall(s, r)
           st == MergeAsCall(s, t)
           left == MergeAsCall(rs.state, t)
           right == MergeAsCall(r, st.state)
           again == MergeAsCall(rs.state, s)
           Above(u) == CallBelow(r, u) /\ CallBelow(s, u) /\ CallBelow(t, u)
<1>1. rs.ok <=> sr.ok
  BY CallMergeIsJoin
<1>2. rs.ok => SameCall(rs.state, sr.state)
  <2>1. rs.ok => CallBelow(rs.state, sr.state) /\ CallBelow(sr.state, rs.state)
    BY <1>1, CallMergeIsJoin
  <2>2. QED
    BY <1>1, <2>1, CallMergeIsJoin, CallBelowIsPreorder
<1>3. rs.ok /\ left.ok => /\ left.state \in CallStates /\ Above(left.state)
                          /\ \A u \in CallStates : Above(u) => CallBelow(left.state, u)
  <2> SUFFICES ASSUME rs.ok, left.ok
               PROVE  /\ left.state \in CallStates /\ Above(left.state)
                      /\ \A u \in CallStates : Above(u) => CallBelow(left.state, u)
    OBVIOUS
  <2>1. rs.state \in CallStates /\ CallBelow(r, rs.state) /\ CallBelow(s, rs.state)
    BY CallMergeIsJoin
  <2>2. left.state \in CallStates /\ CallBelow(rs.state, left.state) /\ CallBelow(t, left.state)
    BY <2>1, CallMergeIsJoin
  <2>3. Above(left.state)
    BY <2>1, <2>2, CallBelowIsPreorder
  <2>4. ASSUME NEW u \in CallStates, Above(u)
        PROVE  CallBelow(left.state, u)
    <3>1. CallBelow(rs.state, u)
      BY <2>4, CallMergeIsJoin
    <3>2. QED
      BY <2>1, <2>4, <3>1, CallMergeIsJoin
  <2>5. QED
    BY <2>2, <2>3, <2>4
<1>4. st.ok /\ right.ok => /\ right.state \in CallStates /\ Above(right.state)
                           /\ \A u \in CallStates : Above(u) => CallBelow(right.state, u)
  <2> SUFFICES ASSUME st.ok, right.ok
               PROVE  /\ right.state \in CallStates /\ Above(right.state)
                      /\ \A u \in CallStates : Above(u) => CallBelow(right.state, u)
    OBVIOUS
  <2>1. st.state \in CallStates /\ CallBelow(s, st.state) /\ CallBelow(t, st.state)
    BY CallMergeIsJoin
  <2>2. right.state \in CallStates /\ CallBelow(r, right.state) /\ CallBelow(st.state, right.state)
    BY <2>1, CallMergeIsJoin
  <2>3. Above(right.state)
    BY <2>1, <2>2, CallBelowIsPreorder
  <2>4. ASSUME NEW u \in CallStates, Above(u)
        PROVE  CallBelow(right.state, u)
    <3>1. CallBelow(st.state, u)
      BY <2>4, CallMergeIsJoin
    <3>2. QED
      BY <2>1, <2>4, <3>1, CallMergeIsJoin
  <2>5. QED
    BY <2>2, <2>3, <2>4
<1>5. ASSUME NEW u \in CallStates, Above(u)
      PROVE  rs.ok /\ left.ok /\ st.ok /\ right.ok
  <2>1. rs.ok /\ st.ok
    BY <1>5, CallMergeIsJoin
  <2>2. /\ rs.state \in CallStates /\ CallBelow(rs.state, u)
        /\ st.state \in CallStates /\ CallBelow(st.state, u)
    BY <1>5, <2>1, CallMergeIsJoin
  <2>3. QED
    BY <1>5, <2>1, <2>2, CallMergeIsJoin
<1>6. rs.ok /\ left.ok <=> st.ok /\ right.ok
  BY <1>3, <1>4, <1>5
<1>7. rs.ok /\ left.ok => SameCall(left.state, right.state)
  <2>1. rs.ok /\ left.ok => CallBelow(left.state, right.state) /\ CallBelow(right.state, left.state)
    BY <1>3, <1>4, <1>6
  <2>2. QED
    BY <1>3, <1>4, <1>6, <2>1, CallBelowIsPreorder
<1>8. rs.ok => SameCall(again.state, rs.state) /\ again.ok
  <2> SUFFICES ASSUME rs.ok
               PROVE  SameCall(again.state, rs.state) /\ again.ok
    OBVIOUS
  <2>1. rs.state \in CallStates /\ CallBelow(s, rs.state) /\ CallBelow(rs.state, rs.state)
    BY CallMergeIsJoin, CallBelowIsPreorder
  <2>2. again.ok
    BY <2>1, CallMergeIsJoin
  <2>3. again.state \in CallStates /\ CallBelow(again.state, rs.state) /\ CallBelow(rs.state, again.state)
    BY <2>1, <2>2, CallMergeIsJoin
  <2>4. QED
    BY <2>1, <2>2, <2>3, CallBelowIsPreorder
<1>9. QED
  BY <1>1, <1>2, <1>6, <1>7, <1>8

\* merge_canon_results by cases of what the two traces have.
LEMMA CanonMergeCases ==
  ASSUME NEW p \in CanonStates, NEW c \in CanonStates
  PROVE  LET m == MergeAsCanon(p, c) IN
         /\ p = NoState => m.ok /\ m.state = c
         /\ c = NoState => m.ok /\ m.state = p
         /\ p.kind = "canon_sent" /\ c # NoState =>
              m.ok /\ m.state = (IF c.kind = "canon" THEN c ELSE p)
         /\ c.kind = "canon_sent" /\ p # NoState => m.ok /\ m.state = p
         /\ p.kind = "canon" /\ c.kind = "canon" =>
              IF p = c THEN m.ok /\ m.state = p ELSE ~m.ok
  BY CanonKinds DEF MergeAsCanon, MergeStates, MergeCanonResults, Merged, NotMet, MergeError

\* The same of canon states: of two canons of one stream at most one is ever believed
\* (canon_merger.rs, merge_canon_results).
THEOREM CanonMergeIsJoin ==
  ASSUME NEW p \in CanonStates, NEW c \in CanonStates
  PROVE  LET m == MergeAsCanon(p, c) IN
         /\ m.ok <=> \E u \in CanonStates : CanonBelow(p, u) /\ CanonBelow(c, u)
         /\ m.ok => /\ m.state \in CanonStates
                    /\ CanonBelow(p, m.state) /\ CanonBelow(c, m.state)
                    /\ \A u \in CanonStates :
                         CanonBelow(p, u) /\ CanonBelow(c, u) => CanonBelow(m.state, u)
<1> DEFINE m == MergeAsCanon(p, c)
<1>1. /\ m.ok => m.state \in CanonStates /\ (m.state = p \/ m.state = c)
      /\ m.ok => CanonBelow(p, m.state) /\ CanonBelow(c, m.state)
  BY CanonMergeCases, CanonKinds DEF CanonBelow, SameCanon
<1>2. ASSUME NEW u \in CanonStates, CanonBelow(p, u), CanonBelow(c, u)
      PROVE  m.ok
  BY <1>2, CanonMergeCases, CanonKinds DEF CanonBelow, SameCanon
<1>3. QED
  BY <1>1, <1>2
=============================================================================
