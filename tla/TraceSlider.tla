----------------------------- MODULE TraceSlider -----------------------------
(***************************************************************************)
(* The cursor that the trace handler slides over a received trace          *)
(* (data_keeper/trace_slider.rs).  A slider reads the states of one        *)
(* subtrace: it stands at `pos` (0-based, so the next state to read is     *)
(* trace[pos + 1]), the subtrace has `len` states and `seen` of them were  *)
(* read since the window was last moved.                                   *)
(*                                                                         *)
(* Positions are u32 in the code.  The arithmetic that the code checks is  *)
(* checked in ParFSM; a trace is far shorter than 2^31 states.             *)
(***************************************************************************)
EXTENDS Integers, Sequences

\* What next_state() answers when it answers None.
NoState == [kind |-> "none"]

\* TraceSlider::new: the window is the whole trace.
NewSlider(t) == [trace |-> t, pos |-> 0, len |-> Len(t), seen |-> 0]

\* The condition under which next_state() answers Some.
HasNext(s) == s.seen < s.len /\ s.pos < Len(s.trace)

\* The two halves of next_state(): its answer, and the slider it leaves.
NextState(s) == IF HasNext(s) THEN s.trace[s.pos + 1] ELSE NoState

Advance(s) == IF HasNext(s)
                THEN [s EXCEPT !.pos = @ + 1, !.seen = @ + 1]
                ELSE s

\* set_position_and_len: refuses a window that leaves the trace, but takes
\* any position with an empty one.
CanSetPositionAndLen(s, p, n) == n # 0 => p + n <= Len(s.trace)

SetPositionAndLen(s, p, n) == [s EXCEPT !.pos = p, !.len = n, !.seen = 0]

\* set_subtrace_len: keeps the position.  The remainder is a u32 subtraction.
CanSetSubtraceLen(s, n) == Len(s.trace) - s.pos >= n

SetSubtraceLen(s, n) == [s EXCEPT !.len = n, !.seen = 0]

\* subtrace_len(): the states of the window that are still to be read.
SubtraceLen(s) == s.len - s.seen
=============================================================================
