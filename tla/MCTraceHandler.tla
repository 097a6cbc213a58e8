---------------------------- MODULE MCTraceHandler ----------------------------
(***************************************************************************)
(* TraceHandler over every pair of short traces that a handler itself can  *)
(* produce: the states of a script with calls, an ap, a canon and pars.    *)
(***************************************************************************)
EXTENDS TraceHandler

CONSTANTS MaxTrace,   \* Bound: the longest input trace.
          Leaves      \* The states of input traces that are not pars.

MCPars == {Par(l, r) : l, r \in 0 .. MaxTrace}

\* Every sequence of states, pars with impossible sizes included: what a trace
\* that arrives from another peer may look like.
MCAnyTraces == UNION {[1 .. n -> Leaves \cup MCPars] : n \in 0 .. MaxTrace}

MCNestedTraces ==
  {t \in MCAnyTraces : WellNested(t, {i \in 1 .. Len(t) : IsPar(t[i])})}

MCLeaves == {Scalar("v")}

MCLeavesAll == {SentByWithId("p", 1), Failed("v"), Scalar("v"), Ap(<<0>>),
                CanonSentBy("q"), CanonExecuted("v")}
=============================================================================
