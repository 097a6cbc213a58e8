------------------------------- MODULE Merger -------------------------------
(***************************************************************************)
(* The states of an execution trace (interpreter-data/executed_state.rs)   *)
(* and the mergers of the trace handler, which take the next state of the  *)
(* previous and of the current trace and decide what both together say     *)
(* (merger/call_merger.rs, ap_merger.rs, canon_merger.rs, par_merger.rs).  *)
(*                                                                         *)
(* A content identifier (CID) stands for the value it identifies.          *)
(***************************************************************************)
EXTENDS TraceSlider

CONSTANTS Peers,      \* The peers that may appear in a trace.
          Cids        \* The values (CIDs) that may appear in a trace.

-----------------------------------------------------------------------------
(* CallResult, ApResult, CanonResult, ParResult.                           *)

SentBy(p)             == [kind |-> "sent", by |-> p]
SentByWithId(p, id)   == [kind |-> "sent_id", by |-> p, id |-> id]
Scalar(cid)           == [kind |-> "executed", out |-> "scalar", cid |-> cid]
Unused(cid)           == [kind |-> "executed", out |-> "unused", cid |-> cid]
StreamValue(cid, gen) == [kind |-> "executed", out |-> "stream",
                          cid |-> cid, gen |-> gen]
Failed(cid)           == [kind |-> "failed", cid |-> cid]
Ap(gens)              == [kind |-> "ap", gens |-> gens]
CanonSentBy(p)        == [kind |-> "canon_sent", by |-> p]
CanonExecuted(cid)    == [kind |-> "canon", cid |-> cid]
Par(l, r)             == [kind |-> "par", left |-> l, right |-> r]

\* GenerationIdx::stub(), the generation of a value that was not compactified
\* yet: a number no stream reaches.
StubGen == -1

\* ExecutedState.
State ==
  [kind : {"sent", "canon_sent"}, by : Peers]
    \cup [kind : {"sent_id"}, by : Peers, id : Nat]
    \cup [kind : {"executed"}, out : {"scalar", "unused"}, cid : Cids]
    \cup [kind : {"executed"}, out : {"stream"}, cid : Cids, gen : Int]
    \cup [kind : {"failed", "canon"}, cid : Cids]
    \cup [kind : {"ap"}, gens : Seq(Int)]
    \cup [kind : {"par"}, left : Nat, right : Nat]

IsSent(s)  == s.kind \in {"sent", "sent_id"}
IsCall(s)  == s.kind \in {"sent", "sent_id", "executed", "failed"}
IsCanon(s) == s.kind \in {"canon_sent", "canon"}
IsAp(s)    == s.kind = "ap"
IsPar(s)   == s.kind = "par"

-----------------------------------------------------------------------------
(* A merger answers a state and the trace(s) it was taken from             *)
(* (PreparationScheme), nothing when neither trace has a state, or an      *)
(* error, which ends the run.                                              *)

Merged(st, scheme) == [ok |-> TRUE, state |-> st, scheme |-> scheme]
NotMet             == Merged(NoState, "none")
MergeError         == [ok |-> FALSE, state |-> NoState, scheme |-> "none"]

\* merge_executed: both values of one kind, with the same CID.  A stream
\* value keeps the generation of the previous data.
SameValue(p, c) == p.out = c.out /\ p.cid = c.cid

\* Mutant: the current trace wins, also when it has only a request.
MergeCallResultsLatest(p, c) == Merged(c, "current")

\* merge_call_results: what is executed wins over what is only requested, the
\* previous trace wins between two requests, two outcomes must agree.
MergeCallResults(p, c) ==
  CASE p.kind = "failed" /\ c.kind = "failed" ->
         IF p = c THEN Merged(p, "previous") ELSE MergeError
    [] IsSent(p) /\ c.kind \in {"failed", "executed"} -> Merged(c, "current")
    [] IsSent(c)                                      -> Merged(p, "previous")
    [] p.kind = "executed" /\ c.kind = "executed" ->
         IF SameValue(p, c) THEN Merged(p, "both") ELSE MergeError
    [] OTHER                                          -> MergeError

\* prepare_merge_result of ap: exactly one generation is expected.
ApMet(a, scheme) == IF Len(a.gens) = 1 THEN Merged(a, scheme) ELSE MergeError

\* merge_canon_results.
MergeCanonResults(p, c) ==
  CASE p.kind = "canon" /\ c.kind = "canon" /\ p # c -> MergeError
    [] p.kind = "canon_sent" /\ c.kind = "canon"     -> Merged(c, "none")
    [] OTHER                                         -> Merged(p, "none")

\* The common shape of the four try_merge_next_state_as_*: a state met in one
\* trace only is taken as it is, a state of another kind is an error.
MergeStates(p, c, IsKind(_), One(_, _), Both(_, _)) ==
  CASE p = NoState /\ c = NoState                -> NotMet
    [] p = NoState /\ c # NoState /\ IsKind(c)   -> One(c, "current")
    [] p # NoState /\ c = NoState /\ IsKind(p)   -> One(p, "previous")
    [] p # NoState /\ c # NoState /\ IsKind(p) /\ IsKind(c) -> Both(p, c)
    [] OTHER                                     -> MergeError

MergeAsCall(p, c) == MergeStates(p, c, IsCall, Merged, MergeCallResults)

MergeAsAp(p, c) ==
  MergeStates(p, c, IsAp, ApMet, LAMBDA x, y : ApMet(x, "both"))

MergeAsCanon(p, c) ==
  MergeStates(p, c, IsCanon, LAMBDA x, y : Merged(x, "none"), MergeCanonResults)

\* Par states are not merged into one: the two of them move their own slider.
\* A missing par is the default one, with empty subgraphs.
MergeAsPar(p, c) ==
  LET Size(s) == IF s = NoState THEN Par(0, 0) ELSE s IN
  [ok   |-> (p = NoState \/ IsPar(p)) /\ (c = NoState \/ IsPar(c)),
   prev |-> Size(p), cur |-> Size(c)]
=============================================================================
