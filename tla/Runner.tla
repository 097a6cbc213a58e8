-------------------------------- MODULE Runner --------------------------------
(***************************************************************************)
(* One invocation of the interpreter (air/src/runner.rs): verification of  *)
(* the data, execution of the script, signing, and the outcome             *)
(* (farewell_step/outcome.rs) that a host gets back.                       *)
(*                                                                         *)
(* Parsing and the size limits are not part of it.                         *)
(***************************************************************************)
EXTENDS ExecutionContext, DataVerifier

\* air.execute(): the context that an instruction leaves behind (Interpreter).
CONSTANT execute(_, _)

Outcome(ret, data, next, requests) ==
  [ret |-> ret, data |-> data, next |-> next, requests |-> requests]

\* from_uncatchable_error: the previous data, and nothing to do.
Rejected(why, prev) == Outcome(Uncatchable(why), prev, {}, <<>>)

\* A map that is extended with the entries of another: those of f win.
Extended(f, g) == [x \in DOMAIN f \cup DOMAIN g |-> IF x \in DOMAIN f THEN f[x] ELSE g[x]]

\* sign_produced_cids and sign_result: this peer's signature is replaced.
SignResult(c, sigs) == Extended([p \in {c.self} |-> c.cids], sigs)

\* compactify_streams.
CanCompactifyStreams(c) == CanUpdateGenerations(c.k.out, GenerationsLeft(c))
CompactifiedTrace(c)    == UpdateGenerations(c.k.out, GenerationsLeft(c))

\* execution_error_into_outcome: there is no data at all.
Corrupted == Outcome(Uncatchable("GenerationCompactificationError"), EmptyData, {}, <<>>)

\* Mutant: the last request id is not saved.
FarewellWithoutId(c, sigs) ==
  Outcome(c.res, [trace |-> CompactifiedTrace(c), sigs |-> SignResult(c, sigs), lastId |-> 0],
          c.next, c.requests)

\* populate_outcome_from_contexts; a result that no call took is an error of
\* an otherwise successful run.
Farewell(c, sigs) ==
  IF ~CanCompactifyStreams(c) THEN Corrupted
  ELSE Outcome(IF IsOk(c) /\ DOMAIN c.results # {} THEN Uncatchable("UnprocessedCallResult")
                                                   ELSE c.res,
               [trace |-> CompactifiedTrace(c), sigs |-> SignResult(c, sigs),
                lastId |-> c.lastId],
               c.next, c.requests)

\* prepare: the context of the run continues the request ids of prev.
Prepare(self, init, prev, cur, results) ==
  NewCtx(self, init, prev.trace, cur.trace, results, prev.lastId)

\* The end of execute_air_impl, by the result of the execution.
OutcomeOf(c, prev, cur) ==
  IF IsOk(c) \/ IsCatchable(c) THEN Farewell(c, MergeSignatures(prev, cur))
                               ELSE Rejected(c.res.why, prev)

\* execute_air_impl.
Invoke(script, self, init, prev, cur, results) ==
  IF ~Verified(prev, cur) THEN Rejected("DataSignatureCheckError", prev)
  ELSE OutcomeOf(execute(script, Prepare(self, init, prev, cur, results)), prev, cur)

-----------------------------------------------------------------------------
(* What the runner and the network need of an execution.  An execution is  *)
(* the work of one peer, with two data and some results of its services:   *)
(* nothing here is about other peers at work.                              *)

\* The data of a run that is not refused.
NewData(c, prev, cur) == Farewell(c, MergeSignatures(prev, cur)).data

Stores(c) == (IsOk(c) \/ IsCatchable(c)) /\ CanCompactifyStreams(c)

\* Of what other peers have produced, the new trace has what the fuller one of
\* both traces has: merging two traces neither loses nor invents a result.
KeepsOthers(self, prev, cur, d) ==
  \A q \in Peers \ {self} : PeerCids(d, q) = PeerCids(Larger(prev, cur, q), q)

\* Of its own results the peer keeps all that it has stored, and the CIDs that it
\* has tracked on the way are those of the trace.
KeepsOwn(self, prev, d, c) ==
  /\ c.self = self /\ c.cids = PeerCids(d, self)
  /\ PeerCids(prev, self) \sqsubseteq PeerCids(d, self)

\* No request id is used again.
NumbersRequests(prev, c) ==
  /\ c.lastId \in Nat /\ prev.lastId <= c.lastId
  /\ DOMAIN c.requests \subseteq (prev.lastId + 1) .. c.lastId
=============================================================================
