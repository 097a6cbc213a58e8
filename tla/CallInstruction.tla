--------------------------- MODULE CallInstruction ---------------------------
(***************************************************************************)
(* The call instruction (instructions/call.rs and call/): what a call does *)
(* with the state it meets, with the result of a service, and where        *)
(* neither is there.                                                       *)
(***************************************************************************)
EXTENDS ExecutionContext

\* The output of a call is a scalar, a stream, or nothing
\* (CallOutputValue::None).
NoOutput == ""

CallTo(peer, fn, args, to, out) ==
  [op |-> "call", peer |-> peer, fn |-> fn, args |-> args, to |-> to, out |-> out]

Call(peer, fn, args, out) ==
  CallTo(peer, fn, args, IF out = NoOutput THEN "none" ELSE "scalar", out)

CallToStream(peer, fn, args, s) == CallTo(peer, fn, args, "stream", s)

\* The aggregate that a service result CID identifies.
Cid(p, i, args, v) == [peer |-> p, fn |-> i.fn, args |-> args, value |-> v]

\* set_errors of call.rs for an error that has a tetraplet.
CallRaise(c, e, i, p) == Raise(SetErrors(c, e, Text(i), p, LogErrorsWithPeerId(i)), e)

\* verifier::verify_call: the data must hold what this peer computes itself.
VerifyCall(i, p, args, cid) == cid.peer = p /\ cid.fn = i.fn /\ cid.args = args

\* populate_context_from_peer_service_result.
PopulateFromService(c, k, i, p, args, v) ==
  LET cid   == Cid(p, i, args, v)
      added == AddStreamValue(c, i.out, v, New)
  IN CASE i.to = "none"   -> Push(Done(c), k, Unused(v))
       [] i.to = "scalar" -> Push(Done(RecordCid(SetScalar(c, i.out, v), cid)), k, Scalar(cid))
       [] i.to = "stream" /\ IsOk(added) ->
            Push(RecordCid(added, cid), k, StreamValue(cid, StubGen))
       [] i.to = "stream" /\ ~IsOk(added) -> added

\* Mutant: a failure is written to the trace, but never signed.
ServiceFailedUnsigned(c, k, i, p, args, r) ==
  CallRaise(Push(c, k, Failed(Cid(p, i, args, Lit(r.code)))),
            LocalServiceError(r.code), i, p)

\* handle_service_error and try_to_service_result: of the two ways in which a
\* service fails, only the first one records the CID of the failure.
ServiceFailed(c, k, i, p, args, r) ==
  LET v   == Lit(r.code)
      cid == Cid(p, i, args, v)
      c2  == IF r.kind = "error" THEN RecordCid(c, cid) ELSE c
  IN CallRaise(Push(c2, k, Failed(cid)), LocalServiceError(r.code), i, p)

\* update_state_with_service_result, after call_results.remove.
ApplyServiceResult(c, k, i, p, args, id) ==
  LET r  == c.results[id]
      c2 == [c EXCEPT !.results = [j \in DOMAIN @ \ {id} |-> @[j]]]
  IN IF r.kind = "value" THEN PopulateFromService(c2, k, i, p, args, r.value)
                         ELSE ServiceFailed(c2, k, i, p, args, r)

\* Mutant: a result that comes from the data is not signed again.
ReplayExecutedUnsigned(c, k, i, p, args, met) ==
  LET st == met.state
      done == CASE i.to = "none"   -> Done(c)
                [] i.to = "scalar" -> Done(SetScalar(c, i.out, st.cid.value))
                [] i.to = "stream" -> AddStreamValue(c, i.out, st.cid.value, GenerationFromData(met, st.gen))
  IN Push(done, k, st)

\* handle_prev_state of an executed call: populate_context_from_data.
ReplayExecuted(c, k, i, p, args, met) ==
  LET st    == met.state
      added == AddStreamValue(c, i.out, st.cid.value, GenerationFromData(met, st.gen))
  IN CASE st.out # (IF i.to = "none" THEN "unused" ELSE i.to) ->
            Abort(c, "CallResultNotCorrespondToInstr")
       [] st.out = "unused" /\ i.to = "none" -> Push(Done(c), k, st)
       [] st.out = i.to /\ ~VerifyCall(i, p, args, st.cid) ->
            Abort(c, "InstructionParametersMismatch")
       [] st.out = i.to /\ VerifyCall(i, p, args, st.cid) ->
            IF st.out = "scalar"
              THEN Push(Done(RecordCid(SetScalar(c, i.out, st.cid.value), st.cid)), k, st)
              ELSE IF IsOk(added) THEN Push(RecordCid(added, st.cid), k, st) ELSE added

\* Mutant: a failure that comes from the data is not signed again.
ReplayFailedUnsigned(c, k, i, p, args, st) ==
  CallRaise(Push(Incomplete(c), k, st), LocalServiceError(st.cid.value.val), i, p)

\* handle_prev_state of a failed call.
ReplayFailed(c, k, i, p, args, st) ==
  IF VerifyCall(i, p, args, st.cid)
    THEN CallRaise(Push(RecordCid(Incomplete(c), st.cid), k, st),
                   LocalServiceError(st.cid.value.val), i, p)
    ELSE Abort(c, "InstructionParametersMismatch")

\* Mutants: the peer is not named, or is named again on every run.
RemoteCallUnsent(c, k, p) == Push(Join(c), k, SentBy(c.self))
RemoteCallUnrecorded(c, k, p) == [Join(c) EXCEPT !.next = @ \cup {p}, !.k = k]

\* handle_remote_call.
RemoteCall(c, k, p) ==
  Push(Done(Incomplete([c EXCEPT !.next = @ \cup {p}])), k, SentBy(c.self))

\* Mutant: the trace does not say which request was made.
RequestCallWithoutId(c, k, i, args) ==
  LET id == c.lastId + 1 IN
  Push(Join([c EXCEPT !.lastId = id,
                          !.requests = (id :> [fn |-> i.fn, args |-> args]) @@ @]),
           k, SentBy(c.self))

\* The tail of ResolvedCall::execute: hand the call to this peer's services.
RequestCall(c, k, i, args) ==
  LET id == c.lastId + 1 IN
  Push(Done(Incomplete([c EXCEPT !.lastId = id,
                                     !.requests = (id :> [fn |-> i.fn, args |-> args]) @@ @])),
           k, SentByWithId(c.self, id))

\* The call met a state or none, for the peer p, with its arguments resolved
\* or not (joined).
CallWithState(c, k, i, p, met, joined, args) ==
  LET st == met.state IN
  CASE st.kind \in {"executed", "failed"} /\ joined -> Abort(c, "panic")
    [] st.kind = "executed" /\ ~joined -> ReplayExecuted(c, k, i, p, args, met)
    [] st.kind = "failed" /\ ~joined   -> ReplayFailed(c, k, i, p, args, st)
    [] st.kind = "sent_id" /\ st.by = c.self /\ st.id \in DOMAIN c.results ->
         IF joined THEN Abort(c, "panic")
                   ELSE ApplyServiceResult(c, k, i, p, args, st.id)
    [] \/ st.kind = "sent_id" /\ st.by = c.self /\ st.id \notin DOMAIN c.results
       \/ IsSent(st) /\ ~(st.kind = "sent_id" /\ st.by = c.self) /\ p # c.self ->
         Push(Join(c), k, st)
    [] IsSent(st) /\ ~(st.kind = "sent_id" /\ st.by = c.self) /\ p = c.self ->
         IF joined THEN Push(Join(c), k, st) ELSE RequestCall(c, k, i, args)
    [] st = NoState /\ p # c.self -> RemoteCall(c, k, p)
    [] st = NoState /\ p = c.self ->
         IF joined THEN [Join(c) EXCEPT !.k = k] ELSE RequestCall(c, k, i, args)

\* check_output_name: the output is an iterator, or a variable that is set.
OutputShadows(c, i) ==
  /\ i.to = "scalar"
  /\ i.out \in DOMAIN c.iters \/ (Visible(c, i.out) /\ ~CanSet(c, i.out))

ExecCall(i, c) ==
  IF ~Resolved(c, i.peer) THEN Join(c)
  ELSE LET pv     == Resolve(c, i.peer)
           met    == MetCall(c.k)
           joined == ~ResolvedAll(c, i.args)
       IN CASE ~ResolvesToPeer(pv) ->
                 CallRaise(c, NonStringValueInTripletResolution, i, NoPeer)
            [] ResolvesToPeer(pv) /\ OutputShadows(c, i) ->
                 Abort(c, IF i.out \in DOMAIN c.iters THEN "IterableShadowing"
                                                      ELSE "ShadowingIsNotAllowed")
            [] ResolvesToPeer(pv) /\ ~OutputShadows(c, i) /\ ~met.ok ->
                 Abort(c, "TraceError")
            [] OTHER ->
                 CallWithState(c, AfterMet(c.k, met), i, pv.val, met, joined,
                               IF joined THEN <<>> ELSE ResolveAll(c, i.args))
=============================================================================
