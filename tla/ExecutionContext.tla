--------------------------- MODULE ExecutionContext ---------------------------
(***************************************************************************)
(* Values, arguments, errors and the execution context                     *)
(* (air/src/execution_step/execution_context): the keeper of the trace     *)
(* handler, variables and their scopes, streams, the two error             *)
(* descriptors, call requests and results, and the tracker of the CIDs     *)
(* that this peer has produced.                                            *)
(*                                                                         *)
(* A CID stands for the aggregate it identifies: the value, the call it    *)
(* came from (tetraplet) and the arguments (argument_hash).                *)
(***************************************************************************)
EXTENDS FoldFSM, Stream, Bags, TLC

\* Values.  The items of an array are values; a pair is an entry of a map.
Lit(s)      == [val |-> s]
Array(vs)   == [val |-> "array", items |-> vs]
Pair(k, v)  == [val |-> "pair", key |-> k, value |-> v]
Object(kvs) == [val |-> "object", entries |-> kvs]

LitArg(s)    == [arg |-> "lit", value |-> Lit(s)]
VarArg(x)    == [arg |-> "var", name |-> x]
ErrorArg     == [arg |-> "error"]
LastErrorArg == [arg |-> "last_error"]

\* The text of an instruction, as error objects show it.
Text(i) == CASE i.op = "call" -> <<"call", i.fn>>
             [] i.op \in {"match", "mismatch"} -> <<i.op, i.l, i.r>>
             [] OTHER -> <<i.op>>

-----------------------------------------------------------------------------
(* Results of an instruction, error objects.                               *)

Ok             == [kind |-> "ok"]
Catchable(e)   == [kind |-> "catchable", error |-> e]
Uncatchable(w) == [kind |-> "uncatchable", why |-> w]

\* CatchableError.
LocalServiceError(code)    == [err |-> "service", code |-> code]
MatchValuesNotEqual        == [err |-> "match"]
MismatchValuesEqual        == [err |-> "mismatch"]
UserError(obj)             == [err |-> "user", object |-> obj]
LiteralError(msg)          == [err |-> "literal", code |-> msg]
InvalidErrorObjectError    == [err |-> "invalid_error_object"]
NonStringValueInTripletResolution == [err |-> "non_string"]
FoldIteratesOverNonArray   == [err |-> "non_array"]
UnsupportedMapKeyType      == [err |-> "map_key"]
VariableNotFound           == [err |-> "variable_not_found"]

AffectsLastError(e) == e.err \notin {"match", "mismatch"}

NoPeer  == "no peer"
NoError == [val |-> "no error"]

\* get_instruction_error_from_ingredients: code and message come from the
\* error.
ErrorObject(e, instr, peer) ==
  [val |-> "error", of |-> e, instr |-> instr, peer |-> peer]

\* check_error_object: no_error has the code 0, which is refused.
IsErrorObject(v) == v.val = "error"

-----------------------------------------------------------------------------
(* The context (execution_context/context.rs).                             *)

\* results: call results by id.  requests: what the run asks its services.
\* scalars: the innermost cell of each scalar and canon; allowed: the depths
\* that may be read.  iters and folds: the state of each fold, by iterator
\* and by fold id, and observed: whether a generation of it was complete.
NewCtx(self, init, prev, cur, results, lastId) ==
  [self |-> self, init |-> init, k |-> NewKeeper(prev, cur),
   scalars |-> <<>>, depth |-> 0, allowed |-> {0},
   streams |-> <<>>, iters |-> <<>>, folds |-> <<>>, observed |-> <<>>, foldId |-> 0,
   next |-> {}, complete |-> TRUE, lastId |-> lastId,
   results |-> results, requests |-> <<>>, cids |-> EmptyBag,
   lastError |-> NoError, lastErrorCanBeSet |-> TRUE,
   error |-> NoError, orig |-> <<>>, errorCanBeSet |-> TRUE,
   res |-> Ok]

Incomplete(c) == [c EXCEPT !.complete = FALSE]
Complete(c)   == [c EXCEPT !.complete = TRUE]
Done(c)       == [c EXCEPT !.res = Ok]
Raise(c, e)   == [c EXCEPT !.res = Catchable(e)]
Abort(c, why) == [c EXCEPT !.res = Uncatchable(why)]

\* The joinable! macro.
Join(c) == Done(Incomplete(c))

IsOk(c)        == c.res.kind = "ok"
IsCatchable(c) == c.res.kind = "catchable"
IsUncatchable(c) == c.res.kind = "uncatchable"

\* record_call_cid, record_canon_cid and PeerCidTracker::register: only this
\* peer's CIDs.
RecordCid(c, cid) ==
  IF cid.peer = c.self THEN [c EXCEPT !.cids = @ (+) SetToBag({cid})] ELSE c

\* meet_call_end, meet_ap_end, meet_canon_end, on the keeper k.
Push(c, k, st) == [c EXCEPT !.k = PushState(k, st)]

\* LastErrorDescriptor: %last_error% keeps the first error on the way up.
TrySetLastError(c, e, instr, peer) ==
  IF c.lastErrorCanBeSet /\ AffectsLastError(e)
    THEN [c EXCEPT !.lastError = ErrorObject(e, instr, peer), !.lastErrorCanBeSet = FALSE]
    ELSE c

\* ErrorDescriptor, and disable_error_setting, which follows.
TrySetError(c, e, instr, peer) ==
  IF c.errorCanBeSet
    THEN [c EXCEPT !.error = ErrorObject(e, instr, peer), !.orig = <<>>,
                   !.errorCanBeSet = FALSE]
    ELSE c

\* Mutant: the error names the peer that runs the script.
SetErrorsSelf(c, e, instr, tetrapeer, logsPeer) ==
  [c EXCEPT !.error = IF c.errorCanBeSet THEN ErrorObject(e, instr, c.self) ELSE @,
            !.orig = IF c.errorCanBeSet THEN <<>> ELSE @,
            !.errorCanBeSet = FALSE]

\* set_errors.  tetrapeer is the peer of the call's tetraplet, if there is
\* one; logsPeer is log_errors_with_peer_id of the instruction.
SetErrors(c, e, instr, tetrapeer, logsPeer) ==
  LET peer == IF logsPeer /\ tetrapeer # NoPeer THEN tetrapeer ELSE c.self IN
  TrySetError(TrySetLastError(c, e, instr, peer),
              e, instr, IF logsPeer THEN peer ELSE NoPeer)

\* Call sets its errors itself; of the others, canons log their peer.
LogErrorsWithPeerId(i) == i.op \in {"call", "canon"}

\* The execute! macro, around every instruction but call.
WithErrors(c, i) ==
  IF IsCatchable(c) THEN SetErrors(c, c.res.error, Text(i), NoPeer, LogErrorsWithPeerId(i))
                    ELSE c

-----------------------------------------------------------------------------
(* Scalars, canons and iterators (scalar_variables.rs, resolved through    *)
(* the matrix of ScalarScopes; `new` restricts streams only here).         *)

Visible(c, x) == x \in DOMAIN c.scalars /\ c.scalars[x].depth \in c.allowed

\* Resolvable::resolve: a variable that is not set yet is joinable.
Resolved(c, a) == a.arg = "var" => a.name \in DOMAIN c.iters \/ Visible(c, a.name)

VariableValue(c, x) ==
  IF x \in DOMAIN c.iters THEN c.iters[x].items[c.iters[x].at].v ELSE c.scalars[x].value

Resolve(c, a)  == CASE a.arg = "lit"        -> a.value
                    [] a.arg = "var"        -> VariableValue(c, a.name)
                    [] a.arg = "error"      -> c.error
                    [] a.arg = "last_error" -> c.lastError

ResolvedAll(c, as) == \A i \in DOMAIN as : Resolved(c, as[i])
ResolveAll(c, as)  == [i \in DOMAIN as |-> Resolve(c, as[i])]

\* try_jvalue_to_string: a value that can name a peer.
ResolvesToPeer(v) == v.val \in Peers

\* set_value: outside of folds, a second value is shadowing.
CanSet(c, x) == x \in DOMAIN c.scalars => c.depth # 0

SetScalar(c, x, v) ==
  [c EXCEPT !.scalars = (x :> [value |-> v, depth |-> c.depth]) @@ @]

\* meet_fold_start.
EnterFold(c) == [c EXCEPT !.depth = @ + 1, !.allowed = @ \cup {c.depth + 1}]

\* meet_next_before: what this iteration has set cannot be read in the next.
EnterNext(c) == [c EXCEPT !.depth = @ + 1,
                          !.allowed = (@ \ {c.depth}) \cup {c.depth + 1}]

\* meet_fold_end, meet_next_after: back in the scopes of outer.
LeaveScope(c, outer) == [c EXCEPT !.depth = outer.depth, !.allowed = outer.allowed,
                                  !.scalars = outer.scalars]

-----------------------------------------------------------------------------
(* Streams and stream maps (streams_variables.rs, stream_maps_variables.rs).*)
(* Each name has a stack: a stream that `new` restricts lies over the      *)
(* global one.  A restricted stream is taken to have a name of its own, so *)
(* that the innermost stream is the closest one by position.               *)

HasStream(c, s) == s \in DOMAIN c.streams

\* get; where there is none, what unwrap_or_default gives.
StreamOf(c, s) == IF HasStream(c, s) THEN c.streams[s][Len(c.streams[s])] ELSE EmptyStream

SetStream(c, s, st) ==
  [c EXCEPT !.streams = (s :> IF HasStream(c, s)
                                THEN SubSeq(@[s], 1, Len(@[s]) - 1) \o <<st>>
                                ELSE <<st>>) @@ @]

\* Generation::from_data and from_met_result: what is in both traces counts as
\* previous data.
GenerationFromData(met, gen) == IF met.scheme = "current" THEN Current(gen) ELSE Previous(gen)

\* add_stream_value, add_stream_map_value: the value is at the next position of
\* the trace.
AddStreamValue(c, s, value, gen) ==
  LET st == AddValue(StreamOf(c, s), [v |-> value, pos |-> Len(c.k.out)], gen) IN
  IF SizeLimitExceeded(st) THEN Abort(c, "StreamSizeLimitExceeded")
                           ELSE Done(SetStream(c, s, st))

\* meet_scope_start.
PushStream(c, s) ==
  [c EXCEPT !.streams = (s :> IF HasStream(c, s) THEN Append(@[s], EmptyStream)
                                                 ELSE <<EmptyStream>>) @@ @]

PopStream(c, s) ==
  [c EXCEPT !.streams =
     IF Len(@[s]) = 1 THEN [n \in DOMAIN @ \ {s} |-> @[n]]
                      ELSE [@ EXCEPT ![s] = SubSeq(@, 1, Len(@) - 1)]]

\* update_generations of a stream: the generation of each position.
PositionGenerations(st) ==
  LET gens == Generations(st) IN
  [p \in {e.pos : e \in InStream(st)} |->
     gens[CHOOSE e \in InStream(st) : e.pos = p]]

\* Stream::compactify, on the trace under construction.
CanCompactify(c, st) == CanUpdateGenerations(c.k.out, PositionGenerations(st))

Compactify(c, st) == [c EXCEPT !.k.out = UpdateGenerations(@, PositionGenerations(st))]

\* Streams::compactify, StreamMaps::compactify.
StreamsLeft(c) == UNION {{c.streams[s][n] : n \in DOMAIN c.streams[s]} : s \in DOMAIN c.streams}

GenerationsLeft(c) ==
  LET left == StreamsLeft(c) IN
  [p \in UNION {{e.pos : e \in InStream(st)} : st \in left} |->
     LET st == CHOOSE x \in left : p \in DOMAIN PositionGenerations(x)
     IN PositionGenerations(st)[p]]
=============================================================================
