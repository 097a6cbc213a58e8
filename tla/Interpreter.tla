----------------------------- MODULE Interpreter -----------------------------
(***************************************************************************)
(* The execution of an AIR script over a pair of traces                    *)
(* (air/src/execution_step/instructions).                                  *)
(*                                                                         *)
(* An instruction is a record, a script is a nested one.  Executing it     *)
(* takes an execution context and answers the context that the code        *)
(* leaves, with the instruction's Result in the field res.                 *)
(***************************************************************************)
EXTENDS CallInstruction

LOCAL INSTANCE SequencesExt

Seq2(a, b)          == [op |-> "seq", left |-> a, right |-> b]
Par2(a, b)          == [op |-> "par", left |-> a, right |-> b]
Xor(a, b)           == [op |-> "xor", left |-> a, right |-> b]
Match(l, r, body)   == [op |-> "match", l |-> l, r |-> r, body |-> body]
Mismatch(l, r, body) == [op |-> "mismatch", l |-> l, r |-> r, body |-> body]
FailWith(msg)       == [op |-> "fail", with |-> "literal", message |-> msg]
FailWithError       == [op |-> "fail", with |-> "error"]
FailWithLastError   == [op |-> "fail", with |-> "last_error"]
ApScalar(a, x)      == [op |-> "ap", from |-> a, out |-> x]
Null                == [op |-> "null"]
Never               == [op |-> "never"]

\* Ap and ap_map to streams; canon, with the kind of variable it sets: a canon
\* stream, a canon map, or a scalar made of a map; folds over a stream (or a
\* map) and over a scalar (or a canon); last is the last instruction.
ApStream(a, s)      == [op |-> "ap_stream", from |-> a, out |-> s]
ApMap(key, a, m)    == [op |-> "ap_map", key |-> key, from |-> a, out |-> m]
Canon(kind, p, s, x) == [op |-> "canon", kind |-> kind, peer |-> p, stream |-> s, out |-> x]
FoldStream(s, it, body, last) ==
  [op |-> "fold_stream", over |-> s, iterator |-> it, body |-> body, last |-> last]
FoldScalar(a, it, body, last) ==
  [op |-> "fold_scalar", over |-> a, iterator |-> it, body |-> body, last |-> last]
NextOf(it)          == [op |-> "next", iterator |-> it]
NewStream(s, body)  == [op |-> "new", stream |-> s, body |-> body]

NoInstruction == [op |-> "none"]

-----------------------------------------------------------------------------
(* Instructions without subinstructions.                                   *)

\* fail_with_error_object.
FailWithObject(c, obj) ==
  Raise(Incomplete([c EXCEPT !.lastError = obj, !.lastErrorCanBeSet = FALSE]),
        UserError(obj))

ExecFail(i, c) ==
  CASE i.with = "literal" -> FailWithObject(c, ErrorObject(LiteralError(i.message), Text(i), c.init))
    [] i.with = "last_error" ->
         IF IsErrorObject(c.lastError) THEN FailWithObject(c, c.lastError)
                                       ELSE Raise(c, InvalidErrorObjectError)
    [] i.with = "error" ->
         IF ~IsErrorObject(c.error) THEN Raise(c, InvalidErrorObjectError)
         ELSE LET f == [FailWithObject(c, c.error) EXCEPT !.errorCanBeSet = FALSE]
              IN IF c.orig = <<>> THEN f ELSE Raise(f, c.orig[1])

ExecAp(i, c) ==
  CASE ~Resolved(c, i.from) -> Join(c)
    [] Resolved(c, i.from) /\ ~CanSet(c, i.out) -> Abort(c, "ShadowingIsNotAllowed")
    [] OTHER -> Done(SetScalar(c, i.out, Resolve(c, i.from)))

\* Generation of an ap: a new one, or the one of the state that was met.
ApGeneration(met) == IF met.state = NoState THEN New
                                            ELSE GenerationFromData(met, met.state.gens[1])

\* populate_context, maybe_update_trace.
ApplyToStream(c, met, s, v) ==
  LET added == AddStreamValue(c, s, v, ApGeneration(met)) IN
  IF IsOk(added) THEN Push(added, AfterMet(c.k, met), Ap(<<StubGen>>)) ELSE added

ExecApStream(i, c) ==
  LET met == MetAp(c.k) IN
  CASE ~Resolved(c, i.from)            -> Join(c)
    [] Resolved(c, i.from) /\ ~met.ok  -> Abort(c, "TraceError")
    [] OTHER                           -> ApplyToStream(c, met, i.out, Resolve(c, i.from))

\* StreamMapKey::from_value: strings and numbers.
IsMapKey(v) == v.val \notin {"array", "pair", "object", "error", "no error"}

\* ApMap: the key is resolved after the state was met.
ExecApMap(i, c) ==
  LET met == MetAp(c.k)
      key == Resolve(c, i.key)
      popped == [c EXCEPT !.k = AfterMet(c.k, met)]
  IN CASE ~Resolved(c, i.from)           -> Join(c)
       [] Resolved(c, i.from) /\ ~met.ok -> Abort(c, "TraceError")
       [] OTHER -> IF ~Resolved(c, i.key) THEN Join(popped)
                   ELSE IF ~IsMapKey(key) THEN Raise(popped, UnsupportedMapKeyType)
                   ELSE ApplyToStream(c, met, i.out, Pair(key, Resolve(c, i.from)))

-----------------------------------------------------------------------------
(* Canons (canon.rs, canon_map.rs, canon_stream_map_scalar.rs,             *)
(* canon_utils/mod.rs).                                                    *)

\* Stream::iter.
StreamItems(st) ==
  LET es == FlattenSeq(st.prev \o st.cur \o st.new) IN [n \in DOMAIN es |-> es[n].v]

\* iter_unique_key_object: the first value of each key.
UniqueKeyObject(vs) ==
  Object({<<vs[n].key, vs[n].value>> :
            n \in {m \in DOMAIN vs : \A l \in 1 .. m - 1 : vs[l].key # vs[m].key}})

\* The canon stream of a map that becomes a scalar: one object.
MapScalar(vs) == <<UniqueKeyObject(vs)>>

\* create_canon_stream_producer: an empty one where there is no stream yet.
CanonValues(c, i) ==
  LET vs == StreamItems(StreamOf(c, i.stream)) IN
  IF i.kind = "scalar" THEN MapScalar(vs) ELSE vs

CanonCid(p, vs) == [peer |-> p, fn |-> "canon", args |-> <<>>, value |-> Array(vs)]

\* What the variable is set to: the canon itself, or the object in it.
CanonVariable(i, cid) == IF i.kind = "scalar" THEN cid.value.items[1] ELSE cid.value

\* The epilogs: the variable is set and the state is pushed.
CanonEpilog(c, k, i, cid) ==
  IF ~CanSet(c, i.out) THEN Abort(c, "ShadowingIsNotAllowed")
  ELSE Push(Done(SetScalar(RecordCid(c, cid), i.out, CanonVariable(i, cid))), k,
            CanonExecuted(cid))

\* Mutant: the peer is named again whenever the canon is still waited for.
CanonAtAgain(c, k, i, p, st) ==
  IF p = c.self THEN CanonEpilog(c, k, i, CanonCid(p, CanonValues(c, i)))
  ELSE Push(Join([c EXCEPT !.next = @ \cup {p}]), k, IF st = NoState THEN CanonSentBy(c.self) ELSE st)

\* The canon is not executed yet, st is a request for it or nothing.
CanonAt(c, k, i, p, st) ==
  CASE p = c.self -> CanonEpilog(c, k, i, CanonCid(p, CanonValues(c, i)))
    [] p # c.self /\ st # NoState -> Push(Join(c), k, st)
    [] p # c.self /\ st = NoState ->
         Push(Join([c EXCEPT !.next = @ \cup {p}]), k, CanonSentBy(c.self))

\* handle_canon_executed: the canon in the data must be one of the peer p.
ReplayCanon(c, k, i, p, cid) ==
  IF cid.peer # p THEN Abort(c, "InstructionParametersMismatch") ELSE CanonEpilog(c, k, i, cid)

ExecCanon(i, c) ==
  LET met    == MetCanon(c.k)
      k      == AfterMet(c.k, met)
      popped == [c EXCEPT !.k = k]
      pv     == Resolve(c, i.peer)
  IN CASE ~met.ok -> Abort(c, "TraceError")
       [] met.ok /\ ~Resolved(c, i.peer) ->
            IF met.state = NoState THEN Join(popped) ELSE Raise(popped, VariableNotFound)
       [] met.ok /\ Resolved(c, i.peer) /\ ~ResolvesToPeer(pv) ->
            Raise(popped, NonStringValueInTripletResolution)
       [] OTHER -> IF met.state.kind = "canon" THEN ReplayCanon(c, k, i, pv.val, met.state.cid)
                                               ELSE CanonAt(c, k, i, pv.val, met.state)

-----------------------------------------------------------------------------
(* The steps of a fold's automaton, on the context.  Fold 0 is a fold over *)
(* a scalar, which has none.                                               *)

MeetIterationStart(c, id, pos) ==
  IF id = 0 THEN Done(c)
  ELSE LET f == c.folds[id]
           e == NewIteration(f, c.k, pos)
       IN IF CanApplyLores(c.k, e, "before")
            THEN [Done(c) EXCEPT !.folds[id] = IterationStarted(f, c.k, pos),
                                 !.k = ApplyLores(@, e, "before")]
            ELSE Abort(c, "TraceError")

\* The index of the queue underflows where nothing is left in it.
MeetIterationEnd(c, id) ==
  IF id = 0 THEN Done(c)
  ELSE IF c.folds[id].back = 0 THEN Abort(c, "panic")
  ELSE [Done(c) EXCEPT !.folds[id] = IterationEnded(@, c.k)]

MeetBackIterator(c, id) ==
  IF id = 0 THEN Done(c)
  ELSE IF BackTo(c.folds[id]) = 0 THEN Abort(c, "panic")
  ELSE LET f == BackIterated(c.folds[id], c.k)
           e == f.queue[f.back]
       IN IF CanApplyLores(c.k, e, "after")
            THEN [Done(c) EXCEPT !.folds[id] = f, !.k = ApplyLores(@, e, "after")]
            ELSE Abort(c, "TraceError")

-----------------------------------------------------------------------------
(* Instructions with subinstructions.                                      *)

RECURSIVE Exec(_, _)

ExecSeq(i, c) ==
  LET l == Exec(i.left, Complete(c)) IN
  IF IsOk(l) /\ l.complete THEN Exec(i.right, l) ELSE l

ExecXor(i, c) ==
  LET l == Exec(i.left, Complete(c)) IN
  IF ~IsCatchable(l) THEN l
  ELSE LET r == Exec(i.right, [Complete(Done(l)) EXCEPT !.lastErrorCanBeSet = TRUE,
                                                       !.orig = <<l.res.error>>,
                                                       !.errorCanBeSet = TRUE])
           cleared == IF r.errorCanBeSet THEN [r EXCEPT !.error = NoError, !.orig = <<>>]
                                         ELSE r
       IN IF IsOk(r) THEN [cleared EXCEPT !.errorCanBeSet = TRUE] ELSE cleared

\* determine_subgraph_complete: a next at the end of its items leaves the flag
\* as it is, so the par must not find it complete.
DetermineSubgraphComplete(i) == i.op # "next"

\* execute_subgraph, without the end of the subgraph in the trace; the error of
\* the other subgraph is the par's own, not the subgraph's.
ExecSubgraph(i, c) ==
  LET r == Exec(i, [Done(c) EXCEPT !.complete = DetermineSubgraphComplete(i)])
  IN IF IsOk(r) THEN r ELSE Incomplete(r)

\* ParCompletenessUpdater: one subgraph that is complete is enough.
ParComplete(l, r) == l.complete \/ r.complete

ExecPar(i, c) ==
  LET met == MetPar(c.k)
      k   == PopStates(c.k)
      f   == ParFrame(k, met)
      l   == ExecSubgraph(i.left, [c EXCEPT !.k = StartPar(k, met)])
      g   == LeftFrame(l.k, f)
      r   == ExecSubgraph(i.right, [l EXCEPT !.k = LeftCompleted(@, f)])
      end == [r EXCEPT !.k = RightCompleted(@, g), !.complete = ParComplete(l, r)]
  IN CASE ~CanStartPar(k, met)             -> Abort(c, "TraceError")
       [] CanStartPar(k, met) /\ l.res.kind = "uncatchable" -> l
       [] CanStartPar(k, met) /\ l.res.kind # "uncatchable"
            /\ r.res.kind = "uncatchable"  -> r
       [] OTHER -> IF IsOk(l) \/ IsOk(r)
                     THEN Done([end EXCEPT !.lastErrorCanBeSet = TRUE])
                     ELSE end

\* are_matchable_eq.
Comparable(i, c)     == Resolved(c, i.l) /\ Resolved(c, i.r)
AreMatchableEq(i, c) == Resolve(c, i.l) = Resolve(c, i.r)

ExecMatch(i, c) ==
  IF ~Comparable(i, c) THEN Join(c)
  ELSE IF AreMatchableEq(i, c) THEN Exec(i.body, c) ELSE Raise(c, MatchValuesNotEqual)

ExecMismatch(i, c) ==
  IF ~Comparable(i, c) THEN Join(c)
  ELSE IF AreMatchableEq(i, c) THEN Raise(c, MismatchValuesEqual) ELSE Exec(i.body, c)

\* Never::execute: the subgraph stays incomplete.
ExecNever(c) == Join(c)

\* fold of fold_scalar.rs: the body is executed with the first item.
FoldOver(i, id, items, c) ==
  LET state == [items |-> items, at |-> 1, id |-> id, body |-> i.body, last |-> i.last,
                backStarted |-> FALSE]
      b     == Exec(i.body, [EnterFold(c) EXCEPT !.iters = (i.iterator :> state) @@ @])
  IN IF i.iterator \in DOMAIN c.iters THEN Abort(c, "MultipleIterableValues")
     ELSE [LeaveScope(b, c) EXCEPT !.iters = [x \in DOMAIN @ \ {i.iterator} |-> @[x]]]

\* create_scalar_iterable, create_canon_stream_iterable_value: an array of
\* values, which have no place in the trace here.
ItemsOf(v) == [n \in DOMAIN v.items |-> [v |-> v.items[n], pos |-> 0]]

ExecFoldScalar(i, c) ==
  IF ~Resolved(c, i.over) THEN Join(c)
  ELSE LET v == Resolve(c, i.over) IN
       CASE v.val # "array" -> Raise(c, FoldIteratesOverNonArray)
         [] v.val = "array" /\ v.items = <<>> -> Done(c)
         [] OTHER -> FoldOver(i, 0, ItemsOf(v), c)

\* One generation in execute_iterations; a catchable error ends it only.
FoldGeneration(i, id, items, c) ==
  LET start == MeetIterationStart(c, id, items[1].pos)
      b     == FoldOver(i, id, items, start)
  IN CASE ~IsOk(start) -> start
       [] IsOk(start) /\ IsUncatchable(b) -> b
       [] OTHER -> [Done(b) EXCEPT !.folds[id] = GenerationEnded(@, b.k),
                                   !.observed[id] = @ \/ b.complete]

\* execute_iterations.
RECURSIVE FoldGenerations(_, _, _, _)
FoldGenerations(i, id, gens, c) ==
  IF gens = <<>> \/ ~IsOk(c) THEN c
  ELSE FoldGenerations(i, id, Tail(gens), FoldGeneration(i, id, Head(gens), c))

\* The loop of execute_with_stream: as long as the stream has grown.
RECURSIVE FoldRounds(_, _, _, _, _)
FoldRounds(i, id, gens, cursor, c) ==
  LET Again(d, st) ==
        IF gens = <<>> \/ ~IsOk(d) THEN d
        ELSE FoldRounds(i, id, Slices(st, cursor), CursorAtIterationEnd(st),
                        SetStream(d, i.over, AfterIterationEnd(st)))
      Round(d) == Again(d, StreamOf(d, i.over))
  IN Round(FoldGenerations(i, id, gens, c))

\* FoldGenerationObserver: one complete generation is enough.
FoldComplete(c, id) == c.observed[id]

\* The end of execute_with_stream.
FoldDone(d, id) ==
  IF ~IsOk(d) THEN d
  ELSE [d EXCEPT !.complete = FoldComplete(d, id),
                 !.k = FoldEnded(d.folds[id], @),
                 !.folds = [j \in DOMAIN @ \ {id} |-> @[j]],
                 !.observed = [j \in DOMAIN @ \ {id} |-> @[j]]]

ExecuteWithStream(i, c) ==
  LET met   == MetFold(c.k)
      k     == PopStates(c.k)
      id    == c.foldId + 1
      st    == StreamOf(c, i.over)
      start == [SetStream(c, i.over, AfterFoldStart(st)) EXCEPT
                  !.foldId = id, !.k = StartFold(k),
                  !.folds = (id :> NewFoldFSM(k, met)) @@ @,
                  !.observed = (id :> FALSE) @@ @]
  IN IF ~CanStartFold(k, met) THEN Abort(c, "TraceError")
     ELSE FoldDone(FoldRounds(i, id, Slices(st, NoCursor), CursorOf(st), start), id)

\* FoldStream::execute and FoldStreamMap::execute, which differ in where the
\* stream is kept: a stream that has not been met yet is waited for.
ExecFoldStream(i, c) ==
  IF HasStream(c, i.over) THEN ExecuteWithStream(i, c) ELSE Join(c)

\* Next::execute on the last item: the way back starts here.
NextAtEnd(c, x, it) ==
  LET d == MeetBackIterator(c, it.id) IN
  CASE ~IsOk(d) -> d
    [] IsOk(d) /\ it.last.op # "none" -> Exec(it.last, Complete(d))
    [] OTHER -> IF it.id # 0 /\ ~it.backStarted
                  THEN Incomplete([d EXCEPT !.iters[x].backStarted = TRUE])
                  ELSE d

\* Next::execute on another item: the body again, with the next item; an error
\* skips the step back.
NextItem(c, x, it) ==
  LET start == MeetIterationStart([c EXCEPT !.iters[x].at = @ + 1], it.id, it.items[it.at + 1].pos)
      b     == LeaveScope(Exec(it.body, EnterNext(start)), c)
  IN CASE ~IsOk(start) -> start
       [] IsOk(start) /\ ~IsOk(b) -> b
       [] OTHER -> MeetBackIterator([b EXCEPT !.iters[x].at = IF @ > 1 THEN @ - 1 ELSE @], it.id)

ExecNext(i, c) ==
  LET x == i.iterator
      it == c.iters[x]
      d  == MeetIterationEnd(c, it.id)
  IN CASE x \notin DOMAIN c.iters -> Abort(c, "FoldStateNotFound")
       [] x \in DOMAIN c.iters /\ ~IsOk(d) -> d
       [] OTHER -> IF it.at = Len(it.items) THEN NextAtEnd(d, x, it) ELSE NextItem(d, x, it)

\* New::execute on a stream or a stream map; an error of the instruction wins
\* over one of the epilog.
ExecNew(i, c) ==
  LET b  == Exec(i.body, PushStream(c, i.stream))
      st == StreamOf(b, i.stream)
      d  == PopStream(b, i.stream)
  IN CASE CanCompactify(b, st)              -> Compactify(d, st)
       [] ~CanCompactify(b, st) /\ IsOk(b)  -> Abort(d, "GenerationCompactificationError")
       [] ~CanCompactify(b, st) /\ ~IsOk(b) -> d

Exec(i, c) ==
  CASE i.op = "call" -> ExecCall(i, c)
    [] i.op = "seq"  -> WithErrors(ExecSeq(i, c), i)
    [] i.op = "par"  -> WithErrors(ExecPar(i, c), i)
    [] i.op = "xor"  -> WithErrors(ExecXor(i, c), i)
    [] i.op = "match"    -> WithErrors(ExecMatch(i, c), i)
    [] i.op = "mismatch" -> WithErrors(ExecMismatch(i, c), i)
    [] i.op = "fail" -> WithErrors(ExecFail(i, c), i)
    [] i.op = "ap"   -> WithErrors(ExecAp(i, c), i)
    [] i.op = "ap_stream"   -> WithErrors(ExecApStream(i, c), i)
    [] i.op = "ap_map"      -> WithErrors(ExecApMap(i, c), i)
    [] i.op = "canon"       -> WithErrors(ExecCanon(i, c), i)
    [] i.op = "fold_stream" -> WithErrors(ExecFoldStream(i, c), i)
    [] i.op = "fold_scalar" -> WithErrors(ExecFoldScalar(i, c), i)
    [] i.op = "next" -> WithErrors(ExecNext(i, c), i)
    [] i.op = "new"  -> WithErrors(ExecNew(i, c), i)
    [] i.op = "null" -> Done(c)
    [] i.op = "never" -> ExecNever(c)
=============================================================================
