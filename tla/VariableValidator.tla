-------------------------- MODULE VariableValidator --------------------------
(***************************************************************************)
(* The validator of air-parser/src/parser/validator.rs.  The parser calls   *)
(* it from its reductions, so it meets an instruction after everything      *)
(* nested in it: a next before its fold, a use before the new around it.    *)
(* It therefore only collects names and spans, and decides in finalize.     *)
(* A span is <<left, right>>; hash maps are functions, multimaps are        *)
(* sequences of <<name, span>> in the order of insertion.                   *)
(***************************************************************************)
EXTENDS Naturals, Sequences, SequencesExt, TLC

------------------------------------------------------------------------------
(* Spans. *)

ContainsPosition(s, pos) == s[1] < pos /\ pos < s[2]

ContainsSpan(s, t) == ContainsPosition(s, t[1]) /\ ContainsPosition(s, t[2])

\* The order of spans: by their left ends.
SpanLess(s, t) == s[1] < t[1]

------------------------------------------------------------------------------
(* AfterNextCheckMachine: instructions after next in folds over streams.  A  *)
(* stack entry is a kind; only PivotalNext carries the name of an iterator.  *)

Kind(k) == [kind |-> k, iterator |-> ""]
PivotalNext(i) == [kind |-> "PivotalNext", iterator |-> i]
IsNext(k) == k.kind = "PivotalNext"

NewMachine == [stack |-> <<>>, potentially_malformed_spans |-> <<>>,
               malformed_spans |-> {}, is_enabled |-> TRUE]

DisableMachine(M) == [M EXCEPT !.stack = <<>>, !.is_enabled = FALSE]

\* Vec::pop of n entries: nothing happens on what is already empty.
Popped(stack, n) == SubSeq(stack, 1, IF Len(stack) < n THEN 0 ELSE Len(stack) - n)

Replace(M, n, k) == [M EXCEPT !.stack = Append(Popped(@, n), k)]

process_replacing(M) ==
    IF M.stack = <<>> THEN DisableMachine(M)
    ELSE Replace(M, 1, IF IsNext(Last(M.stack)) THEN Last(M.stack) ELSE Kind("Replacing"))

process_xoring(M) ==
    LET n == Len(M.stack)
        left == M.stack[n - 1]
        right == M.stack[n]
    IN  IF n < 2 THEN DisableMachine(M)
        ELSE IF IsNext(left) /\ IsNext(right) THEN DisableMachine(M)
        ELSE Replace(M, 2, CASE IsNext(left) -> left
                             [] IsNext(right) -> right
                             [] OTHER -> Kind("Xoring"))

\* A next on the left may be followed by the right branch: remember where, the
\* first time for this iterator.
process_merging(M, span) ==
    LET n == Len(M.stack)
        left == M.stack[n - 1]
        right == M.stack[n]
        spans == M.potentially_malformed_spans
    IN  IF n < 2 THEN DisableMachine(M)
        ELSE IF IsNext(left) /\ IsNext(right) /\ left.iterator = right.iterator
             THEN Replace(M, 2, left)
        ELSE IF IsNext(left)
             THEN [Replace(M, 2, Kind("Merging")) EXCEPT
                      !.potentially_malformed_spans = spans @@ (left.iterator :> span)]
        ELSE Replace(M, 2, IF IsNext(right) THEN right ELSE Kind("Merging"))

after_next_check(M, iterator) ==
    IF iterator \in DOMAIN M.potentially_malformed_spans
    THEN [M EXCEPT !.malformed_spans = @ \cup {M.potentially_malformed_spans[iterator]}]
    ELSE M

Forget(spans, iterator) == [i \in DOMAIN spans \ {iterator} |-> spans[i]]

replacing_with_check_common(M, iterator, kind) ==
    IF M.stack = <<>> THEN [M EXCEPT !.is_enabled = FALSE]
    ELSE LET child == Last(M.stack)
             checked == after_next_check(M, iterator)
         IN  IF child = PivotalNext(iterator)
             THEN [Replace(checked, 1, Kind("Simple")) EXCEPT
                      !.potentially_malformed_spans = Forget(@, iterator)]
             ELSE Replace(checked, 1, IF IsNext(child) THEN child ELSE kind)

\* met_instruction_kind, with the iterator of the kinds that carry one.
met_instruction_kind(M, kind, iterator, span) ==
    IF ~M.is_enabled THEN M
    ELSE CASE kind = "Replacing" -> process_replacing(M)
           [] kind = "Xoring" -> process_xoring(M)
           [] kind = "Merging" -> process_merging(M, span)
           [] kind = "ReplacingWithCheck" ->
                replacing_with_check_common(M, iterator, Kind("ReplacingWithCheck"))
           [] kind = "PopStack1ReplacingWithCheck" ->
                replacing_with_check_common([M EXCEPT !.stack = Popped(@, 1)], iterator,
                                            Kind("PopStack1ReplacingWithCheck"))
           [] kind = "PivotalNext" -> Replace(M, 0, PivotalNext(iterator))
           [] kind = "Simple" -> Replace(M, 0, Kind("Simple"))
           [] kind = "PopStack1" -> Replace(M, 1, Kind("PopStack1"))
           [] kind = "PopStack2" -> Replace(M, 2, Kind("PopStack2"))

------------------------------------------------------------------------------
(* The tables of the validator. *)

NewValidator ==
    [met_variable_definitions |-> <<>>, met_iterator_definitions |-> <<>>,
     unresolved_variables |-> <<>>, unresolved_iterables |-> <<>>,
     multiple_next_candidates |-> <<>>, not_iterators_candidates |-> <<>>,
     unsupported_literal_errcodes |-> {}, after_next_machine |-> NewMachine]

\* MultiMap::get_vec.
SpansOf(multimap, name) == {e[2] : e \in {f \in Range(multimap) : f[1] = name}}

contains_variable(V, name, span) ==
    \/ /\ name \in DOMAIN V.met_variable_definitions
       /\ SpanLess(V.met_variable_definitions[name], span)
    \/ \E s \in SpansOf(V.met_iterator_definitions, name) : SpanLess(s, span)

met_variable_name(V, name, span) ==
    IF contains_variable(V, name, span) THEN V
    ELSE [V EXCEPT !.unresolved_variables = Append(@, <<name, span>>)]

\* Mutant: the definition met first is kept.
met_variable_name_definition_first(V, name, span) ==
    [V EXCEPT !.met_variable_definitions = @ @@ (name :> span)]

\* The most left definition of a name is kept.
met_variable_name_definition(V, name, span) ==
    LET defs == V.met_variable_definitions
    IN  IF name \in DOMAIN defs /\ ~SpanLess(span, defs[name]) THEN V
        ELSE [V EXCEPT !.met_variable_definitions = (name :> span) @@ defs]

met_iterator_definition(V, name, span) ==
    [V EXCEPT !.met_iterator_definitions = Append(@, <<name, span>>)]

\* met_lambda: only the accessors by a scalar name variables, not the functors.
LambdaNames(lambda) ==
    IF lambda.tag = "Functor" THEN <<>>
    ELSE LET byScalar == SelectSeq(lambda.accessors, LAMBDA a : a.tag = "FieldAccessByScalar")
         IN  [i \in DOMAIN byScalar |-> byScalar[i].scalar_name]

VariableTags == {"Scalar", "Stream", "StreamMap", "CanonStream", "CanonStreamMap"}
LambdaTags == {"ScalarWithLambda", "CanonStreamWithLambda", "CanonStreamMapWithLambda"}

\* met_args, met_peer_id_resolvable_value, met_string_resolvable_value,
\* met_instr_arg_value and the met_scalar ... met_canon_stream_map_wl they call.
met_value(V, value, span) ==
    LET names == CASE value.tag \in VariableTags -> <<value.name>>
                   [] value.tag \in LambdaTags -> <<value.name>> \o LambdaNames(value.lambda)
                   [] OTHER -> <<>>
    IN  FoldLeft(LAMBDA W, name : met_variable_name(W, name, span), V, names)

met_kind(V, kind, iterator, span) ==
    [V EXCEPT !.after_next_machine = met_instruction_kind(@, kind, iterator, span)]

met_simple_instr(V, span) == met_kind(V, "Simple", "", span)
met_merging_instr(V, span) == met_kind(V, "Merging", "", span)
met_replacing_instr(V, span) == met_kind(V, "Replacing", "", span)
met_xoring_instr(V, span) == met_kind(V, "Xoring", "", span)

------------------------------------------------------------------------------
(* What the reductions report. *)

met_call(V, call, span) ==
    LET values == <<call.triplet.peer_id, call.triplet.service_id, call.triplet.function_name>>
                  \o call.args
        met == FoldLeft(LAMBDA W, value : met_value(W, value, span), V, values)
        simple == met_simple_instr(met, span)
    IN  IF call.output.tag = "None" THEN simple
        ELSE met_variable_name_definition(simple, call.output.name, span)

\* met_canon, met_canon_map and met_canon_map_scalar: the canonicalized stream
\* need not be defined.
met_canon(V, canon, span) ==
    met_simple_instr(met_variable_name_definition(V, canon.result.name, span), span)

\* met_match and met_mismatch.
met_match(V, match, span) ==
    met_replacing_instr(met_value(met_value(V, match.left_value, span), match.right_value, span),
                        span)

\* Mutant: a last instruction is not taken off.
met_fold_scalar_no_last(V, fold, span) ==
    met_kind(met_iterator_definition(met_value(V, fold.iterable, span), fold.iterator, span),
             "PopStack1", "", span)

met_fold_scalar(V, fold, span) ==
    LET met == met_iterator_definition(met_value(V, fold.iterable, span), fold.iterator, span)
    IN  met_kind(met, IF fold.last_instruction.op = "none" THEN "PopStack1" ELSE "PopStack2",
                 "", span)

\* meet_fold_stream and meet_fold_stream_map.
meet_fold_stream(V, fold, span) ==
    LET met == met_iterator_definition(met_variable_name(V, fold.iterable.name, span),
                                       fold.iterator, span)
    IN  met_kind(met, IF fold.last_instruction.op = "none" THEN "ReplacingWithCheck"
                      ELSE "PopStack1ReplacingWithCheck", fold.iterator, span)

met_new(V, new, span) ==
    LET candidate == [V EXCEPT !.not_iterators_candidates = Append(@, <<new.argument.name, span>>)]
    IN  met_replacing_instr(met_variable_name_definition(candidate, new.argument.name, span), span)

met_next(V, next, span) ==
    met_kind([V EXCEPT !.unresolved_iterables = Append(@, <<next.iterator, span>>),
                       !.multiple_next_candidates = Append(@, <<next.iterator, span>>)],
             "PivotalNext", next.iterator, span)

met_ap(V, ap, span) ==
    met_simple_instr(met_variable_name_definition(met_value(V, ap.argument, span),
                                                  ap.result.name, span), span)

\* Only the key is met: the value of an insertion into a map is not.
met_ap_map(V, ap, span) ==
    met_simple_instr(met_variable_name_definition(met_value(V, ap.key, span), ap.map.name, span),
                     span)

met_fail_literal(V, fail, span) ==
    met_simple_instr([V EXCEPT !.unsupported_literal_errcodes =
                                  @ \cup (IF fail.body.tag = "Literal" /\ fail.body.ret_code = 0
                                          THEN {span} ELSE {})], span)

------------------------------------------------------------------------------
(* finalize: the checks of ValidatorErrorBuilder. *)

Problem(kind, name, span) == [kind |-> kind, name |-> name, span |-> span]

\* MultiMap::iter yields a key once, with the first of its values.
FirstPerKey(multimap) ==
    {multimap[i] : i \in {j \in DOMAIN multimap : \A k \in 1..(j - 1) : multimap[k][1] # multimap[j][1]}}

\* The innermost fold over this iterator around the span, <<>> if there is none.
find_closest_fold_span(V, name, span) ==
    LET around == {s \in SpansOf(V.met_iterator_definitions, name) : ContainsSpan(s, span)}
    IN  IF around = {} THEN <<>>
        ELSE CHOOSE s \in around : \A t \in around : t = s \/ SpanLess(t, s)

check_undefined_variables(V) ==
    {Problem("undefined_variable", e[1], e[2]) :
        e \in {f \in FirstPerKey(V.unresolved_variables) : ~contains_variable(V, f[1], f[2])}}

check_undefined_iterables(V) ==
    {Problem("undefined_iterable", e[1], e[2]) :
        e \in {f \in FirstPerKey(V.unresolved_iterables) :
                    find_closest_fold_span(V, f[1], f[2]) = <<>>}}

\* Mutant: the candidates are read like the unresolved names are, the first per name.
check_multiple_next_in_fold_once(V) ==
    LET nexts == FirstPerKey(V.multiple_next_candidates)
        foldOf(e) == find_closest_fold_span(V, e[1], e[2])
    IN  {Problem("multiple_next_in_fold", e[1], e[2]) :
            e \in {f \in nexts : \E g \in nexts : /\ g # f /\ g[1] = f[1]
                                               /\ foldOf(f) # <<>> /\ foldOf(g) = foldOf(f)}}

\* Every next but the first of its fold.
check_multiple_next_in_fold(V) ==
    LET nexts == V.multiple_next_candidates
        foldOf(i) == find_closest_fold_span(V, nexts[i][1], nexts[i][2])
    IN  {Problem("multiple_next_in_fold", nexts[i][1], nexts[i][2]) :
            i \in {j \in DOMAIN nexts :
                      /\ foldOf(j) # <<>>
                      /\ \E k \in 1..(j - 1) : nexts[k][1] = nexts[j][1] /\ foldOf(k) = foldOf(j)}}

check_new_on_iterators(V) ==
    {Problem("invalid_iterator_restriction", e[1], e[2]) :
        e \in {f \in Range(V.not_iterators_candidates) :
                    find_closest_fold_span(V, f[1], f[2]) # <<>>}}

\* The folds over one iterator, in the order of their left ends: the ones inside
\* the last fold that was not reported.
check_iterator_for_multiple_definitions(V) ==
    LET names == {e[1] : e \in Range(V.met_iterator_definitions)}
        sorted(name) == SetToSortSeq(SpansOf(V.met_iterator_definitions, name), SpanLess)
        Visit(acc, s) == IF acc.prev # <<>> /\ ContainsSpan(acc.prev, s)
                         THEN [acc EXCEPT !.inner = @ \cup {s}]
                         ELSE [acc EXCEPT !.prev = s]
        inner(name) == FoldLeft(Visit, [prev |-> <<>>, inner |-> {}], sorted(name)).inner
    IN  UNION {{Problem("multiple_iterables", n, s) : s \in inner(n)} : n \in names}

check_for_unsupported_literal_errcodes(V) ==
    {Problem("unsupported_literal_errcodes", "", s) : s \in V.unsupported_literal_errcodes}

check_after_next_instr(V) ==
    {Problem("fold_has_instruction_after_next", "", s) : s \in V.after_next_machine.malformed_spans}

\* The map keys check is left out: nothing ever fills unsupported_map_keys.
finalize(V) ==
    check_undefined_variables(V) \cup check_undefined_iterables(V)
    \cup check_multiple_next_in_fold(V) \cup check_new_on_iterators(V)
    \cup check_iterator_for_multiple_definitions(V)
    \cup check_for_unsupported_literal_errcodes(V) \cup check_after_next_instr(V)
=============================================================================
