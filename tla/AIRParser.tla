------------------------------ MODULE AIRParser ------------------------------
(***************************************************************************)
(* parse of air-parser/src/parser/air_parser.rs: the generated machine      *)
(* driven over the tokens of a script, with LALRPOP's error recovery, and   *)
(* the verdict that joins its errors with those of the validator.           *)
(***************************************************************************)
EXTENDS AirGrammar, FiniteSets

\* The token sequences to parse.
CONSTANT Scripts

VARIABLES
    script,    \* the tokens the lexer yields; a lexer error is a token too
    pos,       \* the place of the lookahead in the script
    states,    \* the states of the machine
    symbols,   \* the symbols under them: sym, val, l, r
    validator,
    errors,    \* the errors of recoveries: place, expected and dropped tokens
    recovery,  \* what the recovery in progress has, NoRecovery outside of one
    phase,     \* "parsing", "reducing" or "searching" (both in a recovery), "parsed", "done"
    outcome    \* the result of the machine, then of parse

vars == <<script, pos, states, symbols, validator, errors, recovery, phase, outcome>>

LexerError == "LexerError"
NoRecovery == [at |-> 0, expected |-> {}, dropped |-> <<>>]
Pending == [ok |-> FALSE, error |-> "pending"]

\* A token ends where the next one starts.
StartOf(i) == i
EndOf(i) == i + 1

Lookahead == IF pos <= Len(script) THEN script[pos].k ELSE EOF
TopState == Last(states)

Init ==
    /\ script \in Scripts
    /\ pos = 1
    /\ states = <<StartState(AIR)>>
    /\ symbols = <<>>
    /\ validator = NewValidator
    /\ errors = <<>>
    /\ recovery = NoRecovery
    /\ phase = "parsing"
    /\ outcome = Pending

Push(stack, sym, val, l, r) == Append(stack, [sym |-> sym, val |-> val, l |-> l, r |-> r])

Shift ==
    /\ phase = "parsing"
    /\ CanShift(AIR, TopState, Lookahead)
    /\ states' = Append(states, GotoState(AIR, TopState, Lookahead))
    /\ symbols' = Push(symbols, Lookahead, script[pos], StartOf(pos), EndOf(pos))
    /\ pos' = pos + 1
    /\ UNCHANGED <<script, validator, errors, recovery, phase, outcome>>

\* What the __pop_Variant calls of a reduction take off; a symbol of another type than
\* the production has would be a panic (__symbol_type_mismatch).
PoppedBy(p) == SubSeq(symbols, Len(symbols) - Len(p.rhs) + 1, Len(symbols))

\* __reduce: pop the right-hand side, run the action, push the left-hand side.
ReduceBy(p) ==
    LET popped == PoppedBy(p)
        rest == SubSeq(symbols, 1, Len(symbols) - Len(popped))
        values == [i \in DOMAIN popped |-> popped[i].val]
        span == <<LeftOf(popped), RightOf(popped)>>
        built == InstrAction(validator, p.rhs, values, span)
        val == IF p.lhs = "Instr" THEN built.node ELSE PartAction(p.lhs, values)
    IN  /\ states' = AfterReduce(AIR, states, p)
        /\ symbols' = Push(rest, p.lhs, val, span[1], span[2])
        /\ validator' = IF p.lhs = "Instr" THEN built.validator ELSE validator
        /\ errors' = IF p.rhs = <<ErrorTerminal>> THEN Append(errors, values[1]) ELSE errors

Reduce ==
    /\ phase = "parsing"
    /\ Lookahead # LexerError
    /\ \E p \in Reductions(AIR, TopState, Lookahead) : p.lhs # Goal /\ ReduceBy(p)
    /\ UNCHANGED <<script, pos, recovery, phase, outcome>>

Accept ==
    /\ phase = "parsing"
    /\ \E p \in Reductions(AIR, TopState, Lookahead) : p.lhs = Goal
    /\ phase' = "parsed"
    /\ outcome' = [ok |-> TRUE, ast |-> Last(symbols).val]
    /\ UNCHANGED <<script, pos, states, symbols, validator, errors, recovery>>

\* No move on the lookahead: recovery starts with the error it will report.
BeginRecovery ==
    /\ phase = "parsing"
    /\ Lookahead # LexerError
    /\ ~CanShift(AIR, TopState, Lookahead)
    /\ Reductions(AIR, TopState, Lookahead) = {}
    /\ recovery' = [at |-> pos, expected |-> ExpectedTokens(AIR, states), dropped |-> <<>>]
    /\ phase' = "reducing"
    /\ UNCHANGED <<script, pos, states, symbols, validator, errors, outcome>>

\* First the reductions that an error token in the lookahead allows.
ReduceOnError ==
    /\ phase = "reducing"
    /\ \E p \in Reductions(AIR, TopState, ErrorTerminal) : ReduceBy(p)
    /\ UNCHANGED <<script, pos, recovery, phase, outcome>>

StartSearching ==
    /\ phase = "reducing"
    /\ Reductions(AIR, TopState, ErrorTerminal) = {}
    /\ phase' = "searching"
    /\ UNCHANGED <<script, pos, states, symbols, validator, errors, recovery, outcome>>

\* The places of the stack where an error token can be shifted and the lookahead
\* is accepted after it.
RecoveryPlaces ==
    {top \in 1..Len(states) :
        LET state == GotoState(AIR, states[top], ErrorTerminal)
        IN  state # {} /\ Accepts(AIR, Append(SubSeq(states, 1, top), state), Lookahead)}

\* Mutant: the recovery drops symbols from the wrong end.
RecoverDrainsFront ==
    /\ phase = "searching"
    /\ Lookahead # LexerError
    /\ RecoveryPlaces # {}
    /\ LET top == CHOOSE t \in RecoveryPlaces : \A u \in RecoveryPlaces : u <= t
       IN  /\ states' = Append(SubSeq(states, 1, top), GotoState(AIR, states[top], ErrorTerminal))
           /\ symbols' = Push(SubSeq(symbols, Len(symbols) - top + 2, Len(symbols)),
                              ErrorTerminal, recovery, pos, pos)
    /\ phase' = "parsing"
    /\ recovery' = NoRecovery
    /\ UNCHANGED <<script, pos, validator, errors, outcome>>

\* Mutant: the error token is not pushed.
RecoverWithoutError ==
    /\ phase = "searching"
    /\ RecoveryPlaces # {}
    /\ phase' = "parsing"
    /\ recovery' = NoRecovery
    /\ UNCHANGED <<script, pos, states, symbols, validator, errors, outcome>>

\* The error token is pushed at the topmost such place; it spans what it replaces.
Recover ==
    /\ phase = "searching"
    /\ Lookahead # LexerError
    /\ RecoveryPlaces # {}
    /\ LET top == CHOOSE t \in RecoveryPlaces : \A u \in RecoveryPlaces : u <= t
           dropped == recovery.dropped
           start == CASE top <= Len(symbols) -> symbols[top].l
                      [] dropped # <<>> -> StartOf(Head(dropped))
                      [] top > 1 -> symbols[top - 1].r
                      [] OTHER -> 1
           end == CASE dropped # <<>> -> EndOf(Last(dropped))
                    [] top <= Len(symbols) -> Last(symbols).r
                    [] Lookahead # EOF -> StartOf(pos)
                    [] OTHER -> start
           kept == SubSeq(states, 1, top)
       IN  /\ states' = Append(kept, GotoState(AIR, Last(kept), ErrorTerminal))
           /\ symbols' = Push(SubSeq(symbols, 1, top - 1), ErrorTerminal, recovery, start, end)
    /\ phase' = "parsing"
    /\ recovery' = NoRecovery
    /\ UNCHANGED <<script, pos, validator, errors, outcome>>

DropToken ==
    /\ phase = "searching"
    /\ Lookahead \notin {EOF, LexerError}
    /\ RecoveryPlaces = {}
    /\ recovery' = [recovery EXCEPT !.dropped = Append(@, pos)]
    /\ pos' = pos + 1
    /\ UNCHANGED <<script, states, symbols, validator, errors, phase, outcome>>

\* An error of the lexer ends the parse at once, recovery or not; so does a recovery
\* that is at the end of the input and has no place for the error token.
Fail ==
    /\ \/ phase \in {"parsing", "searching"} /\ Lookahead = LexerError
       \/ phase = "searching" /\ Lookahead = EOF /\ RecoveryPlaces = {}
    /\ phase' = "parsed"
    /\ outcome' = [ok |-> FALSE, error |-> IF Lookahead = EOF THEN "unrecognized" ELSE "user"]
    /\ UNCHANGED <<script, pos, states, symbols, validator, errors, recovery>>

\* A tree is the answer only when neither the recoveries nor the validator have
\* an error; an error of the machine is reported alone.
Finish ==
    /\ phase = "parsed"
    /\ phase' = "done"
    /\ outcome' = IF outcome.ok /\ (errors # <<>> \/ finalize(validator) # {})
                  THEN [ok |-> FALSE, error |-> "report"]
                  ELSE outcome
    /\ UNCHANGED <<script, pos, states, symbols, validator, errors, recovery>>

\* Nothing happens after parse has returned; in every other state it has a step to take.
Returned == phase = "done" /\ UNCHANGED vars

Next ==
    \/ Shift \/ Reduce \/ Accept \/ BeginRecovery \/ ReduceOnError
    \/ StartSearching \/ Recover \/ DropToken \/ Fail \/ Finish \/ Returned

\* parse is one call on one thread: it runs on until it returns.
KeepsRunning == []<><<Next>>_vars \/ <>(phase = "done")

Spec == Init /\ [][Next]_vars /\ KeepsRunning

------------------------------------------------------------------------------
(* The language, by derivation and not by the machine. *)

RECURSIVE Ends(_, _)
\* Where the tokens that the symbols of rhs derive from place i on may end.  Arg+ is
\* one or more Arg.
Ends(rhs, i) ==
    IF rhs = <<>> THEN {i}
    ELSE LET X == Head(rhs)
             t == IF i <= Len(script) THEN script[i].k ELSE EOF
             alternatives == IF X = "Arg+" THEN {<<"Arg">>, <<"Arg", "Arg+">>}
                             ELSE {p.rhs : p \in {q \in AirProductions : q.lhs = X}}
             after == IF X \in AIR.terminals THEN (IF t = X THEN {i + 1} ELSE {})
                      ELSE UNION {Ends(alt, i) :
                                     alt \in {a \in alternatives : <<Head(a), t>> \in AIR.left}}
         IN  UNION {Ends(Tail(rhs), m) : m \in after}

InLanguage == Len(script) + 1 \in Ends(<<"AIR">>, 1)

------------------------------------------------------------------------------
(* The tokens a tree stands for. *)

Tok(k) == [k |-> k]

UnparseValue(v) ==
    CASE v.tag = "EmptyArray" -> <<Tok("["), Tok("]")>>
      [] v.tag \in VariableTags -> <<[k |-> v.tag, name |-> v.name]>>
      [] v.tag \in LambdaTags -> <<[k |-> v.tag, name |-> v.name, lambda |-> v.lambda]>>
      [] v.tag \in {"LastError", "Error"} ->
            IF "lambda" \notin DOMAIN v \/ v.lambda = NoLambda THEN <<Tok(v.tag)>>
            ELSE <<[k |-> v.tag \o "WithLambda", lambda |-> v.lambda]>>
      [] v.tag \in {"Literal", "Boolean"} -> <<[k |-> v.tag, value |-> v.value]>>
      [] v.tag = "Int" -> <<[k |-> "I64", value |-> v.value]>>
      [] v.tag = "Number" -> <<[k |-> IF v.kind = "Int" THEN "I64" ELSE "F64", value |-> v.value]>>
      [] v.tag = "None" -> <<>>
      [] OTHER -> <<Tok(v.tag)>>

UnparseValues(values) == FoldLeft(LAMBDA acc, v : acc \o UnparseValue(v), <<>>, values)

RECURSIVE Unparse(_)
Unparse(t) ==
    LET S(keyword, parts) == <<Tok("("), Tok(keyword)>> \o parts \o <<Tok(")")>>
        iterator == <<[k |-> "Scalar", name |-> t.iterator]>>
    IN  CASE t.op = "call" ->
                S("call", UnparseValue(t.triplet.peer_id)
                          \o <<Tok("(")>>
                          \o UnparseValues(<<t.triplet.service_id, t.triplet.function_name>>)
                          \o <<Tok(")"), Tok("[")>> \o UnparseValues(t.args) \o <<Tok("]")>>
                          \o UnparseValue(t.output))
          [] t.op \in {"canon", "canon_map", "canon_map_scalar"} ->
                S("canon", UnparseValues(<<t.peer_id, t.stream, t.result>>))
          [] t.op = "ap" -> S("ap", UnparseValues(<<t.argument, t.result>>))
          [] t.op = "ap_map" ->
                S("ap", <<Tok("(")>> \o UnparseValues(<<t.key, t.value>>) \o <<Tok(")")>>
                        \o UnparseValue(t.map))
          [] t.op \in {"seq", "par", "xor"} -> S(t.op, Unparse(t.l) \o Unparse(t.r))
          [] t.op \in {"never", "null"} -> S(t.op, <<>>)
          [] t.op = "new" -> S("new", UnparseValue(t.argument) \o Unparse(t.instruction))
          [] t.op = "fail" ->
                S("fail", IF t.body.tag = "Literal"
                          THEN <<[k |-> "I64", value |-> t.body.ret_code],
                                 [k |-> "Literal", value |-> t.body.error_message]>>
                          ELSE UnparseValue(t.body))
          [] t.op \in {"fold_scalar", "fold_stream", "fold_stream_map"} ->
                S("fold", UnparseValue(t.iterable) \o iterator \o Unparse(t.instruction)
                          \o (IF t.last_instruction = NoInstruction THEN <<>>
                              ELSE Unparse(t.last_instruction)))
          [] t.op = "next" -> S("next", iterator)
          [] t.op = "match" ->
                S("match_", UnparseValues(<<t.left_value, t.right_value>>) \o Unparse(t.instruction))
          [] t.op = "mismatch" ->
                S("mismatch", UnparseValues(<<t.left_value, t.right_value>>) \o Unparse(t.instruction))

------------------------------------------------------------------------------
(* The scoping rules, over the tree. *)

IsFold(t) == t.op \in {"fold_scalar", "fold_stream", "fold_stream_map"}

Kids(t) ==
    CASE t.op \in {"seq", "par", "xor"} -> <<t.l, t.r>>
      [] t.op \in {"new", "match", "mismatch"} -> <<t.instruction>>
      [] IsFold(t) -> IF t.last_instruction = NoInstruction THEN <<t.instruction>>
                      ELSE <<t.instruction, t.last_instruction>>
      [] OTHER -> <<>>

RECURSIVE Preorder(_, _)
\* The nodes in the order of the text, each with the folds around it, the
\* innermost one last.
Preorder(t, folds) ==
    LET inner == IF IsFold(t) THEN Append(folds, [iterator |-> t.iterator, span |-> t.span])
                 ELSE folds
    IN  FoldLeft(LAMBDA acc, kid : acc \o Preorder(kid, inner),
                 <<[node |-> t, folds |-> folds]>>, Kids(t))

NamesOf(values) ==
    LET met == FoldLeft(LAMBDA W, v : met_value(W, v, <<0, 0>>), NewValidator, values)
    IN  {e[1] : e \in Range(met.unresolved_variables)}

\* The variables an instruction reads, and the names it introduces.
Uses(t) ==
    CASE t.op = "call" -> NamesOf(<<t.triplet.peer_id, t.triplet.service_id,
                                    t.triplet.function_name>> \o t.args)
      [] t.op \in {"canon", "canon_map", "canon_map_scalar"} -> NamesOf(<<t.peer_id>>)
      [] t.op = "ap" -> NamesOf(<<t.argument>>)
      [] t.op = "ap_map" -> NamesOf(<<t.key, t.value>>)
      [] t.op \in {"match", "mismatch"} -> NamesOf(<<t.left_value, t.right_value>>)
      [] t.op = "fail" -> NamesOf(<<t.body>>)
      [] IsFold(t) -> NamesOf(<<t.iterable>>)
      [] OTHER -> {}

Defines(t) ==
    CASE t.op = "call" -> IF t.output.tag = "None" THEN {} ELSE {t.output.name}
      [] t.op \in {"canon", "canon_map", "canon_map_scalar", "ap"} -> {t.result.name}
      [] t.op = "ap_map" -> {t.map.name}
      [] t.op = "new" -> {t.argument.name}
      [] IsFold(t) -> {t.iterator}
      [] OTHER -> {}

FoldsOver(folds, name) == {i \in DOMAIN folds : folds[i].iterator = name}

UndefinedVariables(nodes) ==
    UNION {Uses(nodes[k].node) \ UNION {Defines(nodes[j].node) : j \in 1..(k - 1)} :
              k \in DOMAIN nodes}

UndefinedIterables(nodes) ==
    {n.node.iterator : n \in {m \in Range(nodes) : /\ m.node.op = "next"
                                                   /\ FoldsOver(m.folds, m.node.iterator) = {}}}

\* Nexts of the same iterator that have the same innermost fold over it.
RepeatedNexts(nodes) ==
    LET nexts == {k \in DOMAIN nodes : nodes[k].node.op = "next"}
        Innermost(k) == LET f == FoldsOver(nodes[k].folds, nodes[k].node.iterator)
                        IN  nodes[k].folds[CHOOSE i \in f : \A j \in f : j <= i]
    IN  {nodes[k].node.iterator :
            k \in {m \in nexts : /\ FoldsOver(nodes[m].folds, nodes[m].node.iterator) # {}
                                 /\ \E j \in nexts : /\ j < m
                                                     /\ nodes[j].node = nodes[m].node
                                                     /\ FoldsOver(nodes[j].folds, nodes[j].node.iterator) # {}
                                                     /\ Innermost(j) = Innermost(m)}}

NewOnIterators(nodes) ==
    {n.node.argument.name :
        n \in {m \in Range(nodes) : m.node.op = "new" /\ FoldsOver(m.folds, m.node.argument.name) # {}}}

NestedIterators(nodes) ==
    {n.node.iterator :
        n \in {m \in Range(nodes) : IsFold(m.node) /\ FoldsOver(m.folds, m.node.iterator) # {}}}

Reported(kind) == {q.name : q \in {r \in finalize(validator) : r.kind = kind}}

\* The machine ended with a tree and without a recovery.
ParsedCleanly == phase = "parsed" /\ outcome.ok /\ errors = <<>>

------------------------------------------------------------------------------
(* Properties. *)

\* One state more than symbols on the stack, in a recovery too, and no state that the
\* tables do not have; the places of the symbols are in the script and in its order.
TypeOK ==
    /\ pos \in 1..(Len(script) + 1)
    /\ Len(states) = Len(symbols) + 1
    /\ \A i \in DOMAIN states : states[i] # {}
    /\ phase \in {"parsing", "reducing", "searching", "parsed", "done"}
    /\ \A i \in DOMAIN symbols : symbols[i].l <= symbols[i].r
    /\ \A i \in 2..Len(symbols) : symbols[i - 1].r <= symbols[i].l

\* A reduction pops symbols of the types its action takes, on a token of the script and on
\* the error token of a recovery, also when an earlier recovery has cut both stacks:
\* __symbol_type_mismatch never panics.
NoTypeMismatch ==
    phase \in {"parsing", "reducing"} =>
        \A p \in Reductions(AIR, TopState, IF phase = "parsing" THEN Lookahead ELSE ErrorTerminal) :
            [i \in DOMAIN PoppedBy(p) |-> PoppedBy(p)[i].sym] = p.rhs

\* The machine, with its tables and its reductions on lookaheads, accepts exactly the
\* token sequences that the productions derive: no script outside of the language gets
\* through without an error, and error recovery never fires on one inside.
AcceptsTheLanguage ==
    phase = "parsed" => ((outcome.ok /\ errors = <<>>) <=> InLanguage)

\* The tree parse returns is the script: printed, it gives its tokens back.
TreeIsTheScript == phase = "done" /\ outcome.ok => Unparse(outcome.ast) = script

\* Although it meets instructions from the inside out, the validator reports no name that
\* the text defines before its use, no next inside of its fold, no repeated next, no new
\* and no inner fold that the tree does not have.
NoFalseAlarms ==
    ParsedCleanly =>
        LET nodes == Preorder(outcome.ast, <<>>)
        IN  /\ Reported("undefined_variable") \subseteq UndefinedVariables(nodes)
            /\ Reported("undefined_iterable") \subseteq UndefinedIterables(nodes)
            /\ Reported("multiple_next_in_fold") \subseteq RepeatedNexts(nodes)
            /\ Reported("invalid_iterator_restriction") \subseteq NewOnIterators(nodes)
            /\ Reported("multiple_iterables") \subseteq NestedIterators(nodes)

\* A script that parse lets through has no second next of a fold, no new on the iterator
\* of a fold around it and no fold over the iterator of a fold around it.
AcceptedIsNested ==
    phase = "done" /\ outcome.ok =>
        LET nodes == Preorder(outcome.ast, <<>>)
        IN  RepeatedNexts(nodes) = {} /\ NewOnIterators(nodes) = {} /\ NestedIterators(nodes) = {}

\* As long as nothing was recovered from, the machine that looks for instructions after
\* next has one entry for each instruction on the parser's stack: every instruction takes
\* its parts off and puts itself on, a fold with a last instruction both.
OneKindPerInstruction ==
    /\ validator.after_next_machine.is_enabled
    /\ errors = <<>>
    /\ phase = "parsing"
    /\ \A i \in DOMAIN symbols : symbols[i].sym # ErrorTerminal
    => Len(validator.after_next_machine.stack)
            = Cardinality({i \in DOMAIN symbols : symbols[i].sym \in {"Instr", "AIR"}})

\* parse returns, whatever tokens it is given: recovery cannot go round in circles.
Terminates == <>(phase = "done")
=============================================================================
