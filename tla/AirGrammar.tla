----------------------------- MODULE AirGrammar -----------------------------
(***************************************************************************)
(* The grammar of AIR scripts as the generated parser air.rs has it: the    *)
(* productions its __reduceN functions pop and push, and the __actionN      *)
(* functions that build the tree and call the validator.  A terminal's      *)
(* value is its token, a record with the kind k and what the kind carries.  *)
(***************************************************************************)
EXTENDS LRMachine, VariableValidator

Produce(lhs, rhs) == [lhs |-> lhs, rhs |-> rhs]
Units(lhs, parts) == {Produce(lhs, <<X>>) : X \in parts}
Instr(keyword, parts) == Produce("Instr", <<"(", keyword>> \o parts \o <<")">>)

------------------------------------------------------------------------------
(* Productions. *)

ArgProductions == {Produce("Arg+", <<"Arg">>), Produce("Arg+", <<"Arg+", "Arg">>)}

RootProduction == {Produce("AIR", <<"Instr">>)}

ApArgumentKeywords ==
    Units("ApArgument", {"InitPeerId", "LastError", "LastErrorWithLambda", "Error",
                         "ErrorWithLambda", "Timestamp", "TTL"})

ApArgumentConstants ==
    Units("ApArgument", {"Literal", "Number", "Boolean"}) \cup {Produce("ApArgument", <<"[", "]">>)}

ApArgumentVariables ==
    Units("ApArgument", {"Scalar", "ScalarWithLambda", "CanonStream", "CanonStreamWithLambda",
                         "CanonStreamMapWithLambda"})

ApResultProductions == Units("ApResult", {"Scalar", "Stream"})

ArgsProductions ==
    Units("Arg", {"Value"}) \cup {Produce("Args", <<"[", "]">>), Produce("Args", <<"[", "Arg+", "]">>)}

CallOutputProductions == Units("CallOutput", {"Scalar", "Stream"})

CanonArgumentProductions ==
    Units("CanonStreamArgument", {"CanonStream"})
    \cup Units("CanonStreamMapArgument", {"CanonStreamMap"})

FailBodyProductions ==
    Units("FailBody", {"Scalar", "ScalarWithLambda", "CanonStreamWithLambda", "LastError", "Error"})
    \cup {Produce("FailBody", <<"I64", "Literal">>)}

FoldScalarIterableProductions ==
    Units("FoldScalarIterable", {"Scalar", "ScalarWithLambda", "CanonStream", "CanonStreamMap",
                                 "CanonStreamMapWithLambda"})
    \cup {Produce("FoldScalarIterable", <<"[", "]">>)}

FunctionProductions == Units("Function", {"ResolvableToStringVariable"})

CallProductions ==
    {Instr("call", <<"Triplet", "Args", "CallOutput">>), Instr("call", <<"Triplet", "Args">>)}

CanonProductions ==
    {Instr("canon", <<"ResolvableToPeerIdVariable", "StreamArgument", "CanonStreamArgument">>),
     Instr("canon", <<"ResolvableToPeerIdVariable", "StreamMapArgument", "CanonStreamMapArgument">>),
     Instr("canon", <<"ResolvableToPeerIdVariable", "StreamMapArgument", "Scalar">>)}

ApProductions ==
    {Instr("ap", <<"ApArgument", "ApResult">>),
     Instr("ap", <<"(", "StreamMapKeyClause", "ApArgument", ")", "StreamMap">>)}

BranchProductions == {Instr("seq", <<"Instr", "Instr">>), Instr("par", <<"Instr", "Instr">>)}

LeafProductions == {Instr("never", <<>>), Instr("null", <<>>)}

NewProduction == {Instr("new", <<"NewArgument", "Instr">>)}

FailProduction == {Instr("fail", <<"FailBody">>)}

FoldProductions ==
    UNION {{Instr("fold", <<iterable, "Scalar", "Instr", "Instr">>),
            Instr("fold", <<iterable, "Scalar", "Instr">>)} :
              iterable \in {"FoldScalarIterable", "Stream", "StreamMap"}}

NextProduction == {Instr("next", <<"Scalar">>)}

XorProduction == {Instr("xor", <<"Instr", "Instr">>)}

MatchProductions ==
    {Instr(keyword, <<"Value", "Value", "Instr">>) : keyword \in {"match_", "mismatch"}}

RecoveryProduction == {Produce("Instr", <<ErrorTerminal>>)}

NewArgumentProductions ==
    Units("NewArgument", {"Scalar", "Stream", "StreamMap", "CanonStream", "CanonStreamMap"})

NumberProductions == Units("Number", {"I64", "F64"}) \cup Units("PeerId", {"ResolvableToPeerIdVariable"})

ResolvableToPeerIdProductions ==
    Units("ResolvableToPeerIdVariable", {"InitPeerId", "Literal", "Scalar", "ScalarWithLambda",
                                         "CanonStreamWithLambda", "CanonStreamMapWithLambda"})

ResolvableToStringProductions ==
    Units("ResolvableToStringVariable", {"Literal", "Scalar", "ScalarWithLambda",
                                         "CanonStreamWithLambda", "CanonStreamMapWithLambda"})

ServiceIdProduction == Units("ServiceId", {"ResolvableToStringVariable"})

StreamArgumentProductions ==
    Units("StreamArgument", {"Stream"}) \cup Units("StreamMapArgument", {"StreamMap"})

StreamMapKeyProductions ==
    Units("StreamMapKeyClause", {"Literal", "I64", "Scalar", "ScalarWithLambda",
                                 "CanonStreamWithLambda"})

TripletProduction == {Produce("Triplet", <<"PeerId", "(", "ServiceId", "Function", ")">>)}

ValueKeywords ==
    Units("Value", {"InitPeerId", "LastError", "LastErrorWithLambda", "Error", "ErrorWithLambda"})

ValueConstants ==
    Units("Value", {"Literal", "Timestamp", "TTL", "Number", "Boolean"})
    \cup {Produce("Value", <<"[", "]">>)}

ValueVariables ==
    Units("Value", {"Scalar", "ScalarWithLambda", "CanonStream", "CanonStreamWithLambda",
                    "CanonStreamMap", "CanonStreamMapWithLambda"})

AirProductions ==
    ArgProductions \cup RootProduction \cup ApArgumentKeywords \cup ApArgumentConstants
    \cup ApArgumentVariables \cup ApResultProductions \cup ArgsProductions
    \cup CallOutputProductions \cup CanonArgumentProductions \cup FailBodyProductions
    \cup FoldScalarIterableProductions \cup FunctionProductions \cup CallProductions
    \cup CanonProductions \cup ApProductions \cup BranchProductions \cup LeafProductions
    \cup NewProduction \cup FailProduction \cup FoldProductions \cup NextProduction
    \cup XorProduction \cup MatchProductions \cup RecoveryProduction \cup NewArgumentProductions
    \cup NumberProductions \cup ResolvableToPeerIdProductions \cup ResolvableToStringProductions
    \cup ServiceIdProduction \cup StreamArgumentProductions \cup StreamMapKeyProductions
    \cup TripletProduction \cup ValueKeywords \cup ValueConstants \cup ValueVariables

AIR == Grammar(AirProductions, "AIR")

------------------------------------------------------------------------------
(* Actions over the values v of the symbols popped. *)

NoLambda == [tag |-> "None"]

\* Scalar::new, ScalarWithLambda::new and the like for the other variables.
VariableNode(tok) ==
    IF tok.k \in LambdaTags THEN [tag |-> tok.k, name |-> tok.name, lambda |-> tok.lambda]
    ELSE [tag |-> tok.k, name |-> tok.name]

LiteralNode(tok) == [tag |-> "Literal", value |-> tok.value]

TripletAction(v) == [peer_id |-> v[1], service_id |-> v[3], function_name |-> v[4]]

ApResultAction(v) == VariableNode(v[1])

StreamMapKeyAction(v) ==
    CASE v[1].k = "Literal" -> LiteralNode(v[1])
      [] v[1].k = "I64" -> [tag |-> "Int", value |-> v[1].value]
      [] OTHER -> VariableNode(v[1])

CallOutputAction(v) == VariableNode(v[1])

FailBodyAction(v) ==
    CASE v[1].k = "I64" -> [tag |-> "Literal", ret_code |-> v[1].value, error_message |-> v[2].value]
      [] v[1].k \in {"LastError", "Error"} -> [tag |-> v[1].k]
      [] OTHER -> VariableNode(v[1])

FoldScalarIterableAction(v) == IF Len(v) = 2 THEN [tag |-> "EmptyArray"] ELSE VariableNode(v[1])

ResolvableToPeerIdAction(v) ==
    CASE v[1].k = "InitPeerId" -> [tag |-> "InitPeerId"]
      [] v[1].k = "Literal" -> LiteralNode(v[1])
      [] OTHER -> VariableNode(v[1])

ResolvableToStringAction(v) == IF v[1].k = "Literal" THEN LiteralNode(v[1]) ELSE VariableNode(v[1])

NewArgumentAction(v) == VariableNode(v[1])

NumberAction(v) == [k |-> "Number", kind |-> IF v[1].k = "I64" THEN "Int" ELSE "Float",
                    value |-> v[1].value]

ConstantNode(v) ==
    CASE Len(v) = 2 -> [tag |-> "EmptyArray"]
      [] v[1].k \in {"InitPeerId", "Timestamp", "TTL"} -> [tag |-> v[1].k]
      [] v[1].k \in {"LastError", "Error"} -> [tag |-> v[1].k, lambda |-> NoLambda]
      [] v[1].k = "LastErrorWithLambda" -> [tag |-> "LastError", lambda |-> v[1].lambda]
      [] v[1].k = "ErrorWithLambda" -> [tag |-> "Error", lambda |-> v[1].lambda]
      [] v[1].k = "Number" -> [tag |-> "Number", kind |-> v[1].kind, value |-> v[1].value]
      [] v[1].k \in {"Literal", "Boolean"} -> [tag |-> v[1].k, value |-> v[1].value]

IsVariable(v) == Len(v) = 1 /\ v[1].k \in VariableTags \cup LambdaTags

ImmutableValueConstant(v) == ConstantNode(v)
ImmutableValueVariable(v) == VariableNode(v[1])
ApArgumentConstant(v) == ConstantNode(v)
ApArgumentVariable(v) == VariableNode(v[1])

CanonicalArgumentAction(v) == VariableNode(v[1])

\* "[" "]" or "[" Arg+ "]".
ArgsAction(v) == IF Len(v) = 2 THEN <<>> ELSE v[2]

ArgListAction(v) == IF Len(v) = 1 THEN <<v[1]>> ELSE Append(v[1], v[2])

\* A reduction without a call of the validator.
PartAction(lhs, v) ==
    CASE lhs = "Triplet" -> TripletAction(v)
      [] lhs = "ApResult" -> ApResultAction(v)
      [] lhs = "StreamMapKeyClause" -> StreamMapKeyAction(v)
      [] lhs = "CallOutput" -> CallOutputAction(v)
      [] lhs = "FailBody" -> FailBodyAction(v)
      [] lhs = "FoldScalarIterable" -> FoldScalarIterableAction(v)
      [] lhs = "ResolvableToPeerIdVariable" -> ResolvableToPeerIdAction(v)
      [] lhs = "ResolvableToStringVariable" -> ResolvableToStringAction(v)
      [] lhs = "NewArgument" -> NewArgumentAction(v)
      [] lhs = "Number" -> NumberAction(v)
      [] lhs = "Value" -> IF IsVariable(v) THEN ImmutableValueVariable(v) ELSE ImmutableValueConstant(v)
      [] lhs = "ApArgument" -> IF IsVariable(v) THEN ApArgumentVariable(v) ELSE ApArgumentConstant(v)
      [] lhs \in {"StreamArgument", "StreamMapArgument", "CanonStreamArgument",
                  "CanonStreamMapArgument"} -> CanonicalArgumentAction(v)
      [] lhs = "Args" -> ArgsAction(v)
      [] lhs = "Arg+" -> ArgListAction(v)
      [] lhs \in {"Arg", "PeerId", "Function", "ServiceId", "AIR"} -> v[1]

------------------------------------------------------------------------------
(* Actions of instructions: the node, and the validator after it met the node. *)

Built(node, validator) == [node |-> node, validator |-> validator]
NoInstruction == [op |-> "none"]

CallAction(V, v, span) ==
    LET call == [op |-> "call", triplet |-> v[3], args |-> v[4],
                 output |-> IF Len(v) = 6 THEN v[5] ELSE [tag |-> "None"]]
    IN  Built(call, met_call(V, call, span))

CanonAction(V, v, span) ==
    LET canon == [op |-> "canon", peer_id |-> v[3], stream |-> v[4], result |-> v[5]]
    IN  Built(canon, met_canon(V, canon, span))

CanonMapAction(V, v, span) ==
    LET canon == [op |-> "canon_map", peer_id |-> v[3], stream |-> v[4], result |-> v[5]]
    IN  Built(canon, met_canon(V, canon, span))

CanonMapScalarAction(V, v, span) ==
    LET canon == [op |-> "canon_map_scalar", peer_id |-> v[3], stream |-> v[4],
                  result |-> VariableNode(v[5])]
    IN  Built(canon, met_canon(V, canon, span))

ApAction(V, v, span) ==
    LET ap == [op |-> "ap", argument |-> v[3], result |-> v[4]]
    IN  Built(ap, met_ap(V, ap, span))

ApMapAction(V, v, span) ==
    LET ap == [op |-> "ap_map", key |-> v[4], value |-> v[5], map |-> VariableNode(v[7])]
    IN  Built(ap, met_ap_map(V, ap, span))

SeqAction(V, v, span) == Built([op |-> "seq", l |-> v[3], r |-> v[4]], met_merging_instr(V, span))
ParAction(V, v, span) == Built([op |-> "par", l |-> v[3], r |-> v[4]], met_merging_instr(V, span))
NeverAction(V, v, span) == Built([op |-> "never"], met_simple_instr(V, span))
NullAction(V, v, span) == Built([op |-> "null"], met_simple_instr(V, span))

NewAction(V, v, span) ==
    LET new == [op |-> "new", argument |-> v[3], instruction |-> v[4], span |-> span]
    IN  Built(new, met_new(V, new, span))

FailAction(V, v, span) ==
    LET fail == [op |-> "fail", body |-> v[3]] IN Built(fail, met_fail_literal(V, fail, span))

FoldNode(op, iterable, v, span) ==
    [op |-> op, iterable |-> iterable, iterator |-> v[4].name, instruction |-> v[5],
     last_instruction |-> IF Len(v) = 7 THEN v[6] ELSE NoInstruction, span |-> span]

FoldScalarAction(V, v, span) ==
    LET fold == FoldNode("fold_scalar", v[3], v, span) IN Built(fold, met_fold_scalar(V, fold, span))

FoldStreamAction(V, v, span) ==
    LET fold == FoldNode("fold_stream", VariableNode(v[3]), v, span)
    IN  Built(fold, meet_fold_stream(V, fold, span))

FoldStreamMapAction(V, v, span) ==
    LET fold == FoldNode("fold_stream_map", VariableNode(v[3]), v, span)
    IN  Built(fold, meet_fold_stream(V, fold, span))

NextAction(V, v, span) ==
    LET next == [op |-> "next", iterator |-> v[3].name] IN Built(next, met_next(V, next, span))

XorAction(V, v, span) == Built([op |-> "xor", l |-> v[3], r |-> v[4]], met_xoring_instr(V, span))

\* Mutant: the compared values are swapped.
MatchNodeSwapped(op, v) == [op |-> op, left_value |-> v[4], right_value |-> v[3], instruction |-> v[5]]

MatchNode(op, v) == [op |-> op, left_value |-> v[3], right_value |-> v[4], instruction |-> v[5]]

MatchAction(V, v, span) ==
    LET match == MatchNode("match", v) IN Built(match, met_match(V, match, span))

MismatchAction(V, v, span) ==
    LET mismatch == MatchNode("mismatch", v) IN Built(mismatch, met_match(V, mismatch, span))

\* ! => errors.push(<>); the caller records the error.
RecoveryAction(V) == Built([op |-> "error"], V)

InstrAction(V, rhs, v, span) ==
    CASE rhs = <<ErrorTerminal>> -> RecoveryAction(V)
      [] rhs[2] = "call" -> CallAction(V, v, span)
      [] rhs[2] = "canon" /\ rhs[4] = "StreamArgument" -> CanonAction(V, v, span)
      [] rhs[2] = "canon" /\ rhs[5] = "CanonStreamMapArgument" -> CanonMapAction(V, v, span)
      [] rhs[2] = "canon" /\ rhs[5] = "Scalar" -> CanonMapScalarAction(V, v, span)
      [] rhs[2] = "ap" /\ rhs[3] # "(" -> ApAction(V, v, span)
      [] rhs[2] = "ap" /\ rhs[3] = "(" -> ApMapAction(V, v, span)
      [] rhs[2] = "seq" -> SeqAction(V, v, span)
      [] rhs[2] = "par" -> ParAction(V, v, span)
      [] rhs[2] = "never" -> NeverAction(V, v, span)
      [] rhs[2] = "null" -> NullAction(V, v, span)
      [] rhs[2] = "new" -> NewAction(V, v, span)
      [] rhs[2] = "fail" -> FailAction(V, v, span)
      [] rhs[2] = "fold" /\ rhs[3] = "FoldScalarIterable" -> FoldScalarAction(V, v, span)
      [] rhs[2] = "fold" /\ rhs[3] = "Stream" -> FoldStreamAction(V, v, span)
      [] rhs[2] = "fold" /\ rhs[3] = "StreamMap" -> FoldStreamMapAction(V, v, span)
      [] rhs[2] = "next" -> NextAction(V, v, span)
      [] rhs[2] = "xor" -> XorAction(V, v, span)
      [] rhs[2] = "match_" -> MatchAction(V, v, span)
      [] rhs[2] = "mismatch" -> MismatchAction(V, v, span)

\* @L is where the first symbol starts, @R where the last one ends.
LeftOf(popped) == popped[1].l
RightOf(popped) == popped[Len(popped)].r
=============================================================================
