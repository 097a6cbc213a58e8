---------------------------- MODULE LambdaParser ----------------------------
(***************************************************************************)
(* Lambdas, the paths behind a variable (x.$.field.[0]): the lexer of        *)
(* lambda_ast_lexer.rs, the generated parser va_lambda.rs with its error     *)
(* recovery, and parse of lambda_parser.rs.  parse is one call that nothing  *)
(* interleaves with, so it is an operator on the text, a sequence of         *)
(* characters.                                                             *)
(***************************************************************************)
EXTENDS LRMachine, FiniteSets, AirText

------------------------------------------------------------------------------
(* LambdaASTLexer. *)

LambdaToken(k, value) == [k |-> k, value |-> value]
LambdaLexerError == LambdaToken("LexerError", <<>>)

LENGTH_FUNCTOR == <<".", "l", "e", "n", "g", "t", "h">>
VALUE_PATH_STARTER == <<".", "$">>

Signs == {"[", "]", ".", "!"}

\* tokenize_until: the place of the last character of the run that starts at i.
RunEnd(text, i, chars) ==
    CHOOSE j \in i..Len(text) :
        /\ \A k \in (i + 1)..j : text[k] \in chars
        /\ j = Len(text) \/ text[j + 1] \notin chars

\* The tokens after the first one.  An error is the last token the parser sees.
RECURSIVE TokensFrom(_, _)
TokensFrom(text, i) ==
    IF i > Len(text) THEN <<>>
    ELSE LET ch == text[i]
             end == RunEnd(text, i, IF ch \in Digits THEN Digits ELSE is_air_alphanumeric)
             run == SubSeq(text, i, end)
         IN  CASE ch \in Signs -> <<LambdaToken(ch, <<>>)>> \o TokensFrom(text, i + 1)
               [] ch \in Digits ->
                    IF AtMost(run, U32Max)
                    THEN <<LambdaToken("number_accessor", run)>> \o TokensFrom(text, end + 1)
                    ELSE <<LambdaLexerError>>
               [] ch \in is_air_alphanumeric \ Digits ->
                    <<LambdaToken("string_accessor", run)>> \o TokensFrom(text, end + 1)
               [] OTHER -> <<LambdaLexerError>>

LambdaTokens(text) ==
    CASE text = <<>> -> <<>>
      [] text = LENGTH_FUNCTOR -> <<LambdaToken("length_functor", <<>>)>>
      [] text # LENGTH_FUNCTOR /\ IsPrefix(VALUE_PATH_STARTER, text) ->
            <<LambdaToken(".$", <<>>)>> \o TokensFrom(text, Len(VALUE_PATH_STARTER) + 1)
      [] OTHER -> <<LambdaLexerError>>

------------------------------------------------------------------------------
(* The productions of va_lambda.rs and their actions. *)

RawLambdaASTProductions ==
    {[lhs |-> "RawLambdaAST", rhs |-> rhs] :
        rhs \in {<<".$">>, <<".$", "ValueAccessor+">>, <<"length_functor">>, <<ErrorTerminal>>}}

\* The optional dot and the optional flattening sign are spelled out by the generator.
ArrayAccessProductions ==
    {[lhs |-> "ValueAccessor", rhs |-> dot \o <<"[", "number_accessor", "]">> \o flat] :
        dot \in {<<>>, <<".">>}, flat \in {<<>>, <<"!">>}}

ByScalarProductions ==
    {[lhs |-> "ValueAccessor", rhs |-> dot \o <<"[", "string_accessor", "]">> \o flat] :
        dot \in {<<>>, <<".">>}, flat \in {<<>>, <<"!">>}}

ByNameProductions ==
    {[lhs |-> "ValueAccessor", rhs |-> <<".", "string_accessor">> \o flat] : flat \in {<<>>, <<"!">>}}

ErrorAccessorProduction == {[lhs |-> "ValueAccessor", rhs |-> <<ErrorTerminal>>]}

AccessorsProductions ==
    {[lhs |-> "ValueAccessor+", rhs |-> <<"ValueAccessor">>],
     [lhs |-> "ValueAccessor+", rhs |-> <<"ValueAccessor+", "ValueAccessor">>]}

\* The tables of the machine.
LAMBDA_AST ==
    Grammar(RawLambdaASTProductions \cup ArrayAccessProductions \cup ByScalarProductions
            \cup ByNameProductions \cup ErrorAccessorProduction \cup AccessorsProductions,
            "RawLambdaAST")

ArrayAccess(idx) == [tag |-> "ArrayAccess", idx |-> idx]
FieldAccessByName(name) == [tag |-> "FieldAccessByName", field_name |-> name]
FieldAccessByScalar(name) == [tag |-> "FieldAccessByScalar", scalar_name |-> name]
Functor == [tag |-> "Functor"]
ValuePath(accessors) == [tag |-> "ValuePath", accessors |-> accessors]
ErrorNode == [tag |-> "Error"]

RawLambdaASTAction(rhs, values) ==
    CASE rhs = <<".$">> -> ValuePath(<<>>)
      [] rhs = <<".$", "ValueAccessor+">> -> ValuePath(values[2])
      [] rhs = <<"length_functor">> -> Functor
      [] rhs = <<ErrorTerminal>> -> ErrorNode

\* An optional dot before it moves the accessor by one; a flattening sign is ignored.
Shifted(rhs) == IF Head(rhs) = "." THEN 1 ELSE 0
ArrayAccessAction(rhs, values) == ArrayAccess(values[Shifted(rhs) + 2])
ByScalarAction(rhs, values) == FieldAccessByScalar(values[Shifted(rhs) + 2])
ByNameAction(rhs, values) == FieldAccessByName(values[2])

ValueAccessorAction(rhs, values) ==
    CASE "number_accessor" \in Range(rhs) -> ArrayAccessAction(rhs, values)
      [] "string_accessor" \in Range(rhs) /\ "[" \in Range(rhs) -> ByScalarAction(rhs, values)
      [] "string_accessor" \in Range(rhs) /\ "[" \notin Range(rhs) -> ByNameAction(rhs, values)
      [] rhs = <<ErrorTerminal>> -> ErrorNode

\* Mutant: the list is built from the wrong end.
AccessorsActionReversed(rhs, values) ==
    IF Len(rhs) = 1 THEN <<values[1]>> ELSE <<values[2]>> \o values[1]

AccessorsAction(rhs, values) == IF Len(rhs) = 1 THEN <<values[1]>> ELSE Append(values[1], values[2])

LambdaAction(p, values) ==
    CASE p.lhs = "RawLambdaAST" -> RawLambdaASTAction(p.rhs, values)
      [] p.lhs = "ValueAccessor" -> ValueAccessorAction(p.rhs, values)
      [] p.lhs = "ValueAccessor+" -> AccessorsAction(p.rhs, values)

------------------------------------------------------------------------------
(* The machine: the tokens left, the states, the symbols with their values,   *)
(* the number of recoveries.                                                *)

NewMachine(tokens) ==
    [tokens |-> tokens, states |-> <<StartState(LAMBDA_AST)>>, symbols |-> <<>>, errors |-> 0]

NextToken(m) == IF m.tokens = <<>> THEN EOF ELSE Head(m.tokens).k

Symbol(sym, value) == [sym |-> sym, value |-> value]

ShiftedToken(m) ==
    [m EXCEPT !.tokens = Tail(@),
              !.states = Append(@, GotoState(LAMBDA_AST, Last(@), NextToken(m))),
              !.symbols = Append(@, Symbol(NextToken(m), Head(m.tokens).value))]

\* How the machine stops without a tree.
ParseFailed == [ok |-> FALSE, error |-> "ParseError"]
Panicked == [ok |-> FALSE, error |-> "panic"]
Stopped(m) == m \in {ParseFailed, Panicked}

\* The __pop_Variant calls of a reduction: what they take off has to be of the types of its
\* right-hand side (__symbol_type_mismatch).
Popped(m, p) == SubSeq(m.symbols, Len(m.symbols) - Len(p.rhs) + 1, Len(m.symbols))
PopsMatch(m, p) ==
    Len(p.rhs) <= Len(m.symbols) /\ \A i \in DOMAIN p.rhs : Popped(m, p)[i].sym = p.rhs[i]

\* __reduceN: an action of an error production also notes the recovery.
Reduced(m, p) ==
    LET values == [i \in DOMAIN p.rhs |-> Popped(m, p)[i].value]
    IN  IF ~PopsMatch(m, p) THEN Panicked
        ELSE [m EXCEPT !.states = AfterReduce(LAMBDA_AST, @, p),
                       !.symbols = Append(SubSeq(@, 1, Len(@) - Len(p.rhs)),
                                          Symbol(p.lhs, LambdaAction(p, values))),
                       !.errors = IF p.rhs = <<ErrorTerminal>> THEN @ + 1 ELSE @]

\* Error recovery: reduce on the error token, then drop tokens until it can be
\* shifted somewhere in the stack with the token behind it accepted.
RECURSIVE ReducedOnError(_)
ReducedOnError(m) ==
    LET reds == Reductions(LAMBDA_AST, Last(m.states), ErrorTerminal)
    IN  IF Stopped(m) \/ reds = {} THEN m
        ELSE ReducedOnError(Reduced(m, CHOOSE p \in reds : TRUE))

ErrorPlaces(m) ==
    {top \in DOMAIN m.states :
        LET K == GotoState(LAMBDA_AST, m.states[top], ErrorTerminal)
        IN  K # {} /\ Accepts(LAMBDA_AST, Append(SubSeq(m.states, 1, top), K), NextToken(m))}

WithError(m, top) ==
    [m EXCEPT !.states = Append(SubSeq(@, 1, top), GotoState(LAMBDA_AST, @[top], ErrorTerminal)),
              !.symbols = Append(SubSeq(@, 1, top - 1), Symbol(ErrorTerminal, <<>>))]

\* The machine behind a recovery, or a machine that stopped.
RECURSIVE Recovered(_)
Recovered(m) ==
    LET Search(places) ==
            CASE places # {} -> WithError(m, CHOOSE t \in places : \A u \in places : u <= t)
              [] places = {} /\ NextToken(m) \in {EOF, "LexerError"} -> ParseFailed
              [] OTHER -> Recovered([m EXCEPT !.tokens = Tail(@)])
    IN  IF Stopped(m) THEN m
        ELSE Search(IF NextToken(m) = "LexerError" THEN {} ELSE ErrorPlaces(m))

\* RawLambdaASTParser::parse: what the machine ends with.
RECURSIVE Drive(_)
Drive(m) ==
    LET top == Last(m.states)
        reds == Reductions(LAMBDA_AST, top, NextToken(m))
    IN  IF Stopped(m) THEN m
        ELSE
        CASE NextToken(m) = "LexerError" -> ParseFailed
          [] CanShift(LAMBDA_AST, top, NextToken(m)) -> Drive(ShiftedToken(m))
          [] reds # {} ->
                LET p == CHOOSE q \in reds : TRUE
                IN  IF p.lhs = Goal /\ PopsMatch(m, p)
                    THEN [ok |-> TRUE, ast |-> Last(m.symbols).value, errors |-> m.errors]
                    ELSE Drive(Reduced(m, p))
          [] OTHER -> Drive(Recovered(ReducedOnError(m)))

\* TryFrom<RawLambdaAST>: a path has at least one accessor.
TryIntoLambda(ast) ==
    CASE ast.tag = "ValuePath" /\ ast.accessors = <<>> -> [ok |-> FALSE, error |-> "EmptyLambda"]
      [] ast.tag = "Error" -> [ok |-> FALSE, error |-> "InternalError"]
      [] OTHER -> [ok |-> TRUE, ast |-> ast]

\* parse: recoveries win over the tree.
parse(text) ==
    LET Verdict(result) ==
            CASE ~result.ok -> result
              [] result.ok /\ result.errors > 0 -> [ok |-> FALSE, error |-> "RecoveryErrors"]
              [] OTHER -> TryIntoLambda(result.ast)
    IN  Verdict(Drive(NewMachine(LambdaTokens(text))))
=============================================================================
