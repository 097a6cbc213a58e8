------------------------------ MODULE AirLexer ------------------------------
(***************************************************************************)
(* AIRLexer of air_lexer.rs, which cuts the text of a script into tokens,    *)
(* and the parser of call_variable_parser.rs, which reads a word that is no  *)
(* keyword character by character: an integer, a float, or a variable with   *)
(* its tags and its lambda.  The text is ASCII: an offset counts bytes in    *)
(* the code and characters here.                                           *)
(***************************************************************************)
EXTENDS Integers, FiniteSets, SequencesExt, AirText

CONSTANTS Inputs,             \* the texts to read
          parse_lambda(_)     \* air_lambda_parser::parse

ASSUME InputsAssumption == \A text \in Inputs : text \in Seq(STRING)

VARIABLES
    input,   \* the characters of the script
    at,      \* the place of the next character
    tokens,  \* what next_token returned so far: l, token, r
    word,    \* the variable parser at work, NoWord outside of a word
    phase    \* "lexing", "variable" (inside of try_parse_call_variable), "done"

vars == <<input, at, tokens, word, phase>>

\* A character is a string; those that are hard to see have names.
Newline == "newline"
Quote == "quote"

\* char::is_whitespace, of ASCII characters.
Whitespace == {" ", Newline, "tab", "vertical tab", "form feed", "carriage return"}
Brackets == {"(", ")", "[", "]"}

Tok(k) == [k |-> k]
Spanned(l, token, r) == [l |-> l, token |-> token, r |-> r]
LexerError(error) == [k |-> "LexerError", error |-> error]
IsError(token) == token.k = "LexerError"

------------------------------------------------------------------------------
(* Words. *)

Keywords ==
    {<<<<"c", "a", "l", "l">>, "call">>, <<<<"c", "a", "n", "o", "n">>, "canon">>,
     <<<<"a", "p">>, "ap">>, <<<<"s", "e", "q">>, "seq">>, <<<<"p", "a", "r">>, "par">>,
     <<<<"f", "a", "i", "l">>, "fail">>, <<<<"f", "o", "l", "d">>, "fold">>,
     <<<<"x", "o", "r">>, "xor">>, <<<<"n", "e", "v", "e", "r">>, "never">>,
     <<<<"n", "e", "w">>, "new">>, <<<<"n", "e", "x", "t">>, "next">>,
     <<<<"n", "u", "l", "l">>, "null">>, <<<<"m", "a", "t", "c", "h">>, "match_">>,
     <<<<"m", "i", "s", "m", "a", "t", "c", "h">>, "mismatch">>,
     <<<<"%", "i", "n", "i", "t", "_", "p", "e", "e", "r", "_", "i", "d", "%">>, "InitPeerId">>,
     <<<<"%", "t", "i", "m", "e", "s", "t", "a", "m", "p", "%">>, "Timestamp">>,
     <<<<"%", "t", "t", "l", "%">>, "TTL">>,
     <<<<"t", "r", "u", "e">>, "Boolean">>, <<<<"f", "a", "l", "s", "e">>, "Boolean">>}

IsKeyword(text) == \E kw \in Keywords : kw[1] = text
KeywordToken(text) ==
    LET k == (CHOOSE kw \in Keywords : kw[1] = text)[2]
    IN  IF k = "Boolean" THEN [k |-> k, value |-> Head(text) = "t"] ELSE Tok(k)

ERROR == <<":", "e", "r", "r", "o", "r", ":">>
LAST_ERROR == <<"%", "l", "a", "s", "t", "_", "e", "r", "r", "o", "r", "%">>

\* parse_error: an error descriptor, alone or with a lambda.
parse_error(text, name, k) ==
    LET lambda == parse_lambda(SubSeq(text, Len(name) + 1, Len(text)))
    IN  CASE text = name -> Tok(k)
          [] text # name /\ lambda.ok -> [k |-> k \o "WithLambda", lambda |-> lambda.ast]
          [] OTHER -> LexerError(lambda.error)

Count(ch, i, j) == Cardinality({k \in i..j : input[k] = ch})

\* should_stop at place k of a word that starts at i.
StopsAt(i, k) ==
    \/ input[k] \in Whitespace
    \/ Count("(", i + 1, k) < Count(")", i + 1, k)
    \/ Count("[", i + 1, k) < Count("]", i + 1, k)

\* Mutant: without advance_end_pos the last word of a text loses its last character.
TokenEndShort(i) ==
    LET stops == {k \in (i + 1)..Len(input) : StopsAt(i, k)}
    IN  IF stops = {} THEN (IF Len(input) = i THEN i ELSE Len(input) - 1)
        ELSE (CHOOSE k \in stops : \A l \in stops : k <= l) - 1

\* advance_to_token_end: the place of the last character of the word.
TokenEnd(i) ==
    LET stops == {k \in (i + 1)..Len(input) : StopsAt(i, k)}
    IN  IF stops = {} THEN Len(input) ELSE (CHOOSE k \in stops : \A l \in stops : k <= l) - 1

------------------------------------------------------------------------------
(* CallVariableParser. *)

NoWord == <<>>

NewVariableParser(text) ==
    [text |-> text, current_offset |-> 0, first_dot_met_pos |-> -1, non_numeric_met |-> FALSE,
     digit_met |-> FALSE, met_tag |-> "None", error |-> "none"]

WithWordError(v, error) == [v EXCEPT !.error = error]

FromTag(ch) == CASE ch = "$" -> "Stream" [] ch = "#" -> "Canon" [] ch = "%" -> "StreamMap"
                 [] OTHER -> "None"

DeduceTag(tag, ch) == CASE ch = "$" /\ tag = "Canon" -> "CanonStream"
                        [] ch = "%" -> "CanonStreamMap"
                        [] OTHER -> tag

CanonTypes == {"CanonStream", "CanonStreamMap"}

LensAllowed == is_air_alphanumeric
               \cup {"$", "@", "[", "]", "(", ")", ":", "?", ".", "*", ",", Quote, "'"}

CurrentChar(v) == v.text[v.current_offset + 1]

IsFirstDot(v) == v.first_dot_met_pos = -1 /\ CurrentChar(v) = "."

\* try_parse_first_met_dot: no name before the dot, or no more than its tags.
FirstDot(v) ==
    CASE v.current_offset = 0 -> WithWordError(v, "LeadingDot")
      [] v.current_offset > 0 /\ v.met_tag # "None" /\ v.current_offset <= 2 ->
            WithWordError(v, "EmptyCanonName")
      [] OTHER -> [v EXCEPT !.first_dot_met_pos = v.current_offset]

try_parse_as_variable(v) ==
    LET ch == CurrentChar(v)
        canon == DeduceTag(v.met_tag, ch)
        last == v.current_offset = Len(v.text) - 1
    IN  CASE v.current_offset = 1 /\ canon \in CanonTypes ->
                IF Len(v.text) = 2 THEN WithWordError(v, "EmptyCanonName")
                ELSE [v EXCEPT !.met_tag = canon]
          [] v.current_offset = 0 /\ FromTag(ch) # "None" ->
                IF Len(v.text) = 1 THEN WithWordError(v, "EmptyTaggedName")
                ELSE [v EXCEPT !.met_tag = FromTag(ch)]
          [] IsFirstDot(v) -> FirstDot(v)
          [] v.first_dot_met_pos # -1 ->
                IF ch \in LensAllowed \/ (last /\ ch = "!") THEN v ELSE WithWordError(v, "InvalidLambda")
          [] OTHER -> IF ch \in is_air_alphanumeric THEN v ELSE WithWordError(v, "IsNotAlphanumeric")

try_parse_as_number(v) ==
    LET ch == CurrentChar(v)
    IN  CASE v.current_offset = 0 /\ ch \in {"-", "+"} -> v
          [] ch \in Digits -> [v EXCEPT !.digit_met = TRUE]
          [] IsFirstDot(v) ->
                IF FirstDot(v).error = "none" /\ ~v.digit_met THEN WithWordError(v, "LeadingDot")
                ELSE FirstDot(v)
          [] OTHER -> IF v.first_dot_met_pos # -1 THEN WithWordError(v, "UnallowedCharInNumber")
                      ELSE try_parse_as_variable([v EXCEPT !.non_numeric_met = TRUE])

I64Max == <<"9", "2", "2", "3", "3", "7", "2", "0", "3", "6", "8", "5", "4", "7", "7", "5", "8", "0", "7">>
I64MinMagnitude == [I64Max EXCEPT ![19] = "8"]

\* parse::<i64> of the standard library: an optional sign and at least one digit.
ParseI64(text) ==
    LET signed == text # <<>> /\ Head(text) \in {"-", "+"}
        n == IF signed THEN Tail(text) ELSE text
    IN  n # <<>> /\ AtMost(n, IF signed /\ Head(text) = "-" THEN I64MinMagnitude ELSE I64Max)

SAFE_FLOAT_SIGNIFICAND_SIZE == 11

TokenKind(tag) == CASE tag = "None" -> "Scalar" [] tag = "Canon" -> "CanonStream" [] OTHER -> tag

to_variable_token(v) == [k |-> TokenKind(v.met_tag), name |-> v.text]

try_to_variable_and_lambda(v) ==
    LET start == v.first_dot_met_pos
        lambda == parse_lambda(SubSeq(v.text, start + 1, Len(v.text)))
    IN  IF lambda.ok
        THEN [k |-> TokenKind(v.met_tag) \o "WithLambda", name |-> SubSeq(v.text, 1, start),
              lambda |-> lambda.ast]
        ELSE LexerError(lambda.error)

\* A number keeps its text as its value.
to_token(v) ==
    CASE v.error # "none" -> LexerError(v.error)
      [] v.error = "none" /\ ~v.non_numeric_met /\ v.first_dot_met_pos = -1 ->
            IF ParseI64(v.text) THEN [k |-> "I64", value |-> v.text] ELSE LexerError("ParseIntError")
      [] v.error = "none" /\ ~v.non_numeric_met /\ v.first_dot_met_pos # -1 ->
            IF Len(v.text) > SAFE_FLOAT_SIGNIFICAND_SIZE THEN LexerError("TooBigFloat")
            ELSE [k |-> "F64", value |-> v.text]
      [] v.error = "none" /\ v.non_numeric_met /\ v.first_dot_met_pos = -1 -> to_variable_token(v)
      [] OTHER -> try_to_variable_and_lambda(v)

------------------------------------------------------------------------------
(* next_token. *)

Init ==
    /\ input \in Inputs
    /\ at = 1
    /\ tokens = <<>>
    /\ word = NoWord
    /\ phase = "lexing"

\* What next_token returns.  The parser asks for no token behind an error.
Return(l, token, r) ==
    /\ tokens' = Append(tokens, Spanned(l, token, r))
    /\ at' = r
    /\ word' = NoWord
    /\ phase' = IF IsError(token) THEN "done" ELSE "lexing"
    /\ UNCHANGED input

Lexing(chars) == phase = "lexing" /\ at <= Len(input) /\ input[at] \in chars

Bracket == Lexing(Brackets) /\ Return(at, Tok(input[at]), at + 1)

SkipWhitespace ==
    /\ Lexing(Whitespace)
    /\ at' = at + 1
    /\ UNCHANGED <<input, tokens, word, phase>>

\* skip_comment: up to a newline, and past it.
SkipComment ==
    /\ Lexing({";"})
    /\ LET newlines == {k \in at..Len(input) : input[k] = Newline}
       IN  at' = IF newlines = {} THEN Len(input) + 1
                 ELSE (CHOOSE k \in newlines : \A l \in newlines : k <= l) + 1
    /\ UNCHANGED <<input, tokens, word, phase>>

StringLiteral ==
    /\ Lexing({Quote})
    /\ LET quotes == {k \in (at + 1)..Len(input) : input[k] = Quote}
           close == CHOOSE k \in quotes : \A l \in quotes : k <= l
       IN  IF quotes = {} THEN Return(at, LexerError("UnclosedQuote"), Len(input) + 1)
           ELSE Return(at, [k |-> "Literal", value |-> SubSeq(input, at + 1, close - 1)], close + 1)

\* The last arm of next_token: every character that no other arm takes starts a word.
WordChars == STRING \ (Whitespace \cup Brackets \cup {";", Quote})

\* string_to_token: keywords, error descriptors, and words for the variable parser.
Word ==
    /\ Lexing(WordChars)
    /\ LET end == TokenEnd(at)
           text == SubSeq(input, at, end)
       IN  CASE IsKeyword(text) -> Return(at, KeywordToken(text), end + 1)
             [] IsPrefix(ERROR, text) -> Return(at, parse_error(text, ERROR, "Error"), end + 1)
             [] IsPrefix(LAST_ERROR, text) ->
                    Return(at, parse_error(text, LAST_ERROR, "LastError"), end + 1)
             [] OTHER -> /\ word' = NewVariableParser(text)
                         /\ phase' = "variable"
                         /\ UNCHANGED <<input, at, tokens>>

\* A turn of the loop of try_parse: a character, then next_char.
VariableChar ==
    /\ phase = "variable"
    /\ word.error = "none"
    /\ word.current_offset < Len(word.text)
    /\ LET v == IF ~word.non_numeric_met THEN try_parse_as_number(word) ELSE try_parse_as_variable(word)
       IN  word' = [v EXCEPT !.current_offset = @ + 1]
    /\ UNCHANGED <<input, at, tokens, phase>>

VariableEnd ==
    /\ phase = "variable"
    /\ word.error # "none" \/ word.current_offset = Len(word.text)
    /\ Return(at, to_token(word), at + Len(word.text))

EndOfInput ==
    /\ phase = "lexing"
    /\ at > Len(input)
    /\ phase' = "done"
    /\ UNCHANGED <<input, at, tokens, word>>

Next ==
    \/ Bracket \/ SkipWhitespace \/ SkipComment \/ StringLiteral
    \/ Word \/ VariableChar \/ VariableEnd \/ EndOfInput

Spec == Init /\ [][Next]_vars

------------------------------------------------------------------------------
(* Properties. *)

\* A stretch of the text with nothing but whitespace and comments.
IsBlank(i, j) ==
    \A k \in i..(j - 1) :
        \/ input[k] \in Whitespace
        \/ \E c \in i..k : input[c] = ";" /\ \A l \in c..(k - 1) : input[l] # Newline

\* A word: no whitespace in it, no bracket closed that it does not open, and the
\* longest such stretch.
IsWord(l, r) ==
    /\ \A k \in (l + 1)..(r - 1) : ~StopsAt(l, k)
    /\ r = Len(input) + 1 \/ StopsAt(l, r)

\* What a token is: a bracket, a quoted literal or a whole word; an unclosed quote is an
\* error.
IsToken(t) ==
    CASE input[t.l] \in Brackets -> t.r = t.l + 1
      [] input[t.l] = Quote -> /\ \A k \in (t.l + 1)..(t.r - 2) : input[k] # Quote
                               /\ IsError(t.token) \/ input[t.r - 1] = Quote
      [] OTHER -> IsWord(t.l, t.r)

\* Where the first i tokens end.
EndOf(i) == IF i = 0 THEN 1 ELSE tokens[i].r

\* The tokens tile the text: they come in order, what is between them is blank, none is
\* empty, and each is a token as a whole; when the lexer is done without an error, all of
\* the text was read.
TokensTileTheText ==
    /\ \A i \in DOMAIN tokens :
          LET t == tokens[i]
          IN  /\ EndOf(i - 1) <= t.l /\ t.l < t.r /\ t.r <= Len(input) + 1
              /\ IsBlank(EndOf(i - 1), t.l)
              /\ IsToken(t)
    /\ phase = "lexing" => IsBlank(EndOf(Len(tokens)), at)
    /\ phase = "done" /\ (tokens = <<>> \/ ~IsError(Last(tokens).token)) => at = Len(input) + 1
=============================================================================
