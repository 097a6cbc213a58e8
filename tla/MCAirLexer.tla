---------------------------- MODULE MCAirLexer ----------------------------
(* Texts for AirLexer. *)
EXTENDS AirWords

\* The lengths up to which texts are enumerated.
CONSTANTS MaxText, MaxWord, MaxPath

Texts(chars, n) == UNION {[1..k -> chars] : k \in 0..n}

\* Every short text over one character of each class of the lexer.
Separators == {" ", Newline, ";", Quote, "(", ")", "[", "]", "a", "."}
Scripts == Texts(Separators, MaxText)

\* Every short word over one character of each class of the variable parser.
Words == Texts({"a", "1", "-", "+", ".", "$", "#", "%", "!", "^"}, MaxWord)

\* Characters that the other texts do not have: capitals, a tab, and one that belongs to no
\* name, at the start, in the middle and at the end of a word.
RareWords == Texts({"A", "tab", "&"}, 3)

\* Names followed by every short lambda, and long ones.
Names == {<<"a", "b">>, <<"a">>, <<"1", "a">>, <<"$", "s">>, <<"#", "c", "c">>,
          <<"#", "%", "m">>, ERROR, LAST_ERROR}
Lambdas == {<<".", "$">> \o path : path \in Texts({".", "[", "]", "a", "1", "!"}, MaxPath)}
Path == <<".", "$", ".", "a", "!", "[", "1", "]", ".", "[", "b", "]">>
LongLambdas == {Path, Path \o <<"!">>, Path \o <<".", "a">>, Path \o <<".", "?">>,
                <<".", "$", "$", ".", "a">>, LENGTH_FUNCTOR, LENGTH_FUNCTOR \o <<"a">>}
               \cup {<<".", "$", ".", "[">> \o n \o <<"]">> :
                        n \in {U32Max, [U32Max EXCEPT ![10] = "6"], <<"0">> \o U32Max}}
LambdaWords == {<<"a", "b">> \o l : l \in Lambdas} \cup {n \o l : n \in Names, l \in LongLambdas}

Numbers == {<<"+">> \o I64Max, [I64Max EXCEPT ![19] = "8"], <<"-">> \o I64MinMagnitude,
            <<"-">> \o [I64Max EXCEPT ![19] = "9"], <<"0">> \o I64Max,
            [i \in 1..11 |-> IF i = 3 THEN "." ELSE "1"], [i \in 1..12 |-> IF i = 3 THEN "." ELSE "1"]}

KeywordTexts == {kw[1] : kw \in Keywords} \cup {ERROR, LAST_ERROR}
KeywordWords == KeywordTexts \cup {kw \o <<"a">> : kw \in KeywordTexts}
                \cup {kw \o <<".", "$", ".", "a">> : kw \in KeywordTexts}

\* A whole call: (call %init_peer_id% ("a" "b") [x.$.[1] #ca]) ; end
Call == <<"(", "c", "a", "l", "l", " ">> \o
        <<"%", "i", "n", "i", "t", "_", "p", "e", "e", "r", "_", "i", "d", "%", " ", "(">> \o
        <<Quote, "a", " ", "b", Quote, " ", Quote, Quote, ")", " ", "[">> \o
        <<"x", ".", "$", ".", "[", "1", "]", " ", "#", "c", "a", "]", ")", ";", "x", Newline, " ">>

MCInputs == Scripts \cup Words \cup RareWords \cup LambdaWords \cup Numbers \cup KeywordWords \cup {Call}
=============================================================================
