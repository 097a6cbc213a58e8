------------------------------ MODULE AirWords ------------------------------
(***************************************************************************)
(* What the words of a script mean, as conditions on the whole word, and    *)
(* that AirLexer with the lambda parser reads them so.                     *)
(***************************************************************************)
EXTENDS AirLexer, LambdaParser

RECURSIVE Spelled(_)
\* The accessors that a text spells, as a set with one list or none.
Spelled(text) ==
    LET Number(s) == s # <<>> /\ Range(s) \subseteq Digits /\ AtMost(s, U32Max)
        Name(s) == s # <<>> /\ Range(s) \subseteq is_air_alphanumeric /\ Head(s) \notin Digits
        Accessor(piece) ==
            LET flat == IF Last(piece) = "!" THEN Front(piece) ELSE piece
                bare == IF flat # <<>> /\ Head(flat) = "." THEN Tail(flat) ELSE flat
                bracketed == Len(bare) > 2 /\ Head(bare) = "[" /\ Last(bare) = "]"
                inner == SubSeq(bare, 2, Len(bare) - 1)
            IN  CASE bracketed /\ Number(inner) -> {ArrayAccess(inner)}
                  [] bracketed /\ Name(inner) -> {FieldAccessByScalar(inner)}
                  [] bare # flat /\ Name(bare) -> {FieldAccessByName(bare)}
                  [] OTHER -> {}
    IN  IF text = <<>> THEN {<<>>}
        ELSE UNION {{<<acc>> \o rest : acc \in Accessor(SubSeq(text, 1, n)),
                                       rest \in Spelled(SubSeq(text, n + 1, Len(text)))} :
                       n \in {m \in 1..Len(text) : Accessor(SubSeq(text, 1, m)) # {}}}

\* The lambdas a text is: one or none.
LambdasOf(text) ==
    IF text = LENGTH_FUNCTOR THEN {Functor}
    ELSE IF ~IsPrefix(VALUE_PATH_STARTER, text) THEN {}
    ELSE {ValuePath(path) : path \in Spelled(SubSeq(text, 3, Len(text))) \ {<<>>}}

IsNumeral(text) ==
    LET n == IF text # <<>> /\ Head(text) \in {"-", "+"} THEN Tail(text) ELSE text
    IN  Range(n) \subseteq Digits

\* The kind of a variable by the tags of its name.  A percent sign in second place counts
\* as the tag of a canonicalized map whatever is before it.
KindOf(name) ==
    CASE Len(name) > 1 /\ name[2] = "%" -> "CanonStreamMap"
      [] name[1] = "$" -> "Stream"
      [] name[1] = "%" -> "StreamMap"
      [] name[1] = "#" -> "CanonStream"
      [] OTHER -> "Scalar"

TagsOf(name) ==
    CASE Len(name) > 1 /\ (name[2] = "%" \/ (name[1] = "#" /\ name[2] = "$")) -> 2
      [] name[1] \in {"$", "#", "%"} -> 1
      [] OTHER -> 0

IsName(name) ==
    /\ name # <<>>
    /\ name[1] \in is_air_alphanumeric \cup {"+", "$", "#", "%"}
    /\ \A i \in 2..Len(name) : name[i] \in is_air_alphanumeric \/ i <= TagsOf(name)
    /\ ~IsNumeral(name)
    /\ Len(name) > TagsOf(name)

\* The tokens a word stands for: one, or none when it is an error.  Behind tags a lambda
\* needs a name that ends at the third character or later.
TokensOf(text) ==
    LET dots == {i \in DOMAIN text : text[i] = "."}
        dot == CHOOSE i \in dots : \A j \in dots : i <= j
        name == IF dots = {} THEN text ELSE SubSeq(text, 1, dot - 1)
        rest == SubSeq(text, Len(name) + 1, Len(text))
        Described(prefix, k) ==
            IF text = prefix THEN {Tok(k)}
            ELSE {[k |-> k \o "WithLambda", lambda |-> l] :
                     l \in LambdasOf(SubSeq(text, Len(prefix) + 1, Len(text)))}
    IN  CASE IsKeyword(text) -> {KeywordToken(text)}
          [] IsPrefix(ERROR, text) -> Described(ERROR, "Error")
          [] IsPrefix(LAST_ERROR, text) -> Described(LAST_ERROR, "LastError")
          [] dots = {} /\ IsNumeral(text) -> IF ParseI64(text) THEN {[k |-> "I64", value |-> text]} ELSE {}
          [] dots # {} /\ IsNumeral(name) ->
                IF /\ Range(name) \cap Digits # {} /\ Range(Tail(rest)) \subseteq Digits
                   /\ Len(text) <= SAFE_FLOAT_SIGNIFICAND_SIZE
                THEN {[k |-> "F64", value |-> text]} ELSE {}
          [] dots = {} /\ IsName(text) -> {[k |-> KindOf(text), name |-> text]}
          [] dots # {} /\ IsName(name) /\ (TagsOf(name) > 0 => Len(name) > 2)
             /\ \A i \in 1..(Len(rest) - 1) : rest[i] # "!" ->
                {[k |-> KindOf(name) \o "WithLambda", name |-> name, lambda |-> l] :
                    l \in LambdasOf(rest)}
          [] OTHER -> {}

------------------------------------------------------------------------------
(* Properties. *)

\* Reading a word character by character, with the guesses between numbers and variables
\* that it revises on the way, gives the token that the word as a whole stands for, its
\* kind, its name and its lambda; and an error exactly when it stands for none.  Reductions
\* behind an error recovery never meet a symbol of another type (__symbol_type_mismatch).
WordsAreRead ==
    \A i \in DOMAIN tokens :
        LET t == tokens[i]
            meant == TokensOf(SubSeq(input, t.l, t.r - 1))
        IN  input[t.l] \in WordChars =>
                IF IsError(t.token) THEN meant = {} /\ t.token.error # "panic"
                ELSE meant = {t.token}
=============================================================================
