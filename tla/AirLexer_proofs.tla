--------------------------- MODULE AirLexer_proofs ---------------------------
(***************************************************************************)
(* The AIR lexer cuts every text into whole tokens, whatever the lambda     *)
(* parser answers.                                                         *)
(***************************************************************************)
EXTENDS AirLexer, SequenceTheorems, WellFoundedInduction, TLAPS

\* The variable parser at work on a text.
Reads(v, text) ==
    /\ v = [f \in DOMAIN v |-> v[f]]
    /\ "text" \in DOMAIN v
    /\ v.text = text

\* The tokens are a sequence, of whatever the lambda parser makes of lambdas.
TypeInv ==
    /\ input \in Seq(STRING)
    /\ at \in 1 .. Len(input) + 1
    /\ tokens \in Seq({tokens[i] : i \in DOMAIN tokens})
    /\ \A i \in DOMAIN tokens : tokens[i].l \in Nat /\ tokens[i].r \in Nat
    /\ phase \in {"lexing", "variable", "done"}

\* While the variable parser reads a word, the lexer stands at its start.
WordInv ==
    phase = "variable" =>
        /\ at <= Len(input) /\ input[at] \in WordChars
        /\ Reads(word, SubSeq(input, at, TokenEnd(at)))
        /\ IsBlank(EndOf(Len(tokens)), at)

\* The first part of TokensTileTheText, about the tokens alone.
Tiling ==
    \A i \in DOMAIN tokens :
        /\ EndOf(i - 1) <= tokens[i].l /\ tokens[i].l < tokens[i].r /\ tokens[i].r <= Len(input) + 1
        /\ IsBlank(EndOf(i - 1), tokens[i].l)
        /\ IsToken(tokens[i])

LexerInv ==
    /\ TypeInv
    /\ WordInv
    /\ EndOf(Len(tokens)) <= at
    /\ TokensTileTheText

------------------------------------------------------------------------------
(* Places in a text. *)

\* A set of places has a first one.
LEMMA FirstPlace ==
  ASSUME NEW S \in SUBSET Nat, S # {}
  PROVE  LET m == CHOOSE k \in S : \A l \in S : k <= l IN m \in S /\ \A l \in S : m <= l
<1>1. \E k \in S : \A l \in S : ~(<<l, k>> \in OpToRel(<, Nat))
  BY NatLessThanWellFounded, WFMin
<1>2. PICK k \in S : \A l \in S : ~(<<l, k>> \in OpToRel(<, Nat))
  BY <1>1
<1>3. \A l \in S : ~(l < k)
  BY <1>2 DEF OpToRel
<1>4. \A l \in S : k <= l
  BY <1>3
<1>5. QED
  BY <1>4

\* advance_to_token_end finds the end of the word.
LEMMA TokenEndFacts ==
  ASSUME input \in Seq(STRING), NEW i \in 1 .. Len(input)
  PROVE  /\ TokenEnd(i) \in i .. Len(input)
         /\ IsWord(i, TokenEnd(i) + 1)
<1> DEFINE stops == {k \in (i + 1) .. Len(input) : StopsAt(i, k)}
           first == CHOOSE k \in stops : \A l \in stops : k <= l
<1>1. Len(input) \in Nat /\ i \in Nat
  OBVIOUS
<1>2. CASE stops = {}
  <2>1. TokenEnd(i) = Len(input)
    BY <1>2 DEF TokenEnd
  <2>2. \A k \in (i + 1) .. Len(input) : ~StopsAt(i, k)
    BY <1>2
  <2>3. Len(input) + 1 - 1 = Len(input)
    BY <1>1
  <2>4. QED
    BY <1>1, <2>1, <2>2, <2>3 DEF IsWord
<1>3. CASE stops # {}
  <2>1. TokenEnd(i) = first - 1
    BY <1>3 DEF TokenEnd
  <2>2. stops \in SUBSET Nat
    BY <1>1
  <2>3. \A k \in stops : k \in (i + 1) .. Len(input) /\ StopsAt(i, k)
    OBVIOUS
  <2>4. \A k \in (i + 1) .. Len(input) : k \notin stops => ~StopsAt(i, k)
    OBVIOUS
  <2> HIDE DEF stops
  <2>5. first \in stops /\ \A l \in stops : first <= l
    BY <1>3, <2>2, FirstPlace
  <2> HIDE DEF first
  <2>6. first \in (i + 1) .. Len(input) /\ StopsAt(i, first) /\ first \in Nat
    BY <1>1, <2>3, <2>5
  <2>7. first - 1 + 1 = first /\ first - 1 \in i .. Len(input)
    BY <1>1, <2>6
  <2>8. ASSUME NEW k \in (i + 1) .. (first - 1) PROVE ~StopsAt(i, k)
    <3>1. k \in (i + 1) .. Len(input) /\ ~(first <= k)
      BY <1>1, <2>6
    <3>2. QED
      BY <2>4, <2>5, <3>1
  <2>9. QED
    BY <2>1, <2>6, <2>7, <2>8 DEF IsWord
<1>4. QED
  BY <1>2, <1>3

\* Before a place or from it on.
LEMMA TwoStretches ==
  \A i, j, n \in Nat : \A k \in i .. n - 1 : i <= j /\ j <= n =>
      k \in i .. j - 1 \/ (k \in j .. n - 1 /\ j \in i .. k)
OBVIOUS

\* Place k is in the whitespace or in the comment that begins at j.
Skipped(j, k) ==
    \/ input[k] \in Whitespace
    \/ input[j] = ";" /\ \A l \in j .. k - 1 : input[l] # Newline

\* A blank stretch that goes on with whitespace, or with a comment.
LEMMA BlankGoesOn ==
  ASSUME NEW i \in Nat, NEW j \in Nat, NEW n \in Nat, IsBlank(i, j), i <= j, j <= n,
         \A k \in j .. n - 1 : Skipped(j, k)
  PROVE  IsBlank(i, n)
<1>1. SUFFICES ASSUME NEW k \in i .. n - 1
               PROVE  \/ input[k] \in Whitespace
                      \/ \E c \in i .. k : input[c] = ";" /\ \A l \in c .. k - 1 : input[l] # Newline
  BY DEF IsBlank
<1>2. k \in i .. j - 1 \/ (k \in j .. n - 1 /\ j \in i .. k)
  BY <1>1, TwoStretches, Zenon
<1>3. CASE k \in i .. j - 1
  BY <1>3, Zenon DEF IsBlank
<1>4. CASE k \in j .. n - 1 /\ j \in i .. k
  BY <1>4, Zenon DEF Skipped
<1>5. QED
  BY <1>2, <1>3, <1>4, Zenon

------------------------------------------------------------------------------
(* A token is returned. *)

LEMMA AppendToken ==
  ASSUME NEW ts, NEW t, ts \in Seq({ts[i] : i \in DOMAIN ts})
  PROVE  LET a == Append(ts, t) IN
         /\ a \in Seq({a[i] : i \in DOMAIN a})
         /\ Len(ts) \in Nat /\ DOMAIN ts = 1 .. Len(ts)
         /\ Len(a) = Len(ts) + 1 /\ DOMAIN a = 1 .. Len(ts) + 1 /\ a # <<>>
         /\ a[Len(ts) + 1] = t /\ Last(a) = t
         /\ \A i \in 1 .. Len(ts) : a[i] = ts[i]
<1> DEFINE S == {ts[i] : i \in DOMAIN ts} \cup {t}
           a == Append(ts, t)
<1>1. ts \in Seq(S) /\ t \in S
  <2>1. /\ ts \in Seq({ts[i] : i \in DOMAIN ts}) /\ DOMAIN ts = 1 .. Len(ts) /\ Len(ts) \in Nat
    OBVIOUS
  <2>2. \A i \in 1 .. Len(ts) : ts[i] \in S
    BY <2>1
  <2> HIDE DEF S
  <2>3. ts \in Seq(S)
    BY <2>1, <2>2
  <2>4. QED
    BY <2>3 DEF S
<1> HIDE DEF S
<1>2. /\ a \in Seq(S) /\ Len(ts) \in Nat /\ DOMAIN ts = 1 .. Len(ts)
      /\ Len(a) = Len(ts) + 1 /\ DOMAIN a = 1 .. Len(ts) + 1
      /\ a[Len(ts) + 1] = t /\ \A i \in 1 .. Len(ts) : a[i] = ts[i]
  BY <1>1
<1> HIDE DEF a
<1>3. Last(a) = t /\ a # <<>>
  BY <1>2 DEF Last
<1>4. a \in Seq({a[i] : i \in DOMAIN a})
  <2> DEFINE T == {a[i] : i \in DOMAIN a}
  <2>1. \A i \in 1 .. Len(a) : a[i] \in T
    BY <1>2
  <2> HIDE DEF T
  <2>2. a \in Seq(T)
    BY <1>2, <2>1
  <2>3. QED
    BY <2>2 DEF T
<1>5. QED
  BY <1>2, <1>3, <1>4 DEF a

\* The text stays: what was blank, a word or a token still is.
LEMMA TextStays ==
  ASSUME UNCHANGED input
  PROVE  /\ \A i, j : IsBlank(i, j)' <=> IsBlank(i, j)
         /\ \A t : IsToken(t)' <=> IsToken(t)
         /\ \A i : TokenEnd(i)' = TokenEnd(i)
<1>1. \A ch, i, j : Count(ch, i, j)' = Count(ch, i, j)
  BY DEF Count
<1>2. \A i, k : StopsAt(i, k)' <=> StopsAt(i, k)
  BY <1>1 DEF StopsAt
<1>3. \A i, j : IsWord(i, j)' <=> IsWord(i, j)
  BY <1>2 DEF IsWord
<1>4. \A i, j : IsBlank(i, j)' <=> IsBlank(i, j)
  BY DEF IsBlank
<1>5. \A t : IsToken(t)' <=> IsToken(t)
  BY <1>3, Zenon DEF IsToken
<1>6. ASSUME NEW i PROVE TokenEnd(i)' = TokenEnd(i)
  <2> DEFINE stops == {k \in (i + 1) .. Len(input) : StopsAt(i, k)}
  <2>1. stops' = stops
    BY <1>2
  <2>2. /\ TokenEnd(i) = IF stops = {} THEN Len(input)
                        ELSE (CHOOSE k \in stops : \A l \in stops : k <= l) - 1
        /\ TokenEnd(i)' = IF stops' = {} THEN Len(input')
                         ELSE (CHOOSE k \in stops' : \A l \in stops' : k <= l) - 1
    BY Zenon DEF TokenEnd
  <2>3. input' = input
    OBVIOUS
  <2> HIDE DEF stops
  <2>4. QED
    BY <2>1, <2>2, <2>3
<1>7. QED
  BY <1>4, <1>5, <1>6

\* next_token returns what stands at the lexer's place.
LEMMA ReturnStep ==
  ASSUME LexerInv, NEW token, NEW r \in Nat, at < r, r <= Len(input) + 1,
         IsBlank(EndOf(Len(tokens)), at),
         IsToken(Spanned(at, token, r)),
         Return(at, token, r)
  PROVE  LexerInv'
<1> DEFINE t == Spanned(at, token, r)
<1>1. /\ t.l = at /\ t.r = r /\ t.token = token
      /\ at \in Nat /\ Len(input) \in Nat /\ input \in Seq(STRING)
      /\ tokens \in Seq({tokens[i] : i \in DOMAIN tokens})
      /\ \A i \in DOMAIN tokens : tokens[i].l \in Nat /\ tokens[i].r \in Nat
  BY DEF Spanned, LexerInv, TypeInv
<1>2. /\ input' = input /\ at' = r /\ tokens' = Append(tokens, t)
      /\ phase' = IF IsError(token) THEN "done" ELSE "lexing"
  BY DEF Return
<1>3. IsToken(t)
  OBVIOUS
<1> HIDE DEF t
<1>4. /\ tokens' \in Seq({tokens'[i] : i \in DOMAIN tokens'})
      /\ Len(tokens) \in Nat /\ DOMAIN tokens = 1 .. Len(tokens)
      /\ Len(tokens') = Len(tokens) + 1 /\ DOMAIN tokens' = 1 .. Len(tokens) + 1
      /\ tokens' # <<>> /\ tokens'[Len(tokens) + 1] = t /\ Last(tokens') = t
      /\ \A i \in 1 .. Len(tokens) : tokens'[i] = tokens[i]
  <2>1. PICK ts : ts = tokens
    OBVIOUS
  <2>2. ts \in Seq({ts[i] : i \in DOMAIN ts}) /\ tokens' = Append(ts, t)
    BY <1>1, <1>2, <2>1, Zenon
  <2>3. LET a == Append(ts, t) IN
         /\ a \in Seq({a[i] : i \in DOMAIN a})
         /\ Len(ts) \in Nat /\ DOMAIN ts = 1 .. Len(ts)
         /\ Len(a) = Len(ts) + 1 /\ DOMAIN a = 1 .. Len(ts) + 1 /\ a # <<>>
         /\ a[Len(ts) + 1] = t /\ Last(a) = t
         /\ \A i \in 1 .. Len(ts) : a[i] = ts[i]
    BY <2>2, AppendToken, Zenon
  <2>4. QED
    BY <2>1, <2>2, <2>3, Zenon
<1>5. TypeInv'
  <2>1. \A i \in DOMAIN tokens' : i \in DOMAIN tokens \/ i = Len(tokens) + 1
    BY <1>4
  <2>2. \A i \in DOMAIN tokens' : tokens'[i].l \in Nat /\ tokens'[i].r \in Nat
    BY <1>1, <1>4, <2>1
  <2>3. r \in 1 .. Len(input) + 1
    BY <1>1
  <2>4. QED
    BY <1>1, <1>2, <1>4, <2>2, <2>3 DEF TypeInv
<1>6. WordInv'
  BY <1>2 DEF WordInv
<1>7. \A i \in 0 .. Len(tokens) : EndOf(i)' = EndOf(i)
  BY <1>4 DEF EndOf
<1>8. EndOf(Len(tokens))' = r
  BY <1>1, <1>4 DEF EndOf
<1>9. TokensTileTheText'
  <2>1. ASSUME NEW i \in DOMAIN tokens'
        PROVE  /\ EndOf(i - 1)' <= tokens'[i].l /\ tokens'[i].l < tokens'[i].r
               /\ tokens'[i].r <= Len(input') + 1
               /\ IsBlank(EndOf(i - 1), tokens[i].l)'
               /\ IsToken(tokens[i])'
    <3>1. CASE i \in 1 .. Len(tokens)
      <4>1. i - 1 \in 0 .. Len(tokens) /\ tokens'[i] = tokens[i] /\ i \in DOMAIN tokens
        BY <1>4, <3>1
      <4>2. /\ EndOf(i - 1) <= tokens[i].l /\ tokens[i].l < tokens[i].r
            /\ tokens[i].r <= Len(input) + 1
            /\ IsBlank(EndOf(i - 1), tokens[i].l)
            /\ IsToken(tokens[i])
        BY <4>1 DEF LexerInv, TokensTileTheText
      <4>3. PICK e, b : e = EndOf(i - 1) /\ b = tokens[i]
        OBVIOUS
      <4>4. IsBlank(e, b.l)' /\ IsToken(b)'
        BY <1>2, <4>2, <4>3, TextStays
      <4>5. e = EndOf(i - 1)' /\ b = tokens'[i]
        BY <1>7, <4>1, <4>3
      <4>6. QED
        BY <1>2, <4>2, <4>3, <4>4, <4>5, Zenon
    <3>2. CASE i = Len(tokens) + 1
      <4>1. i - 1 = Len(tokens) /\ Len(tokens) \in 0 .. Len(tokens) /\ tokens'[i] = t
        BY <1>4, <3>2
      <4>2. EndOf(Len(tokens)) <= at
        BY DEF LexerInv
      <4>3. PICK e, b : e = EndOf(Len(tokens)) /\ b = at
        OBVIOUS
      <4>4. IsBlank(e, b)'
        BY <1>2, <4>3, TextStays
      <4>5. e = EndOf(i - 1)' /\ b = tokens'[i].l
        BY <1>1, <1>7, <4>1, <4>3
      <4>6. PICK x : x = t
        OBVIOUS
      <4>7. IsToken(x)'
        BY <1>2, <1>3, <4>6, TextStays
      <4>8. IsToken(tokens[i])'
        BY <4>1, <4>6, <4>7, Zenon
      <4>9. IsBlank(EndOf(i - 1), tokens[i].l)'
        BY <4>4, <4>5, Zenon
      <4>10. QED
        BY <1>1, <1>2, <4>1, <4>2, <4>3, <4>5, <4>8, <4>9
    <3>3. QED
      BY <1>4, <3>1, <3>2
  <2>2. IsBlank(EndOf(Len(tokens)), at)'
    <3>1. \A k : k \notin r .. r - 1
      OBVIOUS
    <3>2. IsBlank(r, r)'
      BY <3>1, Zenon DEF IsBlank
    <3>3. QED
      BY <1>2, <1>8, <3>2, Zenon
  <2>3. phase' = "done" => IsError(Last(tokens').token)
    BY <1>1, <1>2, <1>4
  <2>4. QED
    BY <1>4, <2>1, <2>2, <2>3 DEF TokensTileTheText
<1>10. (EndOf(Len(tokens)) <= at)'
  BY <1>2, <1>8
<1>11. QED
  BY <1>5, <1>6, <1>9, <1>10, Zenon DEF LexerInv

------------------------------------------------------------------------------
(* No token is returned. *)

\* What was returned still tiles the text.
LEMMA TokensStay ==
  ASSUME LexerInv, UNCHANGED <<input, tokens>>
  PROVE  Tiling' /\ EndOf(Len(tokens))' = EndOf(Len(tokens))
<1>1. input' = input /\ tokens' = tokens
  OBVIOUS
<1>2. \A i : EndOf(i)' = EndOf(i)
  BY <1>1 DEF EndOf
<1>3. \A i \in DOMAIN tokens :
         /\ EndOf(i - 1) <= tokens[i].l /\ tokens[i].l < tokens[i].r /\ tokens[i].r <= Len(input) + 1
         /\ IsBlank(EndOf(i - 1), tokens[i].l)
         /\ IsToken(tokens[i])
  BY Zenon DEF LexerInv, TokensTileTheText
<1>4. ASSUME NEW i \in DOMAIN tokens
      PROVE  IsBlank(EndOf(i - 1), tokens[i].l)' /\ IsToken(tokens[i])'
  <2>1. PICK e, b : e = EndOf(i - 1) /\ b = tokens[i]
    OBVIOUS
  <2>2. IsBlank(e, b.l)' /\ IsToken(b)'
    BY <1>1, <1>3, <2>1, TextStays
  <2>3. e = EndOf(i - 1)' /\ b = tokens'[i]
    BY <1>1, <1>2, <2>1
  <2>4. QED
    BY <2>2, <2>3, Zenon
<1>5. QED
  BY <1>1, <1>2, <1>3, <1>4 DEF Tiling

\* The lexer goes on without returning a token.
LEMMA NoTokenStep ==
  ASSUME LexerInv, UNCHANGED <<input, tokens>>,
         at' \in at .. Len(input) + 1,
         phase' \in {"lexing", "variable", "done"},
         WordInv',
         phase' = "lexing" => IsBlank(EndOf(Len(tokens)), at)',
         phase' = "done" => at' = Len(input) + 1
  PROVE  LexerInv'
<1>1. input' = input /\ tokens' = tokens
  OBVIOUS
<1>2. Tiling' /\ EndOf(Len(tokens))' = EndOf(Len(tokens))
  BY TokensStay
<1>3. TokensTileTheText'
  BY <1>1, <1>2 DEF Tiling, TokensTileTheText
<1>4. /\ at \in 1 .. Len(input) + 1 /\ Len(input) \in Nat
      /\ EndOf(Len(tokens)) <= at /\ EndOf(Len(tokens)) \in Nat
  BY DEF LexerInv, TypeInv, EndOf
<1>5. at' \in 1 .. Len(input) + 1 /\ EndOf(Len(tokens)) <= at'
  BY <1>4
<1>6. TypeInv'
  BY <1>1, <1>5 DEF LexerInv, TypeInv
<1>7. (EndOf(Len(tokens)) <= at)'
  BY <1>2, <1>5
<1>8. QED
  BY <1>3, <1>6, <1>7, Zenon DEF LexerInv

\* The lexer skips whitespace or a comment.
LEMMA SkipStep ==
  ASSUME LexerInv, phase = "lexing", UNCHANGED <<input, tokens, word, phase>>,
         at' \in at .. Len(input) + 1,
         \A k \in at .. at' - 1 : Skipped(at, k)
  PROVE  LexerInv'
<1>1. PICK i, j, n : i = EndOf(Len(tokens)) /\ j = at /\ n = at'
  OBVIOUS
<1>2. /\ IsBlank(i, j) /\ i <= j /\ i \in Nat /\ j \in Nat /\ n \in Nat /\ j <= n
      /\ n <= Len(input) + 1 /\ Len(input) \in Nat
  <2>1. IsBlank(EndOf(Len(tokens)), at) /\ EndOf(Len(tokens)) <= at
    BY DEF LexerInv, TokensTileTheText
  <2>2. EndOf(Len(tokens)) \in Nat /\ at \in Nat /\ Len(input) \in Nat
    BY DEF LexerInv, TypeInv, EndOf
  <2>3. QED
    BY <1>1, <2>1, <2>2
<1>3. IsBlank(i, n)
  BY <1>1, <1>2, BlankGoesOn
<1>4. IsBlank(i, n)'
  BY <1>3, TextStays
<1>5. EndOf(Len(tokens))' = i
  BY <1>1, TokensStay
<1>6. IsBlank(EndOf(Len(tokens)), at)'
  BY <1>1, <1>4, <1>5, Zenon
<1>7. WordInv'
  BY DEF WordInv
<1>8. QED
  BY <1>6, <1>7, NoTokenStep

------------------------------------------------------------------------------
(* The variable parser reads a word and leaves it as it is. *)

LEMMA WordErrors ==
  ASSUME NEW v, NEW text, Reads(v, text), NEW e
  PROVE  Reads(WithWordError(v, e), text)
BY DEF Reads, WithWordError

LEMMA FirstDotReads ==
  ASSUME NEW v, NEW text, Reads(v, text)
  PROVE  Reads(FirstDot(v), text)
<1>1. Reads([v EXCEPT !.first_dot_met_pos = v.current_offset], text)
  BY DEF Reads
<1>2. \/ FirstDot(v) = WithWordError(v, "LeadingDot")
      \/ FirstDot(v) = WithWordError(v, "EmptyCanonName")
      \/ FirstDot(v) = [v EXCEPT !.first_dot_met_pos = v.current_offset]
  BY DEF FirstDot
<1>3. QED
  BY <1>1, <1>2, WordErrors, Zenon

LEMMA VariableReads ==
  ASSUME NEW v, NEW text, Reads(v, text)
  PROVE  Reads(try_parse_as_variable(v), text)
<1> DEFINE ch == CurrentChar(v)
           canon == DeduceTag(v.met_tag, ch)
<1>1. \A tag : Reads([v EXCEPT !.met_tag = tag], text)
  BY DEF Reads
<1>2. \/ try_parse_as_variable(v) = WithWordError(v, "EmptyCanonName")
      \/ try_parse_as_variable(v) = WithWordError(v, "EmptyTaggedName")
      \/ try_parse_as_variable(v) = WithWordError(v, "InvalidLambda")
      \/ try_parse_as_variable(v) = WithWordError(v, "IsNotAlphanumeric")
      \/ try_parse_as_variable(v) = [v EXCEPT !.met_tag = canon]
      \/ try_parse_as_variable(v) = [v EXCEPT !.met_tag = FromTag(ch)]
      \/ try_parse_as_variable(v) = FirstDot(v)
      \/ try_parse_as_variable(v) = v
  BY DEF try_parse_as_variable
<1> HIDE DEF ch, canon
<1>3. \A e : Reads(WithWordError(v, e), text)
  BY WordErrors, Zenon
<1>4. Reads(FirstDot(v), text)
  BY FirstDotReads, Zenon
<1>5. QED
  BY <1>1, <1>2, <1>3, <1>4

LEMMA NumberReads ==
  ASSUME NEW v, NEW text, Reads(v, text)
  PROVE  Reads(try_parse_as_number(v), text)
<1> DEFINE w == [v EXCEPT !.non_numeric_met = TRUE]
<1>1. Reads(w, text) /\ Reads([v EXCEPT !.digit_met = TRUE], text)
  BY DEF Reads
<1>2. \/ try_parse_as_number(v) = v
      \/ try_parse_as_number(v) = [v EXCEPT !.digit_met = TRUE]
      \/ try_parse_as_number(v) = WithWordError(v, "LeadingDot")
      \/ try_parse_as_number(v) = FirstDot(v)
      \/ try_parse_as_number(v) = WithWordError(v, "UnallowedCharInNumber")
      \/ try_parse_as_number(v) = try_parse_as_variable(w)
  BY DEF try_parse_as_number
<1> HIDE DEF w
<1>3. \A e : Reads(WithWordError(v, e), text)
  BY WordErrors, Zenon
<1>4. Reads(FirstDot(v), text) /\ Reads(try_parse_as_variable(w), text)
  BY <1>1, FirstDotReads, VariableReads, Zenon
<1>5. QED
  BY <1>1, <1>2, <1>3, <1>4

------------------------------------------------------------------------------
(* The actions. *)

\* Where the lexer stands, and what can begin there.
LEMMA Here ==
  ASSUME LexerInv, NEW chars, Lexing(chars)
  PROVE  /\ at \in 1 .. Len(input) /\ at \in Nat /\ Len(input) \in Nat /\ input \in Seq(STRING)
         /\ input[at] \in chars
         /\ IsBlank(EndOf(Len(tokens)), at)
<1>1. phase = "lexing" /\ at <= Len(input) /\ input[at] \in chars
  BY DEF Lexing
<1>2. at \in 1 .. Len(input) + 1 /\ input \in Seq(STRING) /\ Len(input) \in Nat
  BY DEF LexerInv, TypeInv
<1>3. IsBlank(EndOf(Len(tokens)), at)
  BY <1>1 DEF LexerInv, TokensTileTheText
<1>4. QED
  BY <1>1, <1>2, <1>3

LEMMA BracketStep ==
  ASSUME LexerInv, Bracket
  PROVE  LexerInv'
<1>1. Lexing(Brackets) /\ Return(at, Tok(input[at]), at + 1)
  BY DEF Bracket
<1>2. /\ at \in 1 .. Len(input) /\ at \in Nat /\ Len(input) \in Nat
      /\ input[at] \in Brackets /\ IsBlank(EndOf(Len(tokens)), at)
  BY <1>1, Here
<1>3. IsToken(Spanned(at, Tok(input[at]), at + 1))
  <2>1. PICK t : t = Spanned(at, Tok(input[at]), at + 1)
    OBVIOUS
  <2>2. t.l = at /\ t.r = at + 1
    BY <2>1 DEF Spanned
  <2>3. input[t.l] \notin {Quote}
    BY <1>2, <2>2, Zenon DEF Brackets, Quote
  <2>4. QED
    BY <1>2, <2>1, <2>2, <2>3 DEF IsToken
<1>4. at + 1 \in Nat /\ at < at + 1 /\ at + 1 <= Len(input) + 1
  BY <1>2
<1>5. QED
  BY <1>1, <1>2, <1>3, <1>4, ReturnStep

LEMMA SkipWhitespaceStep ==
  ASSUME LexerInv, SkipWhitespace
  PROVE  LexerInv'
<1>1. Lexing(Whitespace) /\ at' = at + 1 /\ UNCHANGED <<input, tokens, word, phase>> /\ phase = "lexing"
  BY DEF SkipWhitespace, Lexing
<1>2. at \in 1 .. Len(input) /\ Len(input) \in Nat /\ input[at] \in Whitespace
  BY <1>1, Here
<1>3. at' \in at .. Len(input) + 1 /\ \A k \in at .. at' - 1 : k = at
  BY <1>1, <1>2
<1>4. \A k \in at .. at' - 1 : Skipped(at, k)
  BY <1>2, <1>3, Zenon DEF Skipped
<1>5. QED
  BY <1>1, <1>3, <1>4, SkipStep

LEMMA SkipCommentStep ==
  ASSUME LexerInv, SkipComment
  PROVE  LexerInv'
<1> DEFINE newlines == {k \in at .. Len(input) : input[k] = Newline}
           first == CHOOSE k \in newlines : \A l \in newlines : k <= l
<1>1. PICK semicolon : semicolon = {";"}
  OBVIOUS
<1>2. /\ Lexing(semicolon) /\ UNCHANGED <<input, tokens, word, phase>> /\ phase = "lexing"
      /\ at' = IF newlines = {} THEN Len(input) + 1 ELSE first + 1
  BY <1>1, Zenon DEF SkipComment, Lexing
<1>3. /\ at \in 1 .. Len(input) /\ Len(input) \in Nat /\ at \in Nat
      /\ input[at] \in semicolon
  BY <1>2, Here, Zenon
<1>4. input[at] = ";"
  BY <1>1, <1>3, Zenon
<1>5. \A k \in newlines : k \in at .. Len(input)
  OBVIOUS
<1>6. \A k \in at .. Len(input) : k \notin newlines => input[k] # Newline
  OBVIOUS
<1>7. newlines \in SUBSET Nat
  BY <1>3
<1> HIDE DEF newlines
<1>8. newlines # {} => first \in newlines /\ \A l \in newlines : first <= l
  BY <1>7, FirstPlace
<1> HIDE DEF first
<1>9. at' \in at .. Len(input) + 1
  BY <1>2, <1>3, <1>5, <1>8
<1>10. ASSUME NEW k \in at .. at' - 1, NEW l \in at .. k - 1 PROVE input[l] # Newline
  <2>1. l \in at .. Len(input)
    <3>1. \A i, n, m \in Nat : \A x \in i .. n - 1 : \A y \in i .. x - 1 : n <= m + 1 => y \in i .. m
      OBVIOUS
    <3>2. at' \in Nat /\ at' <= Len(input) + 1
      BY <1>3, <1>9
    <3>3. QED
      BY <1>3, <3>1, <3>2, Zenon
  <2>2. newlines # {} => ~(first <= l)
    BY <1>2, <1>3, <1>5, <1>8
  <2>3. QED
    BY <1>6, <1>8, <2>1, <2>2
<1>11. \A k \in at .. at' - 1 : Skipped(at, k)
  BY <1>4, <1>10, Zenon DEF Skipped
<1>12. QED
  BY <1>2, <1>9, <1>11, SkipStep, Zenon

LEMMA StringLiteralStep ==
  ASSUME LexerInv, StringLiteral
  PROVE  LexerInv'
<1> DEFINE quotes == {k \in (at + 1) .. Len(input) : input[k] = Quote}
           close == CHOOSE k \in quotes : \A l \in quotes : k <= l
           error == LexerError("UnclosedQuote")
           literal == [k |-> "Literal", value |-> SubSeq(input, at + 1, close - 1)]
<1>1. /\ Lexing({Quote})
      /\ IF quotes = {} THEN Return(at, error, Len(input) + 1) ELSE Return(at, literal, close + 1)
  BY Zenon DEF StringLiteral
<1>2. /\ at \in 1 .. Len(input) /\ Len(input) \in Nat /\ at \in Nat /\ input[at] \in {Quote}
      /\ IsBlank(EndOf(Len(tokens)), at)
  BY <1>1, Here
<1>3. IsError(error)
  BY DEF LexerError, IsError
<1>4. \A k \in quotes : k \in (at + 1) .. Len(input) /\ input[k] = Quote
  OBVIOUS
<1>5. \A k \in (at + 1) .. Len(input) : k \notin quotes => input[k] # Quote
  OBVIOUS
<1>6. quotes \in SUBSET Nat
  BY <1>2
<1> HIDE DEF quotes, error, literal
<1>7. quotes # {} => close \in quotes /\ \A l \in quotes : close <= l
  BY <1>6, FirstPlace
<1> HIDE DEF close
<1>8. ASSUME NEW token, NEW r \in Nat,
             \A k \in (at + 1) .. (r - 2) : input[k] # Quote,
             IsError(token) \/ input[r - 1] = Quote
      PROVE  IsToken(Spanned(at, token, r))
  <2>1. PICK t : t = Spanned(at, token, r)
    OBVIOUS
  <2>2. t.l = at /\ t.r = r /\ t.token = token
    BY <2>1 DEF Spanned
  <2>3. input[at] \notin Brackets
    BY <1>2, Zenon DEF Brackets, Quote
  <2>4. QED
    BY <1>2, <1>8, <2>1, <2>2, <2>3 DEF IsToken
<1>9. CASE quotes = {}
  <2>1. Return(at, error, Len(input) + 1)
    BY <1>1, <1>9
  <2>2. \A k \in (at + 1) .. (Len(input) + 1 - 2) : k \in (at + 1) .. Len(input)
    BY <1>2
  <2>3. /\ Len(input) + 1 \in Nat /\ at < Len(input) + 1 /\ Len(input) + 1 <= Len(input) + 1
    BY <1>2
  <2>4. IsToken(Spanned(at, error, Len(input) + 1))
    BY <1>3, <1>5, <1>8, <1>9, <2>2, <2>3
  <2>5. QED
    BY <1>2, <2>1, <2>3, <2>4, ReturnStep
<1>10. CASE quotes # {}
  <2>1. Return(at, literal, close + 1)
    BY <1>1, <1>10
  <2>2. close \in (at + 1) .. Len(input) /\ input[close] = Quote /\ close \in Nat
    BY <1>2, <1>4, <1>7, <1>10
  <2>3. /\ close + 1 \in Nat /\ at < close + 1 /\ close + 1 <= Len(input) + 1
        /\ close + 1 - 1 = close
    BY <1>2, <2>2
  <2>4. \A k \in (at + 1) .. (close + 1 - 2) : k \in (at + 1) .. Len(input) /\ ~(close <= k)
    BY <1>2, <2>2
  <2>5. IsToken(Spanned(at, literal, close + 1))
    BY <1>5, <1>7, <1>8, <1>10, <2>2, <2>3, <2>4
  <2>6. QED
    BY <1>2, <2>1, <2>3, <2>5, ReturnStep
<1>11. QED
  BY <1>9, <1>10

\* A token that is a word.
LEMMA WordToken ==
  ASSUME at \in 1 .. Len(input), input \in Seq(STRING), input[at] \in WordChars, NEW token
  PROVE  /\ IsToken(Spanned(at, token, TokenEnd(at) + 1))
         /\ TokenEnd(at) + 1 \in Nat /\ at < TokenEnd(at) + 1 /\ TokenEnd(at) + 1 <= Len(input) + 1
<1>1. PICK i, e : i = at /\ e = TokenEnd(at)
  OBVIOUS
<1>2. e \in i .. Len(input) /\ IsWord(i, e + 1) /\ i \in Nat /\ Len(input) \in Nat
  BY <1>1, TokenEndFacts
<1>3. PICK t : t = Spanned(at, token, e + 1)
  OBVIOUS
<1>4. t.l = i /\ t.r = e + 1
  BY <1>1, <1>3 DEF Spanned
<1>5. "(" \notin WordChars /\ ")" \notin WordChars /\ "[" \notin WordChars /\ "]" \notin WordChars
  BY Zenon DEF WordChars, Brackets
<1>6. "quote" \notin WordChars
  BY Zenon DEF WordChars, Quote
<1>7. input[t.l] \notin Brackets /\ input[t.l] # Quote
  BY <1>1, <1>4, <1>5, <1>6, Zenon DEF Brackets, Quote
<1>8. IsToken(t)
  BY <1>2, <1>4, <1>7 DEF IsToken
<1>9. QED
  BY <1>1, <1>2, <1>3, <1>8

LEMMA WordStep ==
  ASSUME LexerInv, Word
  PROVE  LexerInv'
<1> DEFINE end == TokenEnd(at)
           text == SubSeq(input, at, end)
<1>1. Lexing(WordChars)
  BY DEF Word
<1>2. /\ at \in 1 .. Len(input) /\ Len(input) \in Nat /\ at \in Nat /\ input \in Seq(STRING)
      /\ input[at] \in WordChars /\ IsBlank(EndOf(Len(tokens)), at)
  BY <1>1, Here
<1>3. \A token : Return(at, token, end + 1) => LexerInv'
  BY <1>2, WordToken, ReturnStep
<1>4. ASSUME word' = NewVariableParser(text), phase' = "variable", UNCHANGED <<input, at, tokens>>
      PROVE  LexerInv'
  <2>1. Reads(word', text)
    BY <1>4 DEF NewVariableParser, Reads
  <2>2. PICK i, j, w : i = EndOf(Len(tokens)) /\ j = at /\ w = word'
    OBVIOUS
  <2>3. IsBlank(i, j)' /\ TokenEnd(j)' = TokenEnd(j)
    BY <1>2, <1>4, <2>2, TextStays
  <2>4. i = EndOf(Len(tokens))' /\ j = at' /\ input' = input
    BY <1>4, <2>2, TokensStay
  <2>5. IsBlank(EndOf(Len(tokens)), at)'
    BY <2>3, <2>4, Zenon
  <2>6. TokenEnd(at)' = end
    BY <2>2, <2>3, <2>4, Zenon
  <2>7. SubSeq(input, at, TokenEnd(at))' = text
    BY <2>2, <2>4, <2>6, Zenon
  <2> HIDE DEF text
  <2>8. WordInv'
    <3>1. (at <= Len(input) /\ input[at] \in WordChars)'
      BY <1>2, <2>2, <2>4
    <3>2. Reads(word, SubSeq(input, at, TokenEnd(at)))'
      BY <2>1, <2>7 DEF Reads
    <3>3. QED
      BY <2>5, <3>1, <3>2 DEF WordInv
  <2>9. at' \in at .. Len(input) + 1
    BY <1>2, <1>4
  <2>10. QED
    BY <1>4, <2>8, <2>9, NoTokenStep
<1>5. \/ \E token : Return(at, token, end + 1)
      \/ word' = NewVariableParser(text) /\ phase' = "variable" /\ UNCHANGED <<input, at, tokens>>
  BY DEF Word
<1>6. QED
  BY <1>3, <1>4, <1>5, Zenon

LEMMA VariableCharStep ==
  ASSUME LexerInv, VariableChar
  PROVE  LexerInv'
<1> DEFINE v == IF ~word.non_numeric_met THEN try_parse_as_number(word) ELSE try_parse_as_variable(word)
           text == SubSeq(input, at, TokenEnd(at))
<1>1. /\ phase = "variable" /\ word' = [v EXCEPT !.current_offset = @ + 1]
      /\ UNCHANGED <<input, at, tokens, phase>>
  BY DEF VariableChar
<1>2. /\ at <= Len(input) /\ input[at] \in WordChars /\ Reads(word, text)
      /\ IsBlank(EndOf(Len(tokens)), at)
  BY <1>1 DEF LexerInv, WordInv
<1>3. Reads(v, text)
  BY <1>2, NumberReads, VariableReads
<1> HIDE DEF v
<1>4. Reads(word', text)
  BY <1>1, <1>3 DEF Reads
<1>5. PICK i, j : i = EndOf(Len(tokens)) /\ j = at
  OBVIOUS
<1>6. IsBlank(i, j)' /\ TokenEnd(j)' = TokenEnd(j)
  BY <1>1, <1>2, <1>5, TextStays
<1>7. i = EndOf(Len(tokens))' /\ j = at' /\ input' = input
  BY <1>1, <1>5, TokensStay
<1>8. IsBlank(EndOf(Len(tokens)), at)'
  BY <1>6, <1>7, Zenon
<1>9. TokenEnd(at)' = TokenEnd(at)
  BY <1>5, <1>6, <1>7, Zenon
<1>10. SubSeq(input, at, TokenEnd(at))' = text
  BY <1>5, <1>7, <1>9, Zenon
<1> HIDE DEF text
<1>11. WordInv'
  <2>1. (at <= Len(input) /\ input[at] \in WordChars)'
    BY <1>1, <1>2
  <2>2. Reads(word, SubSeq(input, at, TokenEnd(at)))'
    BY <1>4, <1>10 DEF Reads
  <2>3. QED
    BY <1>8, <2>1, <2>2 DEF WordInv
<1>12. at' \in at .. Len(input) + 1
  BY <1>1, <1>2 DEF LexerInv, TypeInv
<1>13. QED
  BY <1>1, <1>11, <1>12, NoTokenStep

LEMMA VariableEndStep ==
  ASSUME LexerInv, VariableEnd
  PROVE  LexerInv'
<1>1. phase = "variable" /\ Return(at, to_token(word), at + Len(word.text))
  BY DEF VariableEnd
<1>2. /\ at \in 1 .. Len(input) /\ input \in Seq(STRING) /\ input[at] \in WordChars
      /\ IsBlank(EndOf(Len(tokens)), at)
  BY <1>1 DEF LexerInv, TypeInv, WordInv
<1>3. word.text = SubSeq(input, at, TokenEnd(at))
  BY <1>1 DEF LexerInv, WordInv, Reads
<1>4. PICK i, e : i = at /\ e = TokenEnd(at)
  OBVIOUS
<1>5. i \in 1 .. Len(input) /\ e \in i .. Len(input) /\ Len(input) \in Nat
  BY <1>2, <1>4, TokenEndFacts
<1>6. Len(SubSeq(input, i, e)) = e - i + 1
  BY <1>2, <1>5, SubSeqProperties
<1>7. at + Len(word.text) = TokenEnd(at) + 1
  BY <1>3, <1>4, <1>5, <1>6
<1>8. QED
  BY <1>1, <1>2, <1>7, WordToken, ReturnStep

LEMMA EndOfInputStep ==
  ASSUME LexerInv, EndOfInput
  PROVE  LexerInv'
<1>1. at > Len(input) /\ phase' = "done" /\ UNCHANGED <<input, at, tokens, word>>
  BY DEF EndOfInput
<1>2. at' = Len(input) + 1 /\ at' \in at .. Len(input) + 1
  BY <1>1 DEF LexerInv, TypeInv
<1>3. WordInv'
  BY <1>1 DEF WordInv
<1>4. QED
  BY <1>1, <1>2, <1>3, NoTokenStep

LEMMA StutterStep ==
  ASSUME LexerInv, UNCHANGED vars
  PROVE  LexerInv'
<1>1. input' = input /\ at' = at /\ tokens' = tokens /\ word' = word /\ phase' = phase
  BY DEF vars
<1>2. Tiling' /\ EndOf(Len(tokens))' = EndOf(Len(tokens))
  BY <1>1, TokensStay
<1>3. PICK i, j : i = EndOf(Len(tokens)) /\ j = at
  OBVIOUS
<1>4. i = EndOf(Len(tokens))' /\ j = at' /\ TokenEnd(j)' = TokenEnd(j)
      /\ (IsBlank(i, j)' <=> IsBlank(i, j))
  BY <1>1, <1>2, <1>3, TextStays
<1>5. /\ TokenEnd(at)' = TokenEnd(at)
      /\ IsBlank(EndOf(Len(tokens)), at)' <=> IsBlank(EndOf(Len(tokens)), at)
  BY <1>3, <1>4, Zenon
<1>6. TypeInv'
  BY <1>1 DEF LexerInv, TypeInv
<1>7. WordInv'
  BY <1>1, <1>5 DEF LexerInv, WordInv, Reads
<1>8. TokensTileTheText'
  BY <1>1, <1>2, <1>5 DEF LexerInv, TokensTileTheText, Tiling
<1>9. QED
  BY <1>1, <1>2, <1>6, <1>7, <1>8 DEF LexerInv

------------------------------------------------------------------------------
(* The theorems. *)

\* Whatever the lambda parser answers, and for every text, the lexer stands at a place of
\* the text with nothing but blank text between the last token and it, or at the start of
\* the word that the variable parser reads.
THEOREM LexerInvariant == Spec => []LexerInv
<1>1. Init => LexerInv
  <2>1. SUFFICES ASSUME Init PROVE LexerInv
    OBVIOUS
  <2>2. /\ input \in Seq(STRING) /\ at = 1 /\ tokens = <<>> /\ phase = "lexing"
    BY <2>1, InputsAssumption DEF Init
  <2>3. Len(tokens) = 0 /\ DOMAIN tokens = {} /\ Len(input) \in Nat
    BY <2>2
  <2>4. EndOf(Len(tokens)) = 1
    BY <2>3 DEF EndOf
  <2>5. IsBlank(1, 1)
    <3>1. \A k : k \notin 1 .. (1 - 1)
      OBVIOUS
    <3>2. QED
      BY <3>1, Zenon DEF IsBlank
  <2>6. TypeInv
    BY <2>2, <2>3 DEF TypeInv
  <2>7. WordInv
    BY <2>2 DEF WordInv
  <2>8. TokensTileTheText
    BY <2>2, <2>3, <2>4, <2>5 DEF TokensTileTheText
  <2>9. QED
    BY <2>2, <2>4, <2>6, <2>7, <2>8 DEF LexerInv
<1>2. LexerInv /\ [Next]_vars => LexerInv'
  <2>1. SUFFICES ASSUME LexerInv, [Next]_vars PROVE LexerInv'
    OBVIOUS
  <2>2. CASE Bracket
    BY <2>1, <2>2, BracketStep
  <2>3. CASE SkipWhitespace
    BY <2>1, <2>3, SkipWhitespaceStep
  <2>4. CASE SkipComment
    BY <2>1, <2>4, SkipCommentStep
  <2>5. CASE StringLiteral
    BY <2>1, <2>5, StringLiteralStep
  <2>6. CASE Word
    BY <2>1, <2>6, WordStep
  <2>7. CASE VariableChar
    BY <2>1, <2>7, VariableCharStep
  <2>8. CASE VariableEnd
    BY <2>1, <2>8, VariableEndStep
  <2>9. CASE EndOfInput
    BY <2>1, <2>9, EndOfInputStep
  <2>10. CASE UNCHANGED vars
    BY <2>1, <2>10, StutterStep
  <2>11. QED
    BY <2>1, <2>2, <2>3, <2>4, <2>5, <2>6, <2>7, <2>8, <2>9, <2>10 DEF Next
<1>3. QED
  BY <1>1, <1>2, PTL DEF Spec

\* For every text and every lambda parser, next_token cuts the text into whole tokens with
\* blank text between them, and reads all of it when it ends without an error.
THEOREM TokensTile == Spec => []TokensTileTheText
<1>1. LexerInv => TokensTileTheText
  BY DEF LexerInv
<1>2. QED
  BY <1>1, LexerInvariant, PTL
=============================================================================
