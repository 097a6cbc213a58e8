---------------------------- MODULE MCAIRParser ----------------------------
(* Scripts for AIRParser. *)
EXTENDS AIRParser

Var(k, name) == [k |-> k, name |-> name]
Lam(k, name, lambda) == [k |-> k, name |-> name, lambda |-> lambda]
ErrorLam(k, lambda) == [k |-> k, lambda |-> lambda]
Val(k, value) == [k |-> k, value |-> value]
Path(accessors) == [tag |-> "ValuePath", accessors |-> accessors]
ByScalar(name) == [tag |-> "FieldAccessByScalar", scalar_name |-> name]

Form(keyword, parts) == <<Tok("("), Tok(keyword)>> \o parts \o <<Tok(")")>>

X == Var("Scalar", "x")
I == Var("Scalar", "i")
S == Var("Stream", "$s")
Lit == Val("Literal", "a")
One == Val("I64", 1)

CallWith(args, out) ==
    Form("call", <<Tok("InitPeerId"), Tok("("), Lit, Lit, Tok(")"), Tok("[")>>
                 \o args \o <<Tok("]")>> \o out)

Null == Form("null", <<>>)

------------------------------------------------------------------------------
(* Trees over one variable and one iterator, for the validator. *)

Leaves == {Form("next", <<I>>), CallWith(<<X>>, <<>>), CallWith(<<>>, <<X>>)}

Wrapped(T) ==
    UNION {{Form("new", <<X>> \o t), Form("match_", <<X, One>> \o t),
            Form("fold", <<X, I>> \o t), Form("fold", <<S, I>> \o t \o Null),
            Form("fold", <<S, I>> \o t)} : t \in T}

Joined(A, B) == {Form(op, a \o b) : op \in {"seq", "xor"}, a \in A, b \in B}

Small == Leaves \cup Wrapped(Leaves) \cup Joined(Leaves, Leaves)

\* A new on an iterator and a script after a fold, too.
Trees == Small \cup Wrapped(Small) \cup Joined(Leaves \cup Wrapped(Leaves), Leaves \cup Wrapped(Leaves))
         \cup {Form("new", <<X>> \o Form("fold", <<X, I>> \o t)) :
                   t \in Joined(Leaves, Leaves) \cup Wrapped(Leaves)
                        \cup {Form("new", <<I>> \o u) : u \in Leaves}}
         \cup {Form("new", <<S>> \o t) : t \in Wrapped(Joined(Leaves, Leaves))}

------------------------------------------------------------------------------
(* Scripts that use every production, and one-token corruptions of them. *)

Sample ==
    {Form("par", Null \o Form("never", <<>>)),
     CallWith(<<Tok("InitPeerId"), Tok("LastError"), ErrorLam("LastErrorWithLambda", Path(<<>>)),
                Tok("Error"), ErrorLam("ErrorWithLambda", Path(<<>>)), Lit, Tok("Timestamp"),
                Tok("TTL"), Val("F64", 1), Val("Boolean", TRUE), Tok("["), Tok("]")>>, <<S>>),
     CallWith(<<Lam("ScalarWithLambda", "x", Path(<<ByScalar("x")>>)), Var("CanonStream", "#c"),
                Lam("CanonStreamWithLambda", "#c", Path(<<>>)), Var("CanonStreamMap", "#%c"),
                Lam("CanonStreamMapWithLambda", "#%c", [tag |-> "Functor"])>>, <<>>),
     Form("canon", <<Lit, S, Var("CanonStream", "#c")>>),
     Form("canon", <<Lit, Var("StreamMap", "%m"), Var("CanonStreamMap", "#%c")>>),
     Form("canon", <<Lit, Var("StreamMap", "%m"), X>>),
     Form("fail", <<Val("I64", 0), Lit>>), Form("fail", <<One, Lit>>),
     Form("fold", <<Tok("["), Tok("]"), I>> \o Form("next", <<I>>)),
     Form("fold", <<Var("StreamMap", "%m"), I>> \o Null),
     Form("fold", <<Var("StreamMap", "%m"), I>> \o Form("next", <<I>>) \o Null),
     Form("fold", <<X, I>> \o Null \o Null),
     Form("mismatch", <<One, Lit>> \o Null)}
    \cup {Form("ap", <<v, out>>) :
             v \in {Tok("InitPeerId"), Tok("LastError"), Tok("Error"), Tok("Timestamp"), Tok("TTL"),
                    ErrorLam("LastErrorWithLambda", Path(<<>>)), ErrorLam("ErrorWithLambda", Path(<<>>)),
                    Lit, One, Val("Boolean", TRUE), X, Lam("ScalarWithLambda", "x", Path(<<>>)),
                    Var("CanonStream", "#c"), Lam("CanonStreamWithLambda", "#c", Path(<<>>)),
                    Lam("CanonStreamMapWithLambda", "#%c", Path(<<>>))}, out \in {X, S}}
    \cup {Form("ap", <<Tok("("), key, Tok("["), Tok("]"), Tok(")"), Var("StreamMap", "%m")>>) :
             key \in {Lit, One, X, Lam("ScalarWithLambda", "x", Path(<<>>)),
                      Lam("CanonStreamWithLambda", "#c", Path(<<>>))}}
    \cup {Form("fail", <<v>>) :
             v \in {X, Lam("ScalarWithLambda", "x", Path(<<>>)), Tok("LastError"), Tok("Error"),
                    Lam("CanonStreamWithLambda", "#c", Path(<<>>))}}
    \cup {Form("new", <<v>> \o Null) :
             v \in {X, S, Var("StreamMap", "%m"), Var("CanonStream", "#c"), Var("CanonStreamMap", "#%c")}}
    \cup {Form("fold", <<v, I>> \o Null) :
             v \in {Lam("ScalarWithLambda", "x", Path(<<>>)), Var("CanonStream", "#c"),
                    Var("CanonStreamMap", "#%c"), Lam("CanonStreamMapWithLambda", "#%c", Path(<<>>))}}
    \cup {Form("call", <<v, Tok("("), w, Lit, Tok(")"), Tok("["), Tok("]")>>) :
             v \in {X, Lit, Lam("CanonStreamMapWithLambda", "#%c", Path(<<>>))},
             w \in {X, Lam("ScalarWithLambda", "x", Path(<<>>)),
                    Lam("CanonStreamWithLambda", "#c", Path(<<>>)),
                    Lam("CanonStreamMapWithLambda", "#%c", Path(<<>>))}}
    \cup {Form("canon", <<v, S, Var("CanonStream", "#c")>>) :
             v \in {Tok("InitPeerId"), Lam("ScalarWithLambda", "x", Path(<<>>)),
                    Lam("CanonStreamWithLambda", "#c", Path(<<>>))}}

Broken(t) ==
    {RemoveAt(t, i) : i \in DOMAIN t}
    \cup {InsertAt(t, i, bad) : i \in DOMAIN t, bad \in {Tok(")"), Tok("("), X}}
    \cup {ReplaceAt(t, i, bad) : i \in DOMAIN t, bad \in {Tok("seq"), Tok(LexerError)}}
    \cup {SubSeq(t, 1, i) : i \in 0..(Len(t) - 1)}

ToBreak ==
    {Form("seq", Null \o Form("xor", Null \o Null)),
     Form("fold", <<S, I>> \o Form("seq", Null \o Form("next", <<I>>)) \o Null),
     Form("new", <<X>> \o Form("match_", <<X, One>> \o CallWith(<<X>>, <<X>>)))}

MCScripts == Trees \cup Sample \cup UNION {Broken(t) : t \in ToBreak}

=============================================================================
