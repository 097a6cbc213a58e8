-------------------------- MODULE MCParticleNetwork --------------------------
(***************************************************************************)
(* ParticleNetwork for small scripts.  The scripts are those of the        *)
(* repository's tests and docs, cut down: a join of two parallel branches, *)
(* a failure that is handled on another peer, and two branches that meet   *)
(* on one peer.                                                            *)
(***************************************************************************)
EXTENDS ParticleScripts

At(p) == LitArg(p)

Combine(op, a, b) == [op |-> op, left |-> a, right |-> b]
Ops == {"seq", "par", "xor"}

\* Where three calls may be, up to renaming the peers that do not start the
\* particle: "C" comes after "B".
Places == {t \in Peers \X Peers \X Peers :
             /\ t[1] # "C"
             /\ t[2] = "C" => t[1] = "B"
             /\ t[3] = "C" => "B" \in {t[1], t[2]}}

ThreeCalls(thirdArgs) ==
  {<<Call(At(t[1]), "f1", <<>>, "x1"), Call(At(t[2]), "f2", as, "x2"),
     Call(At(t[3]), "f3", bs, "x3")>> :
     t \in Places, as \in {<<>>, <<VarArg("x1")>>}, bs \in thirdArgs}

\* The ways to put two of seq and par over three calls, on any peers, where
\* the second call may take the result of the first, and the third one an
\* earlier result.  Three calls in a row or side by side are there in
\* one way each, the latter where only the third one takes an argument.
ValueScripts ==
  LET calls == ThreeCalls({<<VarArg("x1")>>, <<VarArg("x2")>>}) IN
  {Combine(o, c[1], Seq2(c[2], c[3])) : o \in {"seq", "par"}, c \in calls}
    \cup {Seq2(c[1], Par2(c[2], c[3])) : c \in calls}
    \cup {Par2(Seq2(c[1], c[2]), c[3]) : c \in calls}
    \cup {Seq2(Par2(c[1], c[2]), c[3]) : c \in {d \in calls : d[2].args = <<>>}}
    \cup {Par2(Par2(c[1], c[2]), c[3]) :
            c \in {d \in calls : d[2].args = <<>> /\ d[3].args = <<VarArg("x1")>>}}

\* The particle goes back and forth between two peers, and to a third one that
\* sees what both have signed meanwhile.
PingPongScripts ==
  {Seq2(Call(At("B"), "f1", <<>>, "x1"),
        Seq2(Call(At("A"), "f2", <<VarArg("x1")>>, "x2"),
             Seq2(Call(At("B"), "f3", <<VarArg("x2")>>, "x3"),
                  Seq2(Call(At("A"), "f4", <<VarArg("x3")>>, "x4"),
                       Call(At("C"), "f5", <<>>, "x5")))))}

\* The third call handles the error of the instruction before it.
ErrorScripts ==
  LET calls == ThreeCalls({<<ErrorArg>>, <<LastErrorArg>>}) IN
  {Combine(o, c[1], Xor(c[2], c[3])) : o \in {"seq", "xor"}, c \in calls}
    \cup {Xor(Combine(o, c[1], c[2]), c[3]) : o \in Ops, c \in calls}

\* The error of one call is handled by another, and a third peer replays both.
HandledScripts ==
  {Seq2(Xor(c[1], c[2]), c[3]) :
     c \in {<<Call(At(t[1]), "f1", <<>>, "x1"), Call(At(t[2]), "f2", as, "x2"),
              Call(At(t[3]), "f3", <<>>, "x3")>> :
             t \in Places, as \in {<<ErrorArg>>, <<LastErrorArg>>}}}

\* The error is handled in one branch of a par, beside another call.
ErrorInParScripts ==
  {Par2(c[1], Xor(c[2], c[3])) : c \in ThreeCalls({<<ErrorArg>>})}

One(p)       == Call(At(p), "f1", <<>>, "x1")
Two(p, as)   == Call(At(p), "f2", as, "x2")
Three(p, as) == Call(At(p), "f3", as, "x3")

\* A call without output that only moves the particle to p.
Hop(p, fn) == Call(At(p), fn, <<>>, NoOutput)

X1 == <<VarArg("x1")>>
X2 == <<VarArg("x2")>>

\* Scripts that bring the results to the peers that use them: each branch of
\* a join ends with a hop to the peer where the branches meet.
RoutedScripts ==
  {Seq2(Par2(Seq2(One(p), Hop(r, "h1")), Seq2(Two(q, <<>>), Hop(r, "h2"))), Three(r, as)) :
     p, q, r \in Peers, as \in {X1, X1 \o X2}}
  \cup {Seq2(One(p), Combine(o, Two(q, X1), Three(r, X1))) :
          o \in {"seq", "par"}, p, q, r \in Peers}
  \cup {Par2(One(p), Seq2(Two(q, <<>>), Three(r, X2))) : p, q, r \in Peers}

\* Two calls of one peer side by side, and another peer that takes a result.
LocalJoinScripts ==
  {Seq2(Par2(One("A"), Two("A", <<>>)), Three("B", as)) : as \in {X1, X2, X1 \o X2}}

RoutedOrLocalScripts == RoutedScripts \cup LocalJoinScripts

Err == <<ErrorArg>>
LastErr == <<LastErrorArg>>

\* Scripts with the instructions that have no state in the trace.
ControlScripts ==
  {Seq2(One(p), Xor(body, Three(r, as))) :
     p, r \in Peers, as \in {X1, Err, LastErr},
     body \in {Match(VarArg("x1"), LitArg(v), Two(q, X1)) : q \in Peers, v \in {"u", "w"}}
         \cup {Mismatch(VarArg("x1"), LitArg(v), Two(q, X1)) : q \in Peers, v \in {"u", "w"}}}
  \cup {Seq2(Seq2(One(p), ApScalar(VarArg("x1"), "y")), Three(r, <<VarArg("y")>>)) :
          p, r \in Peers}
  \cup {Xor(Xor(One(p), Seq2(Two(q, <<>>), fail)), Three(r, as)) :
          p, q, r \in Peers, fail \in {FailWith("m"), FailWithError, FailWithLastError},
          as \in {Err, LastErr}}
  \cup {Par2(Seq2(One(p), Never), Seq2(Null, Two(q, X1))) : p, q \in Peers}

\* The peer of a call is a value that is no peer id.
UnresolvedScripts ==
  {Seq2(One(p), Seq2(Xor(Call(VarArg("x1"), "f2", <<>>, "x2"), Three(q, <<>>)),
                     Call(At("A"), "f4", <<>>, "x4"))) : p, q \in Peers}

Value(s) == [kind |-> "value", value |-> Lit(s)]
Error(c) == [kind |-> "error", code |-> c]

ValueOrError(call) == {Value("u"), Error("e")}
OneValue(call)     == {Value("u")}

\* A service answers with its function and what it was given: values differ.
NamedValue(call) == {[kind |-> "value", value |-> [val |-> call.fn, of |-> call.args]]}

\* Two values for a stream: results of services, or values of a peer's own.
To(p, fn, s)  == CallToStream(At(p), fn, <<>>, s)
TwoWrites(p, q, s) == Par2(To(p, "f1", s), To(q, "f2", s))
TwoAps(s)     == Seq2(ApStream(At("B"), s), ApStream(At("C"), s))

\* What an iteration may do: a call of its value before or after `next`,
\* beside it or in a row with it.
ValueOfI      == <<VarArg("i")>>
G(p)          == Call(At(p), "g", ValueOfI, "y")
Bodies(p)     == {Par2(G(p), NextOf("i")), Par2(NextOf("i"), G(p)),
                  Seq2(G(p), NextOf("i")), Seq2(NextOf("i"), G(p))}
Each(s, body) == FoldStream(s, "i", body, NoInstruction)
H(p, x)       == Call(At(p), "h", <<VarArg(x)>>, "z")

\* A fold over results of services, a fold over the peer's own values whose
\* body calls each value as a peer into another stream, which is made a canon.
FoldScripts ==
  {Seq2(TwoWrites("B", q, "$s"), Each("$s", b)) : q \in {"B", "C"}, b \in Bodies("C")}
  \cup {Seq2(TwoAps("$s"),
             Seq2(FoldStream("$s", "i", Par2(CallToStream(VarArg("i"), "g", ValueOfI, "$t"),
                                             NextOf("i")), Null),
                  Seq2(Canon("stream", At(p), "$t", "#c"), H("B", "#c")))) : p \in Peers}

\* Canons of a stream that may still grow, and folds over them, with a last
\* instruction and without one; a map as a map and as a scalar; a canon whose
\* peer is a value that is no peer id, with no state behind it that it could
\* take for its own in the next run.
CanonScripts ==
  {Seq2(TwoWrites("B", "C", "$s"), Seq2(Canon("stream", At(p), "$s", "#c"), rest)) :
     p \in Peers,
     rest \in {H("B", "#c"),
               FoldScalar(VarArg("#c"), "i", Par2(G("B"), NextOf("i")), Null),
               Seq2(FoldScalar(VarArg("#c"), "i", Par2(G("B"), NextOf("i")), NoInstruction),
                    Hop("A", "h"))}}
  \cup {Seq2(Seq2(ApMap(At("k"), At("v"), "%m"),
                  Xor(Seq2(One(p), ApMap(VarArg("x1"), At("w"), "%m")),
                      ApMap(At("k"), At("w"), "%m"))),
             Seq2(Canon(kind, At("B"), "%m", "c"), H("A", "c"))) :
          p \in Peers, kind \in {"map", "scalar"}}
  \cup {Seq2(Seq2(ApStream(At("u"), "$s"), One(p)),
             Par2(Xor(Canon("stream", VarArg("x1"), "$s", "#c"), Null), Three(q, <<>>))) :
          p, q \in {"A", "B"}}

\* A fold whose body adds to the stream it runs over, and a fold over a stream
\* that a `new` restricts.
GrowingScripts ==
  {Seq2(ApStream(At("u"), "$s"),
        Seq2(Each("$s", Seq2(Xor(Match(VarArg("i"), At("u"), ApStream(At("v"), "$s")), Null),
                             Seq2(G(p), NextOf("i")))),
             Hop("B", "h"))) : p \in Peers}
  \cup {Seq2(TwoWrites("B", "C", "$s"),
             NewStream("$t",
               Seq2(Each("$s", Par2(Seq2(G(p), ApStream(VarArg("y"), "$t")), NextOf("i"))),
                    Each("$t", Seq2(Call(At("A"), "h", ValueOfI, "z"), NextOf("i")))))) : p \in {"A", "B"}}

\* A fold over a map whose two values, under one key, come from two peers.
KeyedBy(p, fn, x) == Seq2(Call(At(p), fn, <<>>, x), ApMap(At("k"), VarArg(x), "%m"))
MapScripts ==
  {Seq2(Par2(KeyedBy("B", "f1", "x1"), KeyedBy("C", "f2", "x2")),
        Each("%m", Par2(G(p), NextOf("i")))) : p \in {"A", "B"}}

\* Folds inside folds, and iterations that fail before `next`: the error ends
\* the fold's generation, or is handled in the iteration or around `next`; and
\* folds that run after, or beside, an instruction that has failed.
NestedScripts ==
  {Seq2(TwoAps("$s"),
        Seq2(TwoWrites("B", "B", "$t"),
             Each("$s", Par2(FoldStream("$t", "j", Par2(Call(At(p), "g", ValueOfI \o <<VarArg("j")>>, "y"),
                                                        NextOf("j")), NoInstruction),
                             NextOf("i"))))) : p \in {"B"}}
FailingScripts ==
  {Seq2(Seq2(TwoAps("$s"), Each("$s", body)), Hop("A", "h")) :
     body \in {Seq2(G("B"), Match(VarArg("i"), At("B"), NextOf("i"))),
               Xor(Seq2(G("B"), Match(VarArg("i"), At("C"), NextOf("i"))),
                   Seq2(Call(At("A"), "e", ValueOfI \o Err, "w"), NextOf("i"))),
               Seq2(Xor(NextOf("i"), Null), Seq2(G("B"), FailWith("m")))}}
  \cup {Seq2(TwoAps("$s"), Seq2(Combine(o, FailWith("m"), Each("$s", b)), Hop("A", "h"))) :
          o \in {"xor", "par"}, b \in {Seq2(G("B"), NextOf("i")), Par2(G("B"), NextOf("i"))}}

StreamScripts == FoldScripts \cup CanonScripts \cup GrowingScripts
                   \cup NestedScripts \cup FailingScripts \cup MapScripts

\* All scripts without streams.
CallScripts == ValueScripts \cup PingPongScripts \cup ErrorScripts \cup HandledScripts
                 \cup ControlScripts \cup UnresolvedScripts
=============================================================================
