------------------------------ MODULE LRMachine ------------------------------
(***************************************************************************)
(* The shift/reduce machine that the generated parsers (air.rs and          *)
(* va_lambda.rs) drive.  The generated code numbers the states of the       *)
(* automaton and stores its moves in the tables __ACTION, __EOF_ACTION and  *)
(* __goto.  Here a state is what its number stands for: the set of kernel   *)
(* items <<production, dot>>.  The tables of both parsers are those of the   *)
(* LR(0) automaton of their productions, with a reduction taken on the       *)
(* tokens that may follow its left-hand side.  No production is empty:      *)
(* the generator inlines the optional symbols.                              *)
(***************************************************************************)
EXTENDS Naturals, Sequences, SequencesExt

\* The column of the end of input, and the terminal of error recovery.
EOF == "EOF"
ErrorTerminal == "error"

\* The symbol under the start of every grammar, and its only production.
Goal == "Goal"
GoalOf(start) == [lhs |-> Goal, rhs |-> <<start>>]

\* What S reaches along the pairs of R, S included.
RECURSIVE Reach(_, _)
Reach(R, S) ==
    LET T == S \cup {r[2] : r \in {q \in R : q[1] \in S}}
    IN  IF T = S THEN S ELSE Reach(R, T)

\* A grammar with the relations its tables are built from: <<X, Y>> in left when
\* something X derives starts with Y, <<N, t>> in follow when t may follow N.
Grammar(productions, start) ==
    LET P == productions \cup {GoalOf(start)}
        nonterminals == {p.lhs : p \in P}
        alphabet == nonterminals \cup UNION {{p.rhs[i] : i \in 1..Len(p.rhs)} : p \in P}
        left == UNION {{X} \X Reach({<<p.lhs, Head(p.rhs)>> : p \in P}, {X}) : X \in alphabet}
        right == UNION {{X} \X Reach({<<p.lhs, Last(p.rhs)>> : p \in P}, {X}) : X \in alphabet}
        next == UNION {{<<p.rhs[i], p.rhs[i + 1]>> : i \in 1..(Len(p.rhs) - 1)} : p \in P}
        lastIn(Y) == {r[2] : r \in {q \in right : q[1] = Y}} \cap nonterminals
        firstIn(Y) == {r[2] : r \in {q \in left : q[1] = Y}} \ nonterminals
    IN  [productions |-> P, start |-> start, terminals |-> alphabet \ nonterminals, left |-> left,
         follow |-> UNION {lastIn(a[1]) \X firstIn(a[2]) : a \in next}
                    \cup (lastIn(Goal) \X {EOF})]

StartState(g) == {<<GoalOf(g.start), 0>>}

\* The symbols a state expects next.
Expected(K) == {it[1].rhs[it[2] + 1] : it \in {i \in K : i[2] < Len(i[1].rhs)}}

\* __goto, and the shifts of __ACTION: the state after symbol X, empty when the
\* table has no move.  X moves the dot of a kernel item, or starts a production
\* of what the state expects.
GotoState(g, K, X) ==
    {<<it[1], it[2] + 1>> : it \in {i \in K : i[2] < Len(i[1].rhs) /\ i[1].rhs[i[2] + 1] = X}}
    \cup {<<p, 1>> : p \in {q \in g.productions :
                                /\ Head(q.rhs) = X
                                /\ \E Y \in Expected(K) : <<Y, q.lhs>> \in g.left}}

\* Mutant: a reduction on every token.
ReductionsAnyToken(g, K, t) == {p \in {it[1] : it \in K} : <<p, Len(p.rhs)>> \in K}

\* The reductions of __ACTION and __EOF_ACTION in state K before token t.
Reductions(g, K, t) ==
    {p \in {it[1] : it \in K} : <<p, Len(p.rhs)>> \in K /\ <<p.lhs, t>> \in g.follow}

CanShift(g, K, t) == t # EOF /\ GotoState(g, K, t) # {}

\* Mutant: a production with an optional part pops the states of the one without it.
SimulatedReduceShort(p) ==
    [states_to_pop |-> IF Len(p.rhs) = 7 THEN 6 ELSE Len(p.rhs), nonterminal_produced |-> p.lhs]

\* __simulate_reduce: how many states a reduction pops and what it produces.
SimulatedReduce(p) == [states_to_pop |-> Len(p.rhs), nonterminal_produced |-> p.lhs]

\* The states after a reduction: truncate, then goto (the tail of __reduce).
AfterReduce(g, stack, p) ==
    LET r == SimulatedReduce(p)
        rest == SubSeq(stack, 1, Len(stack) - r.states_to_pop)
    IN  Append(rest, GotoState(g, Last(rest), r.nonterminal_produced))

\* __accepts: would the machine, with these states on its stack, come to shift t
\* (or to accept at the end of input)?
RECURSIVE Accepts(_, _, _)
Accepts(g, stack, t) ==
    LET top == Last(stack)
        reds == Reductions(g, top, t)
    IN  \/ CanShift(g, top, t)
        \/ /\ reds # {}
           /\ LET p == CHOOSE q \in reds : TRUE
              IN  p.lhs = Goal \/ Accepts(g, AfterReduce(g, stack, p), t)

\* __expected_tokens_from_states: what an "unrecognized token" error lists.
ExpectedTokens(g, stack) == {t \in g.terminals \ {ErrorTerminal} : Accepts(g, stack, t)}
=============================================================================
