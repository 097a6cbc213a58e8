---------------------------- MODULE MCStreamRuns ----------------------------
(***************************************************************************)
(* StreamRuns for scripts with up to four writes and two folds.            *)
(***************************************************************************)
EXTENDS StreamRuns, TLC

W(x)    == [op |-> "write", v |-> x]
Fold(f) == [op |-> "fold", id |-> f]

\* The value is written by a fold only after the value it is written for.
AfterParents(g, child) ==
  \A f \in DOMAIN child : \A v \in DOMAIN child[f] :
    child[f][v] \in DOMAIN g => v \in DOMAIN g /\ g[v] < g[child[f][v]]

\* Current data: any of the values, in any generations that another peer may
\* have stored.
AnyArrivals(values, child) ==
  UNION {{g \in [S -> 0 .. Cardinality(S) - 1] :
            /\ {g[v] : v \in S} = 0 .. Cardinality({g[v] : v \in S}) - 1
            /\ AfterParents(g, child)} :
           S \in SUBSET values}

StreamScript(items, child, arriving, runsBound) ==
  [items |-> items, child |-> child, runs |-> runsBound,
   arrivals |-> AnyArrivals(arriving, child)]

\* Writes before and after a fold whose body writes nothing.
PlainScript == StreamScript(<<W("a"), W("b"), Fold(1), W("c"), W("d")>>, <<<<>>>>,
                            {"a", "b", "c"}, 3)

\* A fold that writes a second and then a third value, run once, with and
\* without values of another peer.
FirstFold == StreamScript(<<W("a"), Fold(1)>>, <<("a" :> "b") @@ ("b" :> "c")>>,
                          {"a", "b", "c"}, 1)

AllValues == {"a", "b", "c", "d"}

PlainOrFirstFold == {PlainScript, FirstFold}

\* The fold that writes, run again after a value has come for which the script
\* waited in its first run.  No data of other peers is needed for it.
RerunFold == {StreamScript(<<W("a"), W("d"), Fold(1)>>, <<("a" :> "b") @@ ("b" :> "c")>>,
                           {}, 3)}
=============================================================================
