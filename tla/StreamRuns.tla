----------------------------- MODULE StreamRuns -----------------------------
(***************************************************************************)
(* One stream over several runs of the interpreter on one peer.            *)
(*                                                                         *)
(* A script writes values to the stream and folds over it.  It has a fixed *)
(* order, the same in every run; the body of a fold may write one more     *)
(* value for the value it is run with, (par (ap .. $s) (next i)).          *)
(* A value is named by the write it comes from.  A write finds its value   *)
(* in the previous data, or in the current data, or makes it, or has to    *)
(* wait for what it writes.  At the end of a run the generations of the    *)
(* values are stored with the data.                                        *)
(***************************************************************************)
EXTENDS Stream

\* A script has
\*   items     a sequence of writes [op : "write", v] and folds [op : "fold", id],
\*   child     child[f][v]: what fold f writes when it is run with v,
\*   arrivals  the generations that current data may come with,
\*   runs      a bound: runs of the interpreter.
CONSTANTS Values,     \* The values that are written.
          Scripts

Items == [op : {"write"}, v : Values] \cup [op : {"fold"}, id : Nat]

ASSUME ScriptAssumption ==
  \A s \in Scripts :
    /\ s.runs \in Nat
    /\ s.items \in Seq(Items)
    /\ \A i \in DOMAIN s.items : s.items[i].op = "fold" => s.items[i].id \in DOMAIN s.child
    /\ \A f \in DOMAIN s.child : \A v \in DOMAIN s.child[f] : s.child[f][v] \in Values
    /\ \A g \in s.arrivals : \A v \in DOMAIN g : g[v] \in Nat

\* A value is named by the write it comes from: no two writes have one name.
ASSUME NamesAssumption ==
  \A s \in Scripts :
    /\ \A i, j \in DOMAIN s.items : s.items[i] = s.items[j] => i = j
    /\ \A f, g \in DOMAIN s.child : \A v \in DOMAIN s.child[f], w \in DOMAIN s.child[g] :
         s.child[f][v] = s.child[g][w] => f = g /\ v = w
    /\ \A i \in DOMAIN s.items, f \in DOMAIN s.child : \A v \in DOMAIN s.child[f] :
         s.items[i] # [op |-> "write", v |-> s.child[f][v]]

VARIABLES script,      \* the script of the particle
          stored,      \* generation by value, in the stored data
          incoming,    \* generation by value, in the current data
          stream,      \* the stream of this run
          pc,          \* the next item of the script; 0 between runs
          fold,        \* the fold that is executed: <<>> or <<frame>>
          runs         \* number of runs so far

vars == <<script, stored, incoming, stream, pc, fold, runs>>

Init == /\ script \in Scripts
        /\ stored = <<>> /\ incoming = <<>>
        /\ stream = EmptyStream
        /\ pc = 0 /\ fold = <<>> /\ runs = 0

\* The interpreter is called with current data, which may be empty.
StartRun == /\ pc = 0 /\ runs < script.runs
            /\ runs' = runs + 1 /\ pc' = 1
            /\ incoming' \in script.arrivals
            /\ stream' = EmptyStream
            /\ UNCHANGED <<script, stored, fold>>

\* An uncatchable error: the previous data stays.
AbortRun == /\ pc' = 0 /\ fold' = <<>>
            /\ UNCHANGED <<script, stored, incoming, stream, runs>>

Known(v) == v \in DOMAIN stored \cup DOMAIN incoming

\* Mutant: the generation of the current data wins.
GenerationOfCurrentFirst(v) == IF v \in DOMAIN incoming THEN Current(incoming[v])
                               ELSE IF v \in DOMAIN stored THEN Previous(stored[v])
                               ELSE New

\* Generation::from_data, from_met_result, new: the value source is the
\* previous data, when the value is in both.
GenerationOf(v) == IF v \in DOMAIN stored THEN Previous(stored[v])
                   ELSE IF v \in DOMAIN incoming THEN Current(incoming[v])
                   ELSE New

\* add_stream_value.  done is what comes with the write in this step.
Write(v, done) ==
  LET s == AddValue(stream, v, GenerationOf(v)) IN
  IF SizeLimitExceeded(s) THEN AbortRun
  ELSE stream' = s /\ done /\ UNCHANGED <<script, stored, incoming, runs>>

\* What is written is not there yet.
Wait(v, done) == ~Known(v) /\ done /\ UNCHANGED <<script, stored, incoming, stream, runs>>

Item == script.items[pc]
AtItem(op) == pc \in DOMAIN script.items /\ fold = <<>> /\ Item.op = op

ExecWrite ==
  LET done == pc' = pc + 1 /\ fold' = <<>> IN
  AtItem("write") /\ (Write(Item.v, done) \/ Wait(Item.v, done))

-----------------------------------------------------------------------------
(* execute_with_stream.                                                    *)

Frame == fold[1]

FoldStart ==
  LET todo == Slices(stream, NoCursor) IN
  /\ AtItem("fold")
  /\ stream' = AfterFoldStart(stream)
  /\ IF todo = <<>> THEN pc' = pc + 1 /\ fold' = <<>>
     ELSE /\ fold' = <<[id |-> Item.id, cursor |-> CursorOf(stream),
                        todo |-> todo, seen |-> <<>>]>>
          /\ UNCHANGED pc
  /\ UNCHANGED <<script, stored, incoming, runs>>

\* The generations that are left when the first value of the first is taken.
Rest(gens) == IF Len(gens[1]) = 1 THEN Tail(gens)
              ELSE [gens EXCEPT ![1] = Tail(@)]

\* One iteration: the body is run with the next value.
Iteration ==
  /\ fold # <<>> /\ Frame.todo # <<>>
  /\ LET v    == Frame.todo[1][1]
         done == /\ fold' = <<[Frame EXCEPT !.todo = Rest(@), !.seen = Append(@, v)]>>
                 /\ UNCHANGED pc
     IN IF v \in DOMAIN script.child[Frame.id]
          THEN \/ Write(script.child[Frame.id][v], done)
               \/ Wait(script.child[Frame.id][v], done)
          ELSE done /\ UNCHANGED <<script, stored, incoming, stream, runs>>

\* All generations of this round are done.
IterationEnd ==
  LET todo == Slices(stream, Frame.cursor) IN
  /\ fold # <<>> /\ Frame.todo = <<>>
  /\ stream' = AfterIterationEnd(stream)
  /\ IF todo = <<>> THEN pc' = pc + 1 /\ fold' = <<>>
     ELSE /\ fold' = <<[Frame EXCEPT !.cursor = CursorAtIterationEnd(stream),
                                     !.todo = todo]>>
          /\ UNCHANGED pc
  /\ UNCHANGED <<script, stored, incoming, runs>>

\* The farewell step compactifies the stream and stores the data.
EndRun == /\ pc = Len(script.items) + 1
          /\ stored' = Generations(stream)
          /\ pc' = 0
          /\ UNCHANGED <<script, incoming, stream, fold, runs>>

Next == StartRun \/ ExecWrite \/ FoldStart \/ Iteration \/ IterationEnd \/ EndRun

Spec == Init /\ [][Next]_vars

-----------------------------------------------------------------------------
(* Properties.                                                             *)

\* The generations in the stored data are numbered without gaps, whatever
\* generations the data of other peers came with (stream_definition.rs,
\* compactify: "Removes empty generations updating data").
StoredGenerationsDense ==
  LET gens == {stored[v] : v \in DOMAIN stored} IN
  gens = 0 .. Cardinality(gens) - 1

\* Stored data never holds STREAM_MAX_SIZE values or more: the run that replays
\* it would fail, and with it every later run (check_stream_size_limit).
StoredDataReplays == Cardinality(DOMAIN stored) < StreamMaxSize

\* A fold that ends was run with every value of the stream, each once, also
\* with the values that were written while it was executed (docs/fold.md: "run
\* fold body for generation 1 values ... run fold body for generation N
\* values").
FoldVisitsAll ==
  [][fold # <<>> /\ fold' = <<>> /\ pc' # 0 =>
       /\ {Frame.seen[i] : i \in DOMAIN Frame.seen} = InStream(stream)
       /\ Len(Frame.seen) = Cardinality(InStream(stream))]_vars

\* "Streams are CRDT-like append only data structures" (stream_definition.rs):
\* what a run has stored, the next run stores again.
AppendOnly == [][DOMAIN stored \subseteq DOMAIN stored']_vars

\* "They are guaranteed to have locally the same order of values"
\* (stream_definition.rs): later runs of a peer keep the order of the values
\* that it has stored.
LocalOrderKept ==
  [][\A u, v \in DOMAIN stored \cap DOMAIN stored' :
       /\ stored[u] < stored[v] => stored'[u] < stored'[v]
       /\ stored[u] = stored[v] => stored'[u] = stored'[v]]_vars
=============================================================================
