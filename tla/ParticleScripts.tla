--------------------------- MODULE ParticleScripts ---------------------------
(***************************************************************************)
(* ParticleNetwork with the interpreter as what executes scripts, and the  *)
(* calls that a script makes.                                              *)
(***************************************************************************)
EXTENDS ParticleNetwork, Interpreter

\* air.execute() of runner.rs: the script is its root instruction.
ExecuteAir(air, ctx) == Exec(air, ctx)

\* The functions whose results a script uses.
RECURSIVE FunctionsOf(_)
FunctionsOf(i) ==
  CASE i.op = "call" -> IF i.out = NoOutput THEN {} ELSE {i.fn}
    [] i.op = "canon" -> {"canon"}
    [] i.op \in {"seq", "par", "xor"} -> FunctionsOf(i.left) \cup FunctionsOf(i.right)
    [] i.op \in {"match", "mismatch", "new"} -> FunctionsOf(i.body)
    [] i.op \in {"fold_stream", "fold_scalar"} -> FunctionsOf(i.body) \cup FunctionsOf(i.last)
    [] OTHER -> {}

\* The functions that a script may call more than once: those of its folds.
RECURSIVE FoldedFunctions(_)
FoldedFunctions(i) ==
  CASE i.op \in {"seq", "par", "xor"} -> FoldedFunctions(i.left) \cup FoldedFunctions(i.right)
    [] i.op \in {"match", "mismatch", "new"} -> FoldedFunctions(i.body)
    [] i.op \in {"fold_stream", "fold_scalar"} -> FunctionsOf(i.body)
    [] OTHER -> {}

Folded == UNION {FoldedFunctions(s) : s \in Scripts}

\* Which call of the script a request or a result belongs to.
CallInScript(call) == [fn |-> call.fn, args |-> IF call.fn \in Folded THEN call.args ELSE <<>>]

\* Every call of a script in which nothing fails is answered in the end: no
\* call waits for a result that no peer will send to it.
EveryCallAnswered ==
  <>(\A f \in FunctionsOf(script) : \E p \in Peers : \E r \in Known(store[p]) : r.fn = f)
=============================================================================
