---------------------------- MODULE ScalarScopes ----------------------------
(***************************************************************************)
(* The scopes of scalars and canons (execution_context/scalar_variables.rs *)
(* and values_sparse_matrix.rs): a row of cells per variable, each with    *)
(* the depth at which it was set, and the set of depths that may be read.  *)
(*                                                                         *)
(* A fold opens a scope for its first iteration, (next i) one for the      *)
(* following iteration, which is executed inside the previous one, and     *)
(* (new x ...) a scope for one variable.  Any script is possible, also one *)
(* with several nexts of a fold, which the validator refuses; what is      *)
(* executed at the moment is the stack of these three instructions.        *)
(***************************************************************************)
EXTENDS Integers, Sequences

CONSTANTS Names,          \* The variables.
          Iterators,      \* The iterators of folds.
          Vals,           \* The values of variables.
          Unset,          \* SparseCell::from_met_new: no value after new.
          Items,          \* The number of items of an iterable.
          MaxFrames       \* Bound: instructions inside each other.

ASSUME ScopesAssumption == /\ Unset \notin Vals
                           /\ Items \in Nat \ {0}
                           /\ MaxFrames \in Nat

VARIABLES cells,     \* the row of cells of each variable, <<>> if it has none
          cursors,   \* iterable_variables: the cursor of each iterator
          allowed,   \* allowed_depths
          depth,     \* current_depth
          frames,    \* the instructions that are executed, outermost first
          status     \* "running", or the uncatchable error

vars == <<cells, cursors, allowed, depth, frames, status>>

Cell(d, v) == [depth |-> d, value |-> v]

Last(s)  == s[Len(s)]
Front(s) == SubSeq(s, 1, Len(s) - 1)

Init == /\ cells = [x \in Names |-> <<>>]
        /\ cursors = <<>>
        /\ allowed = {0} /\ depth = 0
        /\ frames = <<>> /\ status = "running"

-----------------------------------------------------------------------------
(* ValuesSparseMatrix.                                                     *)

\* variable_could_be_set, for a variable that has a row.
CouldBeSet(row) == depth # 0 \/ Last(row).value = Unset

\* set_value.
Set(row, v) ==
  IF row # <<>> /\ Last(row).depth = depth
    THEN Append(Front(row), Cell(depth, v))
    ELSE Append(row, Cell(depth, v))

\* Mutant: one scope too late.
CleanupLate(rows, d) ==
  [x \in Names |-> IF rows[x] # <<>> /\ Last(rows[x]).depth > d + 1
                     THEN Front(rows[x]) ELSE rows[x]]

\* cleanup_obsolete_values: at most one cell of each row.
Cleanup(rows, d) ==
  [x \in Names |-> IF rows[x] # <<>> /\ Last(rows[x]).depth > d
                     THEN Front(rows[x]) ELSE rows[x]]

-----------------------------------------------------------------------------
(* The instructions.  A frame is an instruction that is executed, with the *)
(* state at its start and the depths that are in its scope.                *)
(*                                                                         *)
(* A scope is left in the same way after a catchable error, but for        *)
(* NextFails; whatever is executed next is then in an xor around it.       *)

Frame(kind, name, seen) ==
  [kind |-> kind, name |-> name, depth |-> depth, cells |-> cells,
   cursors |-> cursors, seen |-> seen]

Running == status = "running"
CanEnter == Running /\ Len(frames) < MaxFrames
Inside(kind) == Running /\ frames # <<>> /\ Last(frames).kind = kind

\* An uncatchable error: the run is over.
Fail(why) == status' = why /\ UNCHANGED <<cells, cursors, allowed, depth, frames>>

\* set_scalar_value, set_canon_value.
SetValue(x, v) ==
  /\ Running
  /\ IF cells[x] # <<>> /\ ~CouldBeSet(cells[x]) THEN Fail("ShadowingIsNotAllowed")
     ELSE /\ cells' = [cells EXCEPT ![x] = Set(@, v)]
          /\ UNCHANGED <<cursors, allowed, depth, frames, status>>

\* The depths that are in the scope of the instruction that is executed: those
\* of the iterations of the folds around it, not of their earlier iterations.
Visible == IF frames = <<>> THEN {0}
           ELSE IF Last(frames).kind = "new" THEN Last(frames).seen
           ELSE Last(frames).seen \cup {Last(frames).depth + 1}

\* fold(): meet_fold_start, set_iterable_value.
FoldStart(i) ==
  /\ CanEnter
  /\ IF i \in DOMAIN cursors THEN Fail("MultipleIterableValues")
     ELSE /\ depth' = depth + 1
          /\ allowed' = allowed \cup {depth + 1}
          /\ cursors' = [j \in DOMAIN cursors \cup {i} |-> IF j = i THEN 0 ELSE cursors[j]]
          /\ frames' = Append(frames, Frame("fold", i, Visible))
          /\ UNCHANGED <<cells, status>>

\* remove_iterable_value.
Removed(i) == [j \in DOMAIN cursors \ {i} |-> cursors[j]]

\* Mutant: the depth of the finished iterations stays readable.
FoldEndAllowed ==
  /\ Inside("fold")
  /\ depth' = depth - 1
  /\ cells' = Cleanup(cells, depth - 1)
  /\ cursors' = Removed(Last(frames).name)
  /\ frames' = Front(frames)
  /\ UNCHANGED <<allowed, status>>

\* The end of fold(): remove_iterable_value, meet_fold_end.
FoldEnd ==
  /\ Inside("fold")
  /\ depth' = depth - 1
  /\ allowed' = allowed \ {depth}
  /\ cells' = Cleanup(cells, depth - 1)
  /\ cursors' = Removed(Last(frames).name)
  /\ frames' = Front(frames)
  /\ UNCHANGED status

\* The fold of an iterator.
FoldOf(i) == CHOOSE n \in DOMAIN frames : frames[n].kind = "fold" /\ frames[n].name = i

\* Next: iterable.next(), meet_next_before.  The next iteration sees what its
\* fold sees.  After the last item nothing happens; the last instruction is
\* executed in the scope of the next.
NextBefore(i) ==
  /\ CanEnter /\ i \in DOMAIN cursors
  /\ cursors[i] + 1 < Items
  /\ cursors' = [cursors EXCEPT ![i] = @ + 1]
  /\ depth' = depth + 1
  /\ allowed' = (allowed \ {depth}) \cup {depth + 1}
  /\ frames' = Append(frames, Frame("next", i, frames[FoldOf(i)].seen))
  /\ UNCHANGED <<cells, status>>

\* meet_next_after.
LeaveNext ==
  /\ Inside("next")
  /\ depth' = depth - 1
  /\ allowed' = (allowed \ {depth}) \cup {depth - 1}
  /\ cells' = Cleanup(cells, depth - 1)
  /\ frames' = Front(frames)
  /\ UNCHANGED status

\* iterable.prev().
Prev(n) == IF n >= 1 THEN n - 1 ELSE n

NextAfter == LeaveNext /\ cursors' = [cursors EXCEPT ![Last(frames).name] = Prev(@)]

\* "result?": after an error there is no prev().
NextFails == LeaveNext /\ UNCHANGED cursors

\* meet_new_start.
NewStart(x) ==
  /\ CanEnter
  /\ cells' = [cells EXCEPT ![x] = Append(@, Cell(depth, Unset))]
  /\ frames' = Append(frames, Frame("new", x, Visible))
  /\ UNCHANGED <<cursors, allowed, depth, status>>

\* meet_new_end: "carefully check that we're popping up an appropriate value".
NewEnd ==
  /\ Inside("new")
  /\ LET x == Last(frames).name IN
     IF cells[x] = <<>> \/ Last(cells[x]).depth # depth THEN Fail("ScalarsStateCorrupted")
     ELSE /\ cells' = [cells EXCEPT ![x] = Front(@)]
          /\ frames' = Front(frames)
          /\ UNCHANGED <<cursors, allowed, depth, status>>

Next == \/ \E x \in Names : NewStart(x) \/ \E v \in Vals : SetValue(x, v)
        \/ \E i \in Iterators : FoldStart(i) \/ NextBefore(i)
        \/ FoldEnd \/ NextAfter \/ NextFails \/ NewEnd

Spec == Init /\ [][Next]_vars

-----------------------------------------------------------------------------
(* Properties.                                                             *)

\* meet_new_end always finds the cell of its own new: the error that says that
\* the state is corrupted is never raised, whatever was executed inside.
NeverCorrupted == status # "ScalarsStateCorrupted"

\* Each next belongs to the innermost fold around it.
NextsInnermost ==
  \A n \in DOMAIN frames : frames[n].kind = "next" =>
    \A k \in FoldOf(frames[n].name) + 1 .. n : frames[k].kind # "fold"

\* What may be read is what is in scope: allowed_depths is there "for careful
\* isolation of scopes produced by iterations in fold blocks"
\* (values_sparse_matrix.rs).  A next of an outer fold that stands in an inner
\* fold is left out: it keeps the variables of the iteration before readable.
AllowedIsInScope == Running /\ NextsInnermost => allowed = Visible

\* Leaving a scope gives back what was visible before it: after a fold and
\* after a next all variables, after a new its variable (the example of
\* scalar_variables.rs: "local set by (1) will be used").
ScopeExitRestores ==
  [][Len(frames') < Len(frames) =>
       LET f == Last(frames) IN
       IF f.kind = "new" THEN cells'[f.name] = f.cells[f.name] ELSE cells' = f.cells]_vars

=============================================================================
