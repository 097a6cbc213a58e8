--------------------------- MODULE MCScalarScopes ---------------------------
(***************************************************************************)
(* ScalarScopes for TLC.                                                   *)
(***************************************************************************)
EXTENDS ScalarScopes, TLC

\* Variables, iterators and values are interchangeable.
ScopesSymmetry == Permutations(Names) \cup Permutations(Iterators) \cup Permutations(Vals)
=============================================================================
