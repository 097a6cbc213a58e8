----------------------------- MODULE CallResults -----------------------------
(***************************************************************************)
(* What a network of AquaVM peers promises about one particle: the results *)
(* of calls form a write-once store.  A result is produced by the peer the *)
(* call names, once; every other peer can only learn it; no peer forgets   *)
(* a result it has stored.                                                 *)
(*                                                                         *)
(* ParticleNetwork implements this specification.                          *)
(***************************************************************************)
CONSTANTS Hosts,          \* The peers.
          Producer(_),    \* The peer that produced a result.
          CallOf(_)       \* The call that a result is the answer to.

VARIABLE known            \* known[p]: the results in the stored data of p.

Everything == UNION {known[p] : p \in Hosts}

Init == known = [p \in Hosts |-> {}]

\* The results of K that no peer had before this step.
Fresh(K) == K \ Everything

\* Only the peer itself produces, and only answers to calls without one.
MayProduce(p, F) ==
  /\ \A r \in F : Producer(r) = p
  /\ \A r \in F : \A s \in Everything \cup F : CallOf(s) = CallOf(r) => s = r

\* One invocation of the interpreter at p: it keeps what it knew, learns what
\* other peers know, and produces.
Invocation(p, K) ==
  /\ known[p] \subseteq K
  /\ MayProduce(p, Fresh(K))
  /\ known' = [known EXCEPT ![p] = K]

Next == \E p \in Hosts : Invocation(p, known'[p])

Spec == Init /\ [][Next]_known

\* Two stored results of one call are the same result, wherever they are
\* stored: the interpreter never lets a call be answered twice.
Agreement == \A r, s \in Everything : CallOf(r) = CallOf(s) => r = s

\* A peer never loses a result.
NeverForgotten == [][\A p \in Hosts : known[p] \subseteq known'[p]]_known
=============================================================================
