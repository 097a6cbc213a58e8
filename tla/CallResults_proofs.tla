-------------------------- MODULE CallResults_proofs --------------------------
(***************************************************************************)
(* What the write-once store of call results guarantees, for any peers,    *)
(* calls and results.  ParticleNetwork implements the store, so the same   *)
(* holds of the data that AquaVM peers keep.                               *)
(***************************************************************************)
EXTENDS CallResults, TLAPS

\* known is a function on the peers; an invocation at p changes it at p only.
IsStore == known = [p \in Hosts |-> known[p]]

\* After an invocation, a result was known before, or the peer produced it.
LEMMA InvocationAdds ==
  ASSUME IsStore, NEW p \in Hosts, NEW K, Invocation(p, K)
  PROVE  /\ IsStore'
         /\ Everything' = Everything \cup Fresh(K)
         /\ \A q \in Hosts : known[q] \subseteq known'[q]
<1>1. /\ known' = [q \in Hosts |-> IF q = p THEN K ELSE known[q]]
      /\ known[p] \subseteq K
  BY DEF Invocation, IsStore
<1>2. IsStore'
  BY <1>1 DEF IsStore
<1>3. \A q \in Hosts : known[q] \subseteq known'[q]
  BY <1>1
<1>4. known'[p] = K /\ \A q \in Hosts : known'[q] \subseteq known[q] \cup K
  BY <1>1
<1>5. Everything' \subseteq Everything \cup Fresh(K)
  <2> SUFFICES ASSUME NEW r \in Everything', r \notin Everything
               PROVE  r \in K
    BY DEF Fresh
  <2>1. PICK q \in Hosts : r \in known'[q]
    BY DEF Everything
  <2>2. QED
    BY <1>4, <2>1 DEF Everything
<1>6. Everything \cup Fresh(K) \subseteq Everything'
  BY <1>3, <1>4 DEF Everything, Fresh
<1>7. QED
  BY <1>2, <1>3, <1>5, <1>6

\* A run of the store keeps Agreement, because a peer may only answer calls
\* that have no answer anywhere.
LEMMA InvocationAgrees ==
  ASSUME IsStore, Agreement, NEW p \in Hosts, NEW K, Invocation(p, K)
  PROVE  Agreement'
<1> SUFFICES ASSUME NEW r \in Everything', NEW s \in Everything', CallOf(r) = CallOf(s)
             PROVE  r = s
  BY DEF Agreement
<1>1. r \in Everything \cup Fresh(K) /\ s \in Everything \cup Fresh(K)
  BY InvocationAdds
<1>2. \A x \in Fresh(K) : \A y \in Everything \cup Fresh(K) :
        CallOf(y) = CallOf(x) => y = x
  BY DEF Invocation, MayProduce
<1>3. CASE r \in Everything /\ s \in Everything
  BY <1>3 DEF Agreement
<1>4. CASE r \in Fresh(K)
  BY <1>1, <1>2, <1>4
<1>5. CASE s \in Fresh(K)
  BY <1>1, <1>2, <1>5
<1>6. QED
  BY <1>1, <1>3, <1>4, <1>5

\* A call of the particle has at most one result, on all peers together: what
\* docs/AIR.md means by a scalar that has the same value on each peer.
THEOREM OneResultPerCall == Spec => []Agreement
<1> DEFINE Inv == IsStore /\ Agreement
<1>1. Init => Inv
  BY DEF Init, IsStore, Agreement, Everything
<1>2. Inv /\ [Next]_known => Inv'
  <2> SUFFICES ASSUME Inv, [Next]_known PROVE Inv'
    OBVIOUS
  <2>1. CASE Next
    <3>1. PICK p \in Hosts : Invocation(p, known'[p])
      BY <2>1 DEF Next
    <3>2. QED
      BY <3>1, InvocationAdds, InvocationAgrees
  <2>2. CASE UNCHANGED known
    BY <2>2 DEF IsStore, Agreement, Everything
  <2>3. QED
    BY <2>1, <2>2
<1>3. QED
  BY <1>1, <1>2, PTL DEF Spec

\* A peer that has stored a result keeps it (AVM::call stores the new data
\* over the old one after every invocation).
THEOREM ResultsAreKept == Spec => NeverForgotten
<1>1. Init => IsStore
  BY DEF Init, IsStore
<1>2. IsStore /\ [Next]_known =>
        /\ IsStore'
        /\ [\A p \in Hosts : known[p] \subseteq known'[p]]_known
  <2> SUFFICES ASSUME IsStore, [Next]_known
               PROVE  /\ IsStore'
                      /\ [\A p \in Hosts : known[p] \subseteq known'[p]]_known
    OBVIOUS
  <2>1. CASE Next
    <3>1. PICK p \in Hosts : Invocation(p, known'[p])
      BY <2>1 DEF Next
    <3>2. QED
      BY <3>1, InvocationAdds
  <2>2. CASE UNCHANGED known
    BY <2>2 DEF IsStore
  <2>3. QED
    BY <2>1, <2>2
<1>3. QED
  BY <1>1, <1>2, PTL DEF Spec, NeverForgotten
=============================================================================
