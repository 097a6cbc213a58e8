------------------------ MODULE ParticleNetwork_proofs ------------------------
(***************************************************************************)
(* What holds of a particle on any number of peers, for any scripts,       *)
(* services, crashes and orders of delivery.                               *)
(*                                                                         *)
(* The theorems rest on ExecutionsKeep, what one execution of a script     *)
(* does with the data it is given; TLC checks that of the interpreter,     *)
(* whose recursion over scripts is out of reach here.  The argument then   *)
(* is about the peers together: the multisets of CIDs that a peer has      *)
(* signed are one growing chain, of which every other peer, and every      *)
(* particle under way, has some element.                                   *)
(***************************************************************************)
EXTENDS ParticleNetwork, FiniteSetTheorems, TLAPS

-----------------------------------------------------------------------------
(* The multisets of CIDs (DataVerifier).                                   *)

\* The positions of the trace of d where peer p has signed r.
PositionsOf(d, p, r) == {n \in PeerPositions(d, p) : d.trace[n].cid = r}

\* Data that a peer could have stored or sent, as far as counting goes.
HasFiniteTrace(d) == IsFiniteSet(DOMAIN d.trace)

LEMMA PeerCidsIs ==
  ASSUME NEW d, NEW p
  PROVE  /\ PeerCids(d, p) = [r \in DOMAIN PeerCids(d, p) |-> PeerCids(d, p)[r]]
         /\ DOMAIN PeerCids(d, p) = {d.trace[n].cid : n \in PeerPositions(d, p)}
         /\ \A r \in DOMAIN PeerCids(d, p) :
              PeerCids(d, p)[r] = Cardinality(PositionsOf(d, p, r))
BY DEF PeerCids, PositionsOf

LEMMA PositionsFinite ==
  ASSUME NEW d, NEW p, HasFiniteTrace(d)
  PROVE  /\ IsFiniteSet(PeerPositions(d, p)) /\ CidsLen(d, p) \in Nat
         /\ \A r : IsFiniteSet(PositionsOf(d, p, r)) /\ Cardinality(PositionsOf(d, p, r)) \in Nat
         /\ \A r \in DOMAIN PeerCids(d, p) : PeerCids(d, p)[r] \in Nat
<1>1. PeerPositions(d, p) \subseteq DOMAIN d.trace
  BY DEF PeerPositions
<1>2. IsFiniteSet(PeerPositions(d, p)) /\ CidsLen(d, p) \in Nat
  BY <1>1, FS_Subset, FS_CardinalityType DEF HasFiniteTrace, CidsLen
<1>3. ASSUME NEW r
      PROVE  IsFiniteSet(PositionsOf(d, p, r)) /\ Cardinality(PositionsOf(d, p, r)) \in Nat
  <2>1. PositionsOf(d, p, r) \subseteq PeerPositions(d, p)
    BY DEF PositionsOf
  <2>2. QED
    BY <1>2, <2>1, FS_Subset, FS_CardinalityType
<1>4. QED
  BY <1>2, <1>3, PeerCidsIs

\* A set that is not larger than another can be mapped into it.
LEMMA SmallerInjects ==
  ASSUME NEW S, NEW T, IsFiniteSet(S), IsFiniteSet(T), Cardinality(S) <= Cardinality(T)
  PROVE  \E f : f \in Injection(S, T)
<1>1. PICK m \in Nat : m = Cardinality(S)
  BY FS_CardinalityType
<1>2. PICK n \in Nat : n = Cardinality(T)
  BY FS_CardinalityType
<1>3. m <= n
  BY <1>1, <1>2
<1>4. IsFiniteSet(1 .. m) /\ Cardinality(1 .. m) = m
  BY FS_Interval
<1>5. PICK g : g \in Bijection(S, 1 .. m)
  <2>1. ExistsBijection(S, 1 .. m)
    BY <1>1, <1>4, FS_SameCardinalityBij
  <2>2. QED
    BY <2>1 DEF ExistsBijection
<1>6. PICK h : h \in Bijection(1 .. n, T)
  <2>1. ExistsBijection(1 .. n, T)
    BY <1>2, FS_CardinalityType
  <2>2. QED
    BY <2>1 DEF ExistsBijection
<1>7. \A x \in S : g[x] \in 1 .. n
  BY <1>3, <1>5 DEF Bijection, Injection
<1>8. [x \in S |-> h[g[x]]] \in Injection(S, T)
  BY <1>5, <1>6, <1>7 DEF Bijection, Injection, Surjection, IsInjective
<1>9. QED
  BY <1>8

\* The same, with every position mapped to one of the same CID.
LEMMA SubBagInjects ==
  ASSUME NEW a, NEW b, NEW p, HasFiniteTrace(a), HasFiniteTrace(b),
         PeerCids(a, p) \sqsubseteq PeerCids(b, p)
  PROVE  \E f \in Injection(PeerPositions(a, p), PeerPositions(b, p)) :
           \A n \in PeerPositions(a, p) : b.trace[f[n]].cid = a.trace[n].cid
<1>1. ASSUME NEW r \in DOMAIN PeerCids(a, p)
      PROVE  \E f : f \in Injection(PositionsOf(a, p, r), PositionsOf(b, p, r))
  <2>1. r \in DOMAIN PeerCids(b, p) /\ PeerCids(a, p)[r] <= PeerCids(b, p)[r]
    BY DEF \sqsubseteq
  <2>2. Cardinality(PositionsOf(a, p, r)) <= Cardinality(PositionsOf(b, p, r))
    BY <2>1, PeerCidsIs
  <2>3. IsFiniteSet(PositionsOf(a, p, r)) /\ IsFiniteSet(PositionsOf(b, p, r))
    BY PositionsFinite
  <2>4. QED
    BY <2>2, <2>3, SmallerInjects
<1>2. PICK F : F = [r \in DOMAIN PeerCids(a, p) |->
                      CHOOSE f : f \in Injection(PositionsOf(a, p, r), PositionsOf(b, p, r))]
  OBVIOUS
<1>3. \A r \in DOMAIN PeerCids(a, p) : F[r] \in Injection(PositionsOf(a, p, r), PositionsOf(b, p, r))
  BY <1>1, <1>2
<1>4. PICK f : f = [n \in PeerPositions(a, p) |-> F[a.trace[n].cid][n]]
  OBVIOUS
<1>5. ASSUME NEW n \in PeerPositions(a, p)
      PROVE  /\ a.trace[n].cid \in DOMAIN PeerCids(a, p)
             /\ n \in PositionsOf(a, p, a.trace[n].cid)
             /\ f[n] = F[a.trace[n].cid][n]
             /\ f[n] \in PositionsOf(b, p, a.trace[n].cid)
  <2> DOMAIN PeerCids(a, p) = {a.trace[k].cid : k \in PeerPositions(a, p)}
    BY PeerCidsIs
  <2>1. a.trace[n].cid \in DOMAIN PeerCids(a, p)
    OBVIOUS
  <2>2. n \in PositionsOf(a, p, a.trace[n].cid)
    BY DEF PositionsOf
  <2>3. f[n] = F[a.trace[n].cid][n]
    BY <1>4
  <2>4. PICK r : r = a.trace[n].cid
    OBVIOUS
  <2>5. F[r] \in [PositionsOf(a, p, r) -> PositionsOf(b, p, r)]
    BY <1>3, <2>1, <2>4 DEF Injection
  <2>6. QED
    BY <2>1, <2>2, <2>3, <2>4, <2>5
<1>6. \A n \in PeerPositions(a, p) : f[n] \in PeerPositions(b, p) /\ b.trace[f[n]].cid = a.trace[n].cid
  BY <1>5 DEF PositionsOf
<1>7. ASSUME NEW m \in PeerPositions(a, p), NEW n \in PeerPositions(a, p), f[m] = f[n]
      PROVE  m = n
  <2>1. PICK r : r = a.trace[n].cid
    OBVIOUS
  <2>2. a.trace[m].cid = r
    BY <1>6, <1>7, <2>1
  <2>3. r \in DOMAIN PeerCids(a, p) /\ m \in PositionsOf(a, p, r) /\ n \in PositionsOf(a, p, r)
    BY <1>5, <2>1, <2>2
  <2>4. F[r][m] = F[r][n]
    BY <1>5, <1>7, <2>1, <2>2
  <2>5. \A x, y \in PositionsOf(a, p, r) : F[r][x] = F[r][y] => x = y
    BY <1>3, <2>3 DEF Injection, IsInjective
  <2>6. QED
    BY <2>3, <2>4, <2>5
<1>8. f \in Injection(PeerPositions(a, p), PeerPositions(b, p))
  BY <1>4, <1>6, <1>7 DEF Injection, IsInjective
<1>9. QED
  BY <1>6, <1>8

\* A multiset within another one has fewer CIDs, or is the same ("If the
\* multisets are of same size, they have to be equal", verification.rs).
LEMMA SubBagSmaller ==
  ASSUME NEW a, NEW b, NEW p, HasFiniteTrace(a), HasFiniteTrace(b),
         PeerCids(a, p) \sqsubseteq PeerCids(b, p)
  PROVE  /\ CidsLen(a, p) <= CidsLen(b, p)
         /\ CidsLen(a, p) = CidsLen(b, p) => PeerCids(a, p) = PeerCids(b, p)
<1> DEFINE A == PeerPositions(a, p)
           B == PeerPositions(b, p)
<1>1. PICK f \in Injection(A, B) : \A n \in A : b.trace[f[n]].cid = a.trace[n].cid
  BY SubBagInjects
<1>2. IsFiniteSet(A) /\ IsFiniteSet(B)
  BY PositionsFinite
<1>3. CidsLen(a, p) = Cardinality(A) /\ CidsLen(b, p) = Cardinality(B)
  BY DEF CidsLen
<1>4. Cardinality(A) <= Cardinality(B) /\ (Cardinality(A) = Cardinality(B) => f \in Surjection(A, B))
  <2> HIDE DEF A, B
  <2> QED
    BY <1>1, <1>2, FS_Injection
<1>5. ASSUME CidsLen(a, p) = CidsLen(b, p)
      PROVE  PeerCids(a, p) = PeerCids(b, p)
  <2>1. f \in Surjection(A, B) /\ f \in [A -> B]
    BY <1>1, <1>3, <1>4, <1>5 DEF Injection
  <2>2. \A k \in B : \E n \in A : f[n] = k
    BY <2>1 DEF Surjection
  <2>3. DOMAIN PeerCids(a, p) = {a.trace[n].cid : n \in A}
    BY PeerCidsIs
  <2>4. DOMAIN PeerCids(b, p) = {b.trace[n].cid : n \in B}
    BY PeerCidsIs
  <2>5. DOMAIN PeerCids(a, p) = DOMAIN PeerCids(b, p)
    BY <1>1, <2>1, <2>2, <2>3, <2>4
  <2>6. ASSUME NEW r \in DOMAIN PeerCids(a, p)
        PROVE  PeerCids(a, p)[r] = PeerCids(b, p)[r]
    <3> DEFINE S == PositionsOf(a, p, r)
               T == PositionsOf(b, p, r)
               g == [n \in S |-> f[n]]
    <3>1. IsFiniteSet(S) /\ Cardinality(S) \in Nat /\ Cardinality(T) \in Nat
      BY PositionsFinite
    <3>2. g \in [S -> T]
      BY <1>1, <2>1 DEF PositionsOf
    <3>3. \A k \in T : \E n \in S : g[n] = k
      BY <1>1, <2>2 DEF PositionsOf
    <3>4. g \in Surjection(S, T)
      BY <3>2, <3>3 DEF Surjection
    <3>5. Cardinality(T) <= Cardinality(S)
      <4> HIDE DEF S, T, g
      <4> QED
        BY <3>1, <3>4, FS_Surjection
    <3>6. PeerCids(a, p)[r] = Cardinality(S)
      BY PeerCidsIs
    <3>7. PeerCids(b, p)[r] = Cardinality(T)
      BY <2>5, PeerCidsIs
    <3>8. PeerCids(a, p)[r] <= PeerCids(b, p)[r]
      BY DEF \sqsubseteq
    <3> HIDE DEF S, T, g
    <3>9. QED
      BY <3>1, <3>5, <3>6, <3>7, <3>8
  <2>7. /\ PeerCids(a, p) = [r \in DOMAIN PeerCids(a, p) |-> PeerCids(a, p)[r]]
        /\ PeerCids(b, p) = [r \in DOMAIN PeerCids(b, p) |-> PeerCids(b, p)[r]]
    BY PeerCidsIs
  <2>8. QED
    BY <2>5, <2>6, <2>7
<1>6. QED
  BY <1>3, <1>4, <1>5

LEMMA SubBagReflexive ==
  ASSUME NEW d, NEW p, HasFiniteTrace(d)
  PROVE  PeerCids(d, p) \sqsubseteq PeerCids(d, p)
<1>1. \A r \in DOMAIN PeerCids(d, p) : PeerCids(d, p)[r] \in Nat
  BY PositionsFinite
<1>2. QED
  BY <1>1 DEF \sqsubseteq

LEMMA SubBagTransitive ==
  ASSUME NEW a, NEW b, NEW c, NEW p, HasFiniteTrace(a), HasFiniteTrace(b), HasFiniteTrace(c),
         PeerCids(a, p) \sqsubseteq PeerCids(b, p), PeerCids(b, p) \sqsubseteq PeerCids(c, p)
  PROVE  PeerCids(a, p) \sqsubseteq PeerCids(c, p)
<1>1. /\ \A r \in DOMAIN PeerCids(a, p) : PeerCids(a, p)[r] \in Nat
      /\ \A r \in DOMAIN PeerCids(b, p) : PeerCids(b, p)[r] \in Nat
      /\ \A r \in DOMAIN PeerCids(c, p) : PeerCids(c, p)[r] \in Nat
  BY PositionsFinite
<1>2. QED
  BY <1>1 DEF \sqsubseteq

\* Two multisets of a peer that has only ever added to its CIDs.
Comparable(a, b, p) == \/ PeerCids(a, p) \sqsubseteq PeerCids(b, p)
                       \/ PeerCids(b, p) \sqsubseteq PeerCids(a, p)

\* check_cid_multiset_invariant accepts exactly these, in whatever order they
\* are given.
LEMMA ConsistentIsComparable ==
  ASSUME NEW a, NEW b, NEW p, HasFiniteTrace(a), HasFiniteTrace(b)
  PROVE  MultisetsConsistent(a, b, p) <=> Comparable(a, b, p)
<1>1. CidsLen(a, p) \in Nat /\ CidsLen(b, p) \in Nat
  BY PositionsFinite
<1>2. MultisetsConsistent(a, b, p) => Comparable(a, b, p)
  BY DEF MultisetsConsistent, Comparable, Larger, Smaller
<1>3. CASE PeerCids(a, p) \sqsubseteq PeerCids(b, p)
  <2>1. /\ CidsLen(a, p) <= CidsLen(b, p)
        /\ CidsLen(a, p) = CidsLen(b, p) => PeerCids(a, p) = PeerCids(b, p)
    BY <1>3, SubBagSmaller
  <2>2. CASE CidsLen(a, p) < CidsLen(b, p)
    BY <1>3, <2>2 DEF MultisetsConsistent, Comparable, Larger, Smaller
  <2>3. CASE CidsLen(a, p) = CidsLen(b, p)
    <3>1. PeerCids(a, p) = PeerCids(b, p) /\ ~(CidsLen(a, p) < CidsLen(b, p))
      BY <1>1, <2>1, <2>3
    <3>2. QED
      BY <1>3, <3>1 DEF MultisetsConsistent, Comparable, Larger, Smaller
  <2>4. QED
    BY <1>1, <2>1, <2>2, <2>3
<1>4. CASE PeerCids(b, p) \sqsubseteq PeerCids(a, p)
  <2>1. CidsLen(b, p) <= CidsLen(a, p)
    BY <1>4, SubBagSmaller
  <2>2. ~(CidsLen(a, p) < CidsLen(b, p))
    BY <1>1, <2>1
  <2>3. QED
    BY <1>4, <2>2 DEF MultisetsConsistent, Comparable, Larger, Smaller
<1>5. QED
  BY <1>2, <1>3, <1>4 DEF Comparable

LEMMA ConsistentLarger ==
  ASSUME NEW a, NEW b, NEW p, HasFiniteTrace(a), HasFiniteTrace(b), Comparable(a, b, p)
  PROVE  /\ PeerCids(Larger(a, b, p), p) = PeerCids(Larger(b, a, p), p)
         /\ PeerCids(a, p) \sqsubseteq PeerCids(Larger(a, b, p), p)
         /\ PeerCids(b, p) \sqsubseteq PeerCids(Larger(a, b, p), p)
<1>1. CidsLen(a, p) \in Nat /\ CidsLen(b, p) \in Nat
  BY PositionsFinite
<1>2. PeerCids(a, p) \sqsubseteq PeerCids(a, p) /\ PeerCids(b, p) \sqsubseteq PeerCids(b, p)
  BY SubBagReflexive
<1>3. CASE PeerCids(a, p) \sqsubseteq PeerCids(b, p)
  <2>1. /\ CidsLen(a, p) <= CidsLen(b, p)
        /\ CidsLen(a, p) = CidsLen(b, p) => PeerCids(a, p) = PeerCids(b, p)
    BY <1>3, SubBagSmaller
  <2>2. QED
    BY <1>1, <1>2, <1>3, <2>1 DEF Larger
<1>4. CASE PeerCids(b, p) \sqsubseteq PeerCids(a, p)
  <2>1. /\ CidsLen(b, p) <= CidsLen(a, p)
        /\ CidsLen(b, p) = CidsLen(a, p) => PeerCids(b, p) = PeerCids(a, p)
    BY <1>4, SubBagSmaller
  <2>2. QED
    BY <1>1, <1>2, <1>4, <2>1 DEF Larger
<1>5. QED
  BY <1>3, <1>4 DEF Comparable

\* DataVerifier::verify and DataVerifier::merge do not depend on which of two
\* data is the previous one: data that passes in one order passes in the other
\* and gives the same signatures ("The result is same regardless argument
\* order", verification.rs).
THEOREM MergeIsSymmetric ==
  ASSUME NEW a, NEW b, HasFiniteTrace(a), HasFiniteTrace(b),
         SignaturesValid(a), Verified(a, b)
  PROVE  Verified(b, a) /\ MergeSignatures(a, b) = MergeSignatures(b, a)
<1>1. ASSUME NEW p \in BothSigned(a, b)
      PROVE  /\ MultisetsConsistent(b, a, p)
             /\ Larger(a, b, p).sigs[p] = Larger(b, a, p).sigs[p]
  <2>1. Comparable(a, b, p) /\ Comparable(b, a, p)
    <3>1. MultisetsConsistent(a, b, p)
      BY DEF Verified
    <3>2. QED
      BY <3>1, ConsistentIsComparable DEF Comparable
  <2>2. PeerCids(Larger(a, b, p), p) = PeerCids(Larger(b, a, p), p)
    BY <2>1, ConsistentLarger
  <2>3. a.sigs[p] = PeerCids(a, p) /\ b.sigs[p] = PeerCids(b, p)
    BY DEF Verified, SignaturesValid, BothSigned
  <2>4. QED
    BY <2>1, <2>2, <2>3, ConsistentIsComparable DEF Larger
<1>2. Verified(b, a)
  <2>1. BothSigned(b, a) = BothSigned(a, b)
    BY DEF BothSigned
  <2>2. QED
    BY <1>1, <2>1 DEF Verified
<1>3. \A p \in DOMAIN a.sigs \cap DOMAIN b.sigs : Larger(a, b, p).sigs[p] = Larger(b, a, p).sigs[p]
  BY <1>1 DEF BothSigned
<1>4. MergeSignatures(a, b) = MergeSignatures(b, a)
  BY <1>3 DEF MergeSignatures
<1>5. QED
  BY <1>2, <1>4

-----------------------------------------------------------------------------
(* Data that is signed as it should be.                                    *)

\* What every stored data is: its producers are peers, and the signatures are
\* those of the results that are in the trace.
SoundData(d) ==
  /\ HasFiniteTrace(d)
  /\ \A r \in Known(d) : r.peer \in Peers
  /\ DOMAIN d.sigs \subseteq Peers
  /\ d.sigs = [p \in DOMAIN d.sigs |-> d.sigs[p]]
  /\ KeysComplete(d)
  /\ SignaturesValid(d)

LEMMA NoPositions ==
  ASSUME NEW d, NEW p, PeerPositions(d, p) = {}
  PROVE  CidsLen(d, p) = 0 /\ DOMAIN PeerCids(d, p) = {}
<1>1. CidsLen(d, p) = 0
  BY FS_EmptySet DEF CidsLen
<1>2. DOMAIN PeerCids(d, p) = {d.trace[n].cid : n \in PeerPositions(d, p)}
  BY PeerCidsIs
<1>3. QED
  BY <1>1, <1>2

LEMMA EmptyDataIsSound ==
  /\ SoundData(EmptyData) /\ EmptyData.lastId = 0 /\ Known(EmptyData) = {}
  /\ \A p : CidsLen(EmptyData, p) = 0 /\ DOMAIN PeerCids(EmptyData, p) = {}
<1>1. DOMAIN EmptyData.trace = {} /\ DOMAIN EmptyData.sigs = {} /\ EmptyData.lastId = 0
  BY DEF EmptyData
<1>2. EmptyData.sigs = [p \in DOMAIN EmptyData.sigs |-> EmptyData.sigs[p]]
  BY DEF EmptyData
<1>3. HasFiniteTrace(EmptyData)
  BY <1>1, FS_EmptySet DEF HasFiniteTrace
<1>4. Known(EmptyData) = {}
  BY <1>1 DEF Known
<1>5. KeysComplete(EmptyData) /\ SignaturesValid(EmptyData)
  BY <1>1 DEF KeysComplete, SignaturesValid
<1>6. \A p : PeerPositions(EmptyData, p) = {}
  BY <1>1 DEF PeerPositions
<1>7. ASSUME NEW p
      PROVE  CidsLen(EmptyData, p) = 0 /\ DOMAIN PeerCids(EmptyData, p) = {}
  BY <1>6, NoPositions
<1>8. QED
  BY <1>1, <1>2, <1>3, <1>4, <1>5, <1>7 DEF SoundData

\* The results of a data, by the peers that have produced them.
LEMMA KnownByPeer ==
  ASSUME NEW d, NEW r
  PROVE  r \in Known(d) <=> r \in DOMAIN PeerCids(d, r.peer)
<1>1. DOMAIN PeerCids(d, r.peer) = {d.trace[n].cid : n \in PeerPositions(d, r.peer)}
  BY PeerCidsIs
<1>2. QED
  BY <1>1 DEF Known, PeerPositions

\* A peer without a signature has produced nothing that is in the data.
LEMMA UnsignedIsEmpty ==
  ASSUME NEW d, NEW p, SoundData(d), p \notin DOMAIN d.sigs
  PROVE  CidsLen(d, p) = 0 /\ DOMAIN PeerCids(d, p) = {}
<1>1. PeerPositions(d, p) = {}
  BY DEF SoundData, KeysComplete, PeerPositions
<1>2. QED
  BY <1>1, NoPositions

LEMMA EmptyIsComparable ==
  ASSUME NEW a, NEW b, NEW p, DOMAIN PeerCids(a, p) = {}
  PROVE  PeerCids(a, p) \sqsubseteq PeerCids(b, p)
BY DEF \sqsubseteq

\* Of two sound data that pass the verifier, all multisets are comparable: those
\* of a peer that has signed only one of them, too.
LEMMA VerifiedIsComparable ==
  ASSUME NEW a, NEW b, NEW p, SoundData(a), SoundData(b), Verified(a, b)
  PROVE  Comparable(a, b, p)
<1>1. CASE p \in BothSigned(a, b)
  BY <1>1, ConsistentIsComparable DEF Verified, SoundData
<1>2. CASE p \notin DOMAIN a.sigs
  BY <1>2, UnsignedIsEmpty, EmptyIsComparable DEF Comparable
<1>3. CASE p \notin DOMAIN b.sigs
  BY <1>3, UnsignedIsEmpty, EmptyIsComparable DEF Comparable
<1>4. QED
  BY <1>1, <1>2, <1>3 DEF BothSigned

\* merge: each signature is that of the larger multiset, for the peers that have
\* signed only one of the data, too.
LEMMA MergedSignature ==
  ASSUME NEW a, NEW b, SoundData(a), SoundData(b), Verified(a, b),
         NEW p \in DOMAIN MergeSignatures(a, b)
  PROVE  MergeSignatures(a, b)[p] = PeerCids(Larger(a, b, p), p)
<1>1. p \in DOMAIN a.sigs => a.sigs[p] = PeerCids(a, p)
  BY DEF SoundData, SignaturesValid
<1>2. p \in DOMAIN b.sigs => b.sigs[p] = PeerCids(b, p)
  BY DEF SoundData, SignaturesValid
<1>3. p \in DOMAIN a.sigs \cup DOMAIN b.sigs
  BY DEF MergeSignatures
<1>4. CidsLen(a, p) \in Nat /\ CidsLen(b, p) \in Nat
  BY PositionsFinite DEF SoundData
<1>5. CASE p \in DOMAIN a.sigs /\ p \in DOMAIN b.sigs
  BY <1>1, <1>2, <1>5 DEF MergeSignatures, Larger
<1>6. CASE p \notin DOMAIN b.sigs
  <2>1. CidsLen(b, p) = 0
    BY <1>6, UnsignedIsEmpty
  <2>2. QED
    BY <1>1, <1>3, <1>4, <1>6, <2>1 DEF MergeSignatures, Larger
<1>7. CASE p \notin DOMAIN a.sigs
  <2>1. PeerCids(a, p) \sqsubseteq PeerCids(b, p) /\ CidsLen(a, p) = 0
    BY <1>7, UnsignedIsEmpty, EmptyIsComparable
  <2>2. CidsLen(a, p) = CidsLen(b, p) => PeerCids(a, p) = PeerCids(b, p)
    BY <2>1, SubBagSmaller DEF SoundData
  <2>3. PeerCids(Larger(a, b, p), p) = PeerCids(b, p)
    BY <1>4, <2>1, <2>2 DEF Larger
  <2>4. QED
    BY <1>2, <1>3, <1>7, <2>3 DEF MergeSignatures
<1>8. QED
  BY <1>5, <1>6, <1>7

-----------------------------------------------------------------------------
(* One invocation.                                                         *)

\* The run of a script at p makes d of prev and cur.
Learns(p, prev, cur, d) ==
  /\ SoundData(d)
  /\ DOMAIN prev.sigs \cup DOMAIN cur.sigs \subseteq DOMAIN d.sigs
  /\ \A q \in Peers : PeerCids(prev, q) \sqsubseteq PeerCids(d, q)
  /\ \A q \in Peers \ {p} : PeerCids(cur, q) \sqsubseteq PeerCids(d, q)
  /\ \A q \in Peers \ {p} : PeerCids(d, q) \in {PeerCids(prev, q), PeerCids(cur, q)}
  /\ \A r, s \in Known(d) : r.peer = p /\ s.peer = p /\ CallId(r) = CallId(s) => r = s

LEMMA NewDataIs ==
  ASSUME NEW c, NEW prev, NEW cur, Stores(c)
  PROVE  /\ NewData(c, prev, cur).sigs = SignResult(c, MergeSignatures(prev, cur))
         /\ NewData(c, prev, cur).lastId = c.lastId
         /\ OutcomeOf(c, prev, cur).data = NewData(c, prev, cur)
         /\ OutcomeOf(c, prev, cur).next = c.next
         /\ OutcomeOf(c, prev, cur).requests = c.requests
BY DEF NewData, Stores, Farewell, Outcome, OutcomeOf

LEMMA NewDataLearns ==
  ASSUME NEW p \in Peers, NEW prev, NEW cur, SoundData(prev), SoundData(cur),
         Verified(prev, cur), NEW c, Stores(c), ContractOf(p, prev, cur, c)
  PROVE  Learns(p, prev, cur, NewData(c, prev, cur))
<1>1. PICK d : d = NewData(c, prev, cur)
  OBVIOUS
<1>2. PICK M : M = MergeSignatures(prev, cur)
  OBVIOUS
<1>3. d.sigs = Extended([q \in {c.self} |-> c.cids], M)
  BY <1>1, <1>2, NewDataIs DEF SignResult
<1>4. /\ IsFiniteSet(DOMAIN d.trace)
      /\ \A r \in Known(d) : r.peer \in Peers
      /\ KeepsOthers(p, prev, cur, d)
      /\ KeepsOwn(p, prev, d, c)
      /\ \A r, s \in Known(d) : r.peer = p /\ s.peer = p /\ CallId(r) = CallId(s) => r = s
  BY <1>1 DEF ContractOf
<1>5. DOMAIN M = DOMAIN prev.sigs \cup DOMAIN cur.sigs
  BY <1>2 DEF MergeSignatures
<1>6. c.self = p /\ c.cids = PeerCids(d, p) /\ PeerCids(prev, p) \sqsubseteq PeerCids(d, p)
  BY <1>4 DEF KeepsOwn
<1>7. /\ DOMAIN d.sigs = {p} \cup DOMAIN M
      /\ d.sigs[p] = PeerCids(d, p)
      /\ \A q \in DOMAIN M \ {p} : d.sigs[q] = M[q]
  BY <1>3, <1>6 DEF Extended
<1>8. DOMAIN d.sigs \subseteq Peers
  BY <1>5, <1>7 DEF SoundData
<1>9. ASSUME NEW q \in Peers, q # p
      PROVE  /\ PeerCids(d, q) = PeerCids(Larger(prev, cur, q), q)
             /\ PeerCids(d, q) \in {PeerCids(prev, q), PeerCids(cur, q)}
             /\ PeerCids(prev, q) \sqsubseteq PeerCids(d, q)
             /\ PeerCids(cur, q) \sqsubseteq PeerCids(d, q)
  <2>1. PeerCids(d, q) = PeerCids(Larger(prev, cur, q), q)
    BY <1>4, <1>9 DEF KeepsOthers
  <2>2. Comparable(prev, cur, q)
    BY VerifiedIsComparable
  <2>3. /\ PeerCids(prev, q) \sqsubseteq PeerCids(Larger(prev, cur, q), q)
        /\ PeerCids(cur, q) \sqsubseteq PeerCids(Larger(prev, cur, q), q)
    BY <2>2, ConsistentLarger DEF SoundData
  <2>4. QED
    BY <2>1, <2>3 DEF Larger
<1>10. SignaturesValid(d)
  <2> SUFFICES ASSUME NEW q \in DOMAIN d.sigs, q # p
               PROVE  d.sigs[q] = PeerCids(d, q)
    BY <1>7 DEF SignaturesValid
  <2>1. q \in DOMAIN M /\ q \in Peers
    BY <1>7, <1>8
  <2>2. M[q] = PeerCids(Larger(prev, cur, q), q)
    BY <1>2, <2>1, MergedSignature
  <2>3. QED
    BY <1>7, <1>9, <2>1, <2>2
<1>11. KeysComplete(d)
  <2> SUFFICES ASSUME NEW n \in DOMAIN d.trace, SignedState(d.trace[n])
               PROVE  d.trace[n].cid.peer \in DOMAIN d.sigs
    BY DEF KeysComplete
  <2>1. PICK r : r = d.trace[n].cid
    OBVIOUS
  <2>2. PICK q : q = r.peer
    OBVIOUS
  <2>3. r \in Known(d)
    BY <2>1 DEF Known
  <2>4. q \in Peers /\ r \in DOMAIN PeerCids(d, q)
    BY <1>4, <2>2, <2>3, KnownByPeer
  <2>5. CASE q = p
    BY <1>7, <2>1, <2>2, <2>5
  <2>6. CASE q # p
    <3>1. r \in DOMAIN PeerCids(prev, q) \/ r \in DOMAIN PeerCids(cur, q)
      BY <1>9, <2>4, <2>6
    <3>2. q \in DOMAIN prev.sigs \/ q \in DOMAIN cur.sigs
      BY <3>1, UnsignedIsEmpty
    <3>3. QED
      BY <1>5, <1>7, <2>1, <2>2, <3>2
  <2>7. QED
    BY <2>5, <2>6
<1>12. d.sigs = [q \in DOMAIN d.sigs |-> d.sigs[q]]
  BY <1>3 DEF Extended
<1>13. SoundData(d)
  BY <1>4, <1>8, <1>10, <1>11, <1>12 DEF SoundData, HasFiniteTrace
<1>14. DOMAIN prev.sigs \cup DOMAIN cur.sigs \subseteq DOMAIN d.sigs
  BY <1>5, <1>7
<1>15. \A q \in Peers : PeerCids(prev, q) \sqsubseteq PeerCids(d, q)
  BY <1>6, <1>9
<1>16. QED
  BY <1>1, <1>4, <1>9, <1>13, <1>14, <1>15 DEF Learns

\* How an invocation ends: the previous data and nothing to do, or what the
\* execution has made.
Refused(p, o) ==
  /\ o.data = store[p] /\ o.next = {} /\ o.requests = <<>>
  /\ o.ret.kind = "uncatchable"

Succeeds(p, cur, o) ==
  /\ Verified(store[p], cur)
  /\ \E c : /\ Stores(c) /\ ContractOf(p, store[p], cur, c)
            /\ o.data = NewData(c, store[p], cur)
            /\ o.next = c.next /\ o.requests = c.requests

\* An invocation stores what it has learned, or nothing at all.
LEMMA InvokeCases ==
  ASSUME ExecutionsKeep, NEW p \in Peers, NEW cur \in Given(p),
         NEW R \in SUBSET DOMAIN results[p],
         NEW o, o = Invoke(script, p, InitPeer, store[p], cur, Restricted(results[p], R))
  PROVE  \/ o = Corrupted
         \/ Refused(p, o)
         \/ Succeeds(p, cur, o)
<1>1. CASE ~Verified(store[p], cur)
  BY <1>1 DEF Invoke, Rejected, Outcome, Refused, Uncatchable
<1>2. CASE Verified(store[p], cur)
  <2>1. PICK c : c = execute(script, Prepare(p, InitPeer, store[p], cur, Restricted(results[p], R)))
    OBVIOUS
  <2>2. o = OutcomeOf(c, store[p], cur)
    BY <1>2, <2>1 DEF Invoke
  <2>3. Stores(c) => ContractOf(p, store[p], cur, c)
    BY <1>2, <2>1 DEF ExecutionsKeep
  <2>4. CASE Stores(c)
    BY <1>2, <2>2, <2>3, <2>4, NewDataIs DEF Succeeds
  <2>5. CASE ~(IsOk(c) \/ IsCatchable(c))
    BY <2>2, <2>5 DEF OutcomeOf, Rejected, Outcome, Refused, Uncatchable
  <2>6. CASE (IsOk(c) \/ IsCatchable(c)) /\ ~CanCompactifyStreams(c)
    BY <2>2, <2>6 DEF OutcomeOf, Farewell
  <2>7. QED
    BY <2>4, <2>5, <2>6 DEF Stores
<1>3. QED
  BY <1>1, <1>2

-----------------------------------------------------------------------------
(* The inductive invariant.                                                *)

\* All the data there is: stored, or on its way.
AllData == {EmptyData} \cup {store[p] : p \in Peers} \cup {m.data : m \in sent}

\* All the data is sound; of each peer, it has multisets that are prefixes of
\* one another, and the last of them is the one which that peer has stored.
SignedInv ==
  /\ store = [p \in Peers |-> store[p]]
  /\ \A d \in AllData : SoundData(d)
  /\ \A q \in Peers : \A a, b \in AllData : Comparable(a, b, q)
  /\ \A q \in Peers : \A d \in AllData : PeerCids(d, q) \sqsubseteq PeerCids(store[q], q)

\* The type invariant, and that a peer has given out no request id above the one
\* that it has stored.
IdsInv ==
  /\ TypeOK
  /\ requests = [p \in Peers |-> requests[p]]
  /\ results = [p \in Peers |-> results[p]]
  /\ asked = [p \in Peers |-> asked[p]]
  /\ \A p \in Peers : \A a \in asked[p] : a.id \in 1 .. store[p].lastId
  /\ IdsGivenOnce

\* What an invocation at p does: d is what it stores, asks what it asks its
\* services and nx whom it wants to send to.
Effect(p, R, d, asks, nx) ==
  /\ store' = [store EXCEPT ![p] = d]
  /\ results' = [results EXCEPT ![p] = Restricted(@, DOMAIN @ \ R)]
  /\ requests' = [requests EXCEPT ![p] = Extended(asks, @)]
  /\ asked' = [asked EXCEPT ![p] = @ \cup {[id |-> i, call |-> asks[i]] : i \in DOMAIN asks}]
  /\ outbox' = [outbox EXCEPT ![p] = @ \cup nx]
  /\ UNCHANGED <<script, sent, crashes>>

LEMMA GivenIsData ==
  ASSUME NEW p \in Peers
  PROVE  Given(p) \subseteq AllData /\ store[p] \in AllData
BY DEF Given, AllData

LEMMA CallEffect ==
  ASSUME SignedInv, ExecutionsKeep, NEW p \in Peers, store[p].lastId \in Nat,
         NEW cur \in Given(p), NEW R \in SUBSET DOMAIN results[p], CallAVM(p, cur, R)
  PROVE  \E d, asks, nx :
           /\ Effect(p, R, d, asks, nx)
           /\ d = store[p] \/ Learns(p, store[p], cur, d)
           /\ d.lastId \in Nat /\ store[p].lastId <= d.lastId
           /\ DOMAIN asks \subseteq (store[p].lastId + 1) .. d.lastId
           /\ nx \subseteq Peers
<1>1. PICK o : /\ o = Invoke(script, p, InitPeer, store[p], cur, Restricted(results[p], R))
               /\ TakeOutcome(p, o, R)
  BY DEF CallAVM
<1>2. CASE o = Corrupted
  <2>1. o.next = {} /\ o.requests = <<>> /\ DOMAIN o.requests = {}
    BY <1>2 DEF Corrupted, Outcome
  <2>2. Effect(p, R, store[p], o.requests, o.next)
    BY <1>1, <1>2 DEF TakeOutcome, Effect
  <2>3. QED
    BY <2>1, <2>2
<1>3. CASE o # Corrupted
  <2>1. Effect(p, R, o.data, o.requests, o.next)
    BY <1>1, <1>3 DEF TakeOutcome, Effect
  <2>2. CASE Refused(p, o)
    <3>1. o.data = store[p] /\ o.next = {} /\ DOMAIN o.requests = {}
      BY <2>2 DEF Refused
    <3>2. QED
      BY <2>1, <3>1
  <2>3. CASE Succeeds(p, cur, o)
    <3> Verified(store[p], cur)
      BY <2>3 DEF Succeeds
    <3>1. PICK c : /\ Stores(c) /\ ContractOf(p, store[p], cur, c)
                   /\ o.data = NewData(c, store[p], cur)
                   /\ o.next = c.next /\ o.requests = c.requests
      BY <2>3 DEF Succeeds
    <3>2. SoundData(store[p]) /\ SoundData(cur)
      BY GivenIsData DEF SignedInv
    <3>3. Learns(p, store[p], cur, o.data)
      BY <3>1, <3>2, NewDataLearns
    <3>4. o.data.lastId = c.lastId
      BY <3>1, NewDataIs
    <3>5. /\ c.lastId \in Nat /\ store[p].lastId <= c.lastId
          /\ DOMAIN c.requests \subseteq (store[p].lastId + 1) .. c.lastId
          /\ c.next \subseteq Peers
      BY <3>1 DEF ContractOf, NumbersRequests
    <3>6. QED
      BY <2>1, <3>1, <3>3, <3>4, <3>5
  <2>4. Refused(p, o) \/ Succeeds(p, cur, o)
    BY <1>1, <1>3, InvokeCases
  <2>5. QED
    BY <2>2, <2>3, <2>4
<1>4. QED
  BY <1>2, <1>3

\* The chains grow at their ends only: at q's own store.
LEMMA StoringKeepsSignedInv ==
  ASSUME SignedInv, NEW p \in Peers, NEW cur \in AllData, NEW d,
         d = store[p] \/ Learns(p, store[p], cur, d),
         store' = [store EXCEPT ![p] = d], sent' = sent
  PROVE  SignedInv'
<1>1. store' = [q \in Peers |-> IF q = p THEN d ELSE store[q]]
  BY DEF SignedInv
<1>2. AllData' \subseteq AllData \cup {d} /\ store[p] \in AllData
  BY <1>1 DEF AllData
<1>3. \A x \in AllData : SoundData(x) /\ HasFiniteTrace(x)
  BY DEF SignedInv, SoundData
<1>4. SoundData(d) /\ HasFiniteTrace(d)
  BY <1>2, <1>3 DEF Learns, SoundData
<1>5. PeerCids(store[p], p) \sqsubseteq PeerCids(d, p)
  BY <1>2, <1>3, SubBagReflexive DEF Learns
<1>6. \A q \in Peers \ {p} : \E y \in AllData : PeerCids(d, q) = PeerCids(y, q)
  BY <1>2 DEF Learns
<1>7. \A x \in AllData : PeerCids(x, p) \sqsubseteq PeerCids(d, p)
  <2> TAKE x \in AllData
  <2>1. PeerCids(x, p) \sqsubseteq PeerCids(store[p], p)
    BY DEF SignedInv
  <2>2. QED
    BY <1>2, <1>3, <1>4, <1>5, <2>1, SubBagTransitive
<1>8. PeerCids(d, p) \sqsubseteq PeerCids(d, p)
  BY <1>4, SubBagReflexive
<1>9. ASSUME NEW q \in Peers, NEW a \in AllData \cup {d}, NEW b \in AllData \cup {d}
       PROVE  Comparable(a, b, q)
  <2>1. CASE q = p
    <3>1. CASE a \in AllData /\ b \in AllData
      BY <3>1 DEF SignedInv
    <3>2. CASE a = d
      BY <1>7, <1>8, <2>1, <3>2 DEF Comparable
    <3>3. CASE b = d
      BY <1>7, <1>8, <2>1, <3>3 DEF Comparable
    <3>4. QED
      BY <3>1, <3>2, <3>3
  <2>2. CASE q # p
    <3>1. PICK x \in AllData : PeerCids(a, q) = PeerCids(x, q)
      BY <1>6, <2>2
    <3>2. PICK y \in AllData : PeerCids(b, q) = PeerCids(y, q)
      BY <1>6, <2>2
    <3>3. Comparable(x, y, q)
      BY DEF SignedInv
    <3>4. QED
      BY <3>1, <3>2, <3>3 DEF Comparable
  <2>3. QED
    BY <2>1, <2>2
<1>10. ASSUME NEW q \in Peers, NEW x \in AllData \cup {d}
       PROVE  PeerCids(x, q) \sqsubseteq PeerCids(store'[q], q)
  <2>1. CASE q = p
    <3>1. store'[q] = d
      BY <1>1, <2>1
    <3>2. QED
      BY <1>7, <1>8, <2>1, <3>1
  <2>2. CASE q # p
    <3>1. store'[q] = store[q]
      BY <1>1, <2>2
    <3>2. PICK y \in AllData : PeerCids(x, q) = PeerCids(y, q)
      BY <1>6, <2>2
    <3>3. PeerCids(y, q) \sqsubseteq PeerCids(store[q], q)
      BY DEF SignedInv
    <3>4. QED
      BY <3>1, <3>2, <3>3
  <2>3. QED
    BY <2>1, <2>2
<1>11. store' = [q \in Peers |-> store'[q]]
  BY <1>1
<1>12. \A x \in AllData' : SoundData(x)
  BY <1>2, <1>3, <1>4
<1>13. QED
  BY <1>2, <1>9, <1>10, <1>11, <1>12 DEF SignedInv

\* Sending makes no new data.
LEMMA SameDataKeepsSignedInv ==
  ASSUME SignedInv, store' = store, AllData' \subseteq AllData
  PROVE  SignedInv'
BY DEF SignedInv

\* An invocation gives out ids above all the earlier ones.
LEMMA EffectKeepsIdsInv ==
  ASSUME IdsInv, SignedInv, SignedInv', NEW p \in Peers, NEW R, NEW d, NEW asks, NEW nx,
         Effect(p, R, d, asks, nx), d.lastId \in Nat, store[p].lastId <= d.lastId,
         DOMAIN asks \subseteq (store[p].lastId + 1) .. d.lastId, nx \subseteq Peers
  PROVE  IdsInv'
<1>1. store' = [q \in Peers |-> IF q = p THEN d ELSE store[q]]
  BY DEF Effect, SignedInv
<1>2. requests' = [q \in Peers |-> IF q = p THEN Extended(asks, requests[p]) ELSE requests[q]]
  BY DEF Effect, IdsInv
<1>3. results' = [q \in Peers |-> IF q = p THEN Restricted(results[p], DOMAIN results[p] \ R)
                                           ELSE results[q]]
  BY DEF Effect, IdsInv
<1>4. asked' = [q \in Peers |->
                  IF q = p THEN asked[p] \cup {[id |-> i, call |-> asks[i]] : i \in DOMAIN asks}
                           ELSE asked[q]]
  BY DEF Effect, IdsInv
<1>5. outbox' = [q \in Peers |-> IF q = p THEN outbox[p] \cup nx ELSE outbox[q]]
  BY DEF Effect, IdsInv, TypeOK
<1>6. sent' = sent /\ crashes' = crashes
  BY DEF Effect
<1>7. /\ DOMAIN requests'[p] = DOMAIN asks \cup DOMAIN requests[p]
      /\ DOMAIN results'[p] \subseteq DOMAIN results[p]
  BY <1>2, <1>3 DEF Extended, Restricted
<1>8. /\ store[p].lastId \in Nat
      /\ DOMAIN requests[p] \subseteq 1 .. store[p].lastId
      /\ DOMAIN results[p] \subseteq 1 .. store[p].lastId
      /\ DOMAIN requests[p] \cap DOMAIN results[p] = {}
  BY DEF IdsInv, TypeOK
<1>9. store'[p] = d
  BY <1>1
<1>10. /\ store'[p].lastId \in Nat
       /\ DOMAIN requests'[p] \subseteq 1 .. store'[p].lastId
       /\ DOMAIN results'[p] \subseteq 1 .. store'[p].lastId
       /\ DOMAIN requests'[p] \cap DOMAIN results'[p] = {}
  <2>1. \A i \in 1 .. store[p].lastId : /\ i \in 1 .. d.lastId
                                         /\ i \notin (store[p].lastId + 1) .. d.lastId
    BY <1>8
  <2>2. \A i \in (store[p].lastId + 1) .. d.lastId : i \in 1 .. d.lastId
    BY <1>8
  <2>3. QED
    BY <1>7, <1>8, <1>9, <2>1, <2>2
<1>11. ASSUME NEW q \in Peers, q # p
       PROVE  /\ store'[q].lastId \in Nat
              /\ DOMAIN requests'[q] \subseteq 1 .. store'[q].lastId
              /\ DOMAIN results'[q] \subseteq 1 .. store'[q].lastId
              /\ DOMAIN requests'[q] \cap DOMAIN results'[q] = {}
  <2>1. store'[q] = store[q] /\ requests'[q] = requests[q] /\ results'[q] = results[q]
    BY <1>1, <1>2, <1>3, <1>11
  <2>2. QED
    BY <2>1 DEF IdsInv, TypeOK
<1>12. \A q \in Peers : DOMAIN store'[q].sigs \subseteq Peers
  BY GivenIsData DEF SignedInv, SoundData, AllData
<1>13. TypeOK'
  <2>1. outbox' \in [Peers -> SUBSET Peers]
    BY <1>5 DEF IdsInv, TypeOK
  <2>2. QED
    BY <1>6, <1>10, <1>11, <1>12, <2>1 DEF IdsInv, TypeOK
<1>14. ASSUME NEW a \in asked'[p]
       PROVE  \/ a \in asked[p] /\ a.id \in 1 .. store[p].lastId
              \/ a.id \in DOMAIN asks /\ a = [id |-> a.id, call |-> asks[a.id]]
  BY <1>4 DEF IdsInv
<1>15. ASSUME NEW q \in Peers, NEW a \in asked'[q]
       PROVE  a.id \in 1 .. store'[q].lastId
  <2>1. CASE q = p
    <3>1. CASE a \in asked[p] /\ a.id \in 1 .. store[p].lastId
      BY <1>8, <1>9, <2>1, <3>1
    <3>2. CASE a.id \in DOMAIN asks
      BY <1>8, <1>9, <2>1, <3>2
    <3>3. QED
      BY <1>14, <2>1, <3>1, <3>2
  <2>2. CASE q # p
    <3>1. store'[q] = store[q] /\ asked'[q] = asked[q]
      BY <1>1, <1>4, <2>2
    <3>2. QED
      BY <3>1 DEF IdsInv
  <2>3. QED
    BY <2>1, <2>2
<1>16. ASSUME NEW q \in Peers, NEW a \in asked'[q], NEW b \in asked'[q], a.id = b.id
       PROVE  a = b
  <2>1. CASE q = p
    <3>1. \A i \in 1 .. store[p].lastId : i \notin DOMAIN asks
      BY <1>8
    <3>2. CASE a \in asked[p] /\ b \in asked[p]
      BY <1>16, <3>2 DEF IdsInv, IdsGivenOnce
    <3>3. CASE /\ a.id \in DOMAIN asks /\ a = [id |-> a.id, call |-> asks[a.id]]
               /\ b.id \in DOMAIN asks /\ b = [id |-> b.id, call |-> asks[b.id]]
      BY <1>16, <3>3, Zenon
    <3>4. QED
      BY <1>14, <1>16, <2>1, <3>1, <3>2, <3>3
  <2>2. CASE q # p
    <3>1. asked'[q] = asked[q]
      BY <1>4, <2>2
    <3>2. QED
      BY <1>16, <3>1 DEF IdsInv, IdsGivenOnce
  <2>3. QED
    BY <2>1, <2>2
<1>17. IdsGivenOnce'
  BY <1>16 DEF IdsGivenOnce
<1>18. /\ requests' = [q \in Peers |-> requests'[q]]
       /\ results' = [q \in Peers |-> results'[q]]
       /\ asked' = [q \in Peers |-> asked'[q]]
  BY <1>2, <1>3, <1>4
<1>19. QED
  BY <1>13, <1>15, <1>17, <1>18 DEF IdsInv

LEMMA ServeKeepsIdsInv ==
  ASSUME IdsInv, NEW p \in Peers, Serve(p)
  PROVE  IdsInv'
<1>1. PICK id \in DOMAIN requests[p] : \E r :
        /\ results' = [results EXCEPT ![p] = Extended([i \in {id} |-> r], @)]
        /\ requests' = [requests EXCEPT ![p] = Restricted(@, DOMAIN @ \ {id})]
  BY DEF Serve
<1>2. PICK r : results' = [results EXCEPT ![p] = Extended([i \in {id} |-> r], @)]
  BY <1>1
<1>3. results' = [q \in Peers |-> IF q = p THEN Extended([i \in {id} |-> r], results[p])
                                           ELSE results[q]]
  BY <1>2 DEF IdsInv
<1>4. requests' = [q \in Peers |-> IF q = p THEN Restricted(requests[p], DOMAIN requests[p] \ {id})
                                            ELSE requests[q]]
  BY <1>1 DEF IdsInv
<1>5. /\ DOMAIN results'[p] = {id} \cup DOMAIN results[p]
      /\ DOMAIN requests'[p] = DOMAIN requests[p] \ {id}
  BY <1>3, <1>4 DEF Extended, Restricted
<1>6. \A q \in Peers : q # p => results'[q] = results[q] /\ requests'[q] = requests[q]
  BY <1>3, <1>4
<1>7. UNCHANGED <<store, outbox, sent, asked, crashes>>
  BY DEF Serve
<1>8. \A q \in Peers : /\ DOMAIN requests'[q] \subseteq 1 .. store[q].lastId
                       /\ DOMAIN results'[q] \subseteq 1 .. store[q].lastId
                       /\ DOMAIN requests'[q] \cap DOMAIN results'[q] = {}
  BY <1>5, <1>6 DEF IdsInv, TypeOK
<1>9. TypeOK'
  BY <1>7, <1>8 DEF IdsInv, TypeOK
<1>10. /\ requests' = [q \in Peers |-> requests'[q]]
      /\ results' = [q \in Peers |-> results'[q]]
  BY <1>3, <1>4
<1>11. QED
  BY <1>7, <1>9, <1>10 DEF IdsInv, IdsGivenOnce

LEMMA SendKeepsIdsInv ==
  ASSUME IdsInv, NEW p \in Peers, Send(p)
  PROVE  IdsInv'
<1>1. UNCHANGED <<store, requests, results, asked, crashes>>
  BY DEF Send
<1>2. \A m \in sent' : m.to \in Peers
  BY DEF Send, IdsInv, TypeOK
<1>3. outbox' \in [Peers -> SUBSET Peers]
  BY DEF Send, IdsInv, TypeOK
<1>4. TypeOK'
  BY <1>1, <1>2, <1>3 DEF IdsInv, TypeOK
<1>5. QED
  BY <1>1, <1>4 DEF IdsInv, IdsGivenOnce

LEMMA CrashKeepsIdsInv ==
  ASSUME IdsInv, NEW p \in Peers, Crash(p)
  PROVE  IdsInv'
<1>1. UNCHANGED <<store, sent, asked>>
  BY DEF Crash
<1>2. /\ requests' = [q \in Peers |-> IF q = p THEN <<>> ELSE requests[q]]
      /\ results' = [q \in Peers |-> IF q = p THEN <<>> ELSE results[q]]
  BY DEF Crash, IdsInv
<1>3. DOMAIN requests'[p] = {} /\ DOMAIN results'[p] = {}
  BY <1>2
<1>4. \A q \in Peers : q # p => requests'[q] = requests[q] /\ results'[q] = results[q]
  BY <1>2
<1>5. outbox' \in [Peers -> SUBSET Peers]
  BY DEF Crash, IdsInv, TypeOK
<1>6. crashes' \in 0 .. MaxCrashes
  BY NetworkAssumption DEF Crash, IdsInv, TypeOK
<1>7. TypeOK'
  BY <1>1, <1>3, <1>4, <1>5, <1>6 DEF IdsInv, TypeOK
<1>8. QED
  BY <1>1, <1>2, <1>7 DEF IdsInv, IdsGivenOnce

-----------------------------------------------------------------------------
(* The steps of the network.                                               *)

NetworkInv == SignedInv /\ IdsInv

LEMMA InitNetworkInv == Init => NetworkInv
<1> SUFFICES ASSUME Init PROVE NetworkInv
  OBVIOUS
<1>1. store = [p \in Peers |-> EmptyData] /\ sent = {}
  BY DEF Init
<1>2. AllData = {EmptyData}
  BY <1>1 DEF AllData
<1>3. \A q \in Peers : PeerCids(EmptyData, q) \sqsubseteq PeerCids(EmptyData, q)
  BY EmptyDataIsSound, SubBagReflexive DEF SoundData
<1>4. SignedInv
  BY <1>1, <1>2, <1>3, EmptyDataIsSound DEF SignedInv, Comparable
<1>5. \A p \in Peers : store[p] = EmptyData /\ store[p].lastId = 0 /\ DOMAIN store[p].sigs \subseteq Peers
  BY <1>1, EmptyDataIsSound DEF SoundData
<1>6. \A p \in Peers : DOMAIN requests[p] = {} /\ DOMAIN results[p] = {}
  BY DEF Init
<1>7. TypeOK
  BY <1>1, <1>5, <1>6, NetworkAssumption DEF TypeOK, Init
<1>8. IdsInv
  BY <1>7 DEF IdsInv, IdsGivenOnce, Init
<1>9. QED
  BY <1>4, <1>8 DEF NetworkInv

\* A step is an invocation of the interpreter, or leaves all stores alone.
LEMMA NextCases ==
  ASSUME Next
  PROVE  \/ \E p \in Peers : \E cur \in Given(p) : \E R \in SUBSET DOMAIN results[p] :
              CallAVM(p, cur, R)
         \/ \E p \in Peers : Serve(p) \/ Send(p) \/ Crash(p)
<1>1. CASE Start
  BY <1>1, NetworkAssumption DEF Start, Given
<1>2. ASSUME NEW p \in Peers, ReceiveAny(p)
      PROVE  \E cur \in Given(p) : \E R \in SUBSET DOMAIN results[p] : CallAVM(p, cur, R)
  BY <1>2 DEF ReceiveAny, Receive, Given
<1>3. ASSUME NEW p \in Peers, Resume(p)
      PROVE  \E cur \in Given(p) : \E R \in SUBSET DOMAIN results[p] : CallAVM(p, cur, R)
  BY <1>3 DEF Resume, Given
<1>4. QED
  BY <1>1, <1>2, <1>3 DEF Next

\* What a step does to the stores.
StoresOrKeeps ==
  \/ store' = store
  \/ \E p \in Peers : \E cur \in AllData : \E d :
       Learns(p, store[p], cur, d) /\ store' = [store EXCEPT ![p] = d]

LEMMA NextStep ==
  ASSUME NetworkInv, ExecutionsKeep, [Next]_vars
  PROVE  NetworkInv' /\ StoresOrKeeps
<1> SignedInv /\ IdsInv
  BY DEF NetworkInv
<1>1. ASSUME NEW p \in Peers, NEW cur \in Given(p), NEW R \in SUBSET DOMAIN results[p],
             CallAVM(p, cur, R)
      PROVE  NetworkInv' /\ StoresOrKeeps
  <2>1. store[p].lastId \in Nat
    BY DEF IdsInv, TypeOK
  <2>2. PICK d, asks, nx :
           /\ Effect(p, R, d, asks, nx)
           /\ d = store[p] \/ Learns(p, store[p], cur, d)
           /\ d.lastId \in Nat /\ store[p].lastId <= d.lastId
           /\ DOMAIN asks \subseteq (store[p].lastId + 1) .. d.lastId
           /\ nx \subseteq Peers
    BY <1>1, <2>1, CallEffect
  <2>3. store' = [store EXCEPT ![p] = d] /\ sent' = sent /\ cur \in AllData
    BY <2>2, GivenIsData DEF Effect
  <2>4. SignedInv'
    BY <2>2, <2>3, StoringKeepsSignedInv
  <2>5. IdsInv'
    BY <2>2, <2>4, EffectKeepsIdsInv
  <2>6. d = store[p] => store' = store
    BY <2>3 DEF SignedInv
  <2>7. QED
    BY <2>2, <2>3, <2>4, <2>5, <2>6 DEF NetworkInv, StoresOrKeeps
<1>2. ASSUME NEW p \in Peers, Serve(p)
      PROVE  NetworkInv' /\ StoresOrKeeps
  <2>1. store' = store /\ sent' = sent
    BY <1>2 DEF Serve
  <2>2. SignedInv'
    BY <2>1, SameDataKeepsSignedInv DEF AllData
  <2>3. IdsInv'
    BY <1>2, ServeKeepsIdsInv
  <2>4. QED
    BY <2>1, <2>2, <2>3 DEF NetworkInv, StoresOrKeeps
<1>3. ASSUME NEW p \in Peers, Send(p)
      PROVE  NetworkInv' /\ StoresOrKeeps
  <2>1. store' = store /\ sent' = sent \cup {[to |-> q, data |-> store[p]] : q \in outbox[p]}
    BY <1>3 DEF Send
  <2>2. AllData' \subseteq AllData
    BY <2>1 DEF AllData
  <2>3. SignedInv'
    BY <2>1, <2>2, SameDataKeepsSignedInv
  <2>4. IdsInv'
    BY <1>3, SendKeepsIdsInv
  <2>5. QED
    BY <2>1, <2>3, <2>4 DEF NetworkInv, StoresOrKeeps
<1>4. ASSUME NEW p \in Peers, Crash(p)
      PROVE  NetworkInv' /\ StoresOrKeeps
  <2>1. store' = store /\ sent' = sent
    BY <1>4 DEF Crash
  <2>2. SignedInv'
    BY <2>1, SameDataKeepsSignedInv DEF AllData
  <2>3. IdsInv'
    BY <1>4, CrashKeepsIdsInv
  <2>4. QED
    BY <2>1, <2>2, <2>3 DEF NetworkInv, StoresOrKeeps
<1>5. CASE UNCHANGED vars
  <2>1. UNCHANGED <<store, requests, results, outbox, sent, asked, crashes>>
    BY <1>5 DEF vars
  <2>2. SignedInv'
    BY <2>1, SameDataKeepsSignedInv DEF AllData
  <2>3. IdsInv'
    BY <2>1 DEF IdsInv, TypeOK, IdsGivenOnce
  <2>4. QED
    BY <2>1, <2>2, <2>3 DEF NetworkInv, StoresOrKeeps
<1>6. CASE Next
  BY <1>1, <1>2, <1>3, <1>4, <1>6, NextCases
<1>7. QED
  BY <1>5, <1>6

LEMMA NetworkInvariant == Spec /\ []ExecutionsKeep => [](NetworkInv /\ ExecutionsKeep)
<1>1. NetworkInv /\ ExecutionsKeep /\ [Next]_vars => NetworkInv'
  BY NextStep
<1>2. QED
  BY <1>1, InitNetworkInv, PTL DEF Spec

-----------------------------------------------------------------------------
(* What follows for the network.  The runs of TLC check ExecutionsKeep, of *)
(* one execution at a time; the theorems are about all peers together.     *)

\* The stored data has its types, and no id waits in two places.
THEOREM TypeCorrect == Spec /\ []ExecutionsKeep => []TypeOK
<1>1. NetworkInv => TypeOK
  BY DEF NetworkInv, IdsInv
<1>2. QED
  BY <1>1, NetworkInvariant, PTL

\* next_call_request_id: the ids that a peer gives out are all different, in
\* any number of invocations and after any crashes, because the last one is
\* part of the data that is stored before the requests are seen.
THEOREM RequestIdsAreUnique == Spec /\ []ExecutionsKeep => []IdsGivenOnce
<1>1. NetworkInv => IdsGivenOnce
  BY DEF NetworkInv, IdsInv
<1>2. QED
  BY <1>1, NetworkInvariant, PTL

\* verification_step.rs does not verify the signatures of the previous data:
\* it need not, the stored data always passes.
THEOREM PrevDataNeedsNoCheck == Spec /\ []ExecutionsKeep => []PrevDataCorrect
<1>1. NetworkInv => PrevDataCorrect
  BY GivenIsData DEF NetworkInv, SignedInv, SoundData, PrevDataCorrect
<1>2. QED
  BY <1>1, NetworkInvariant, PTL

\* verify and check_cid_multiset_invariant never refuse what honest peers have
\* sent, in any order, number of copies and after any delay.
THEOREM HonestSignaturesPass == Spec /\ []ExecutionsKeep => []HonestSignaturesVerify
<1>1. NetworkInv => HonestSignaturesVerify
  <2> SUFFICES ASSUME NetworkInv, NEW p \in Peers, NEW cur \in Given(p)
               PROVE  Verified(store[p], cur)
    BY DEF HonestSignaturesVerify
  <2>1. cur \in AllData /\ store[p] \in AllData
    BY GivenIsData
  <2>2. SoundData(cur) /\ SoundData(store[p])
    BY <2>1 DEF NetworkInv, SignedInv
  <2>3. \A q \in Peers : MultisetsConsistent(store[p], cur, q)
    BY <2>1, <2>2, ConsistentIsComparable DEF NetworkInv, SignedInv, SoundData
  <2>4. QED
    BY <2>2, <2>3 DEF Verified, SoundData, BothSigned
<1>2. QED
  BY <1>1, NetworkInvariant, PTL

\* A store has all that it had: signatures, and CIDs of every peer.
LEMMA StoresGrow ==
  ASSUME NetworkInv, StoresOrKeeps, NEW p \in Peers
  PROVE  /\ SoundData(store[p]) /\ SoundData(store'[p])
         /\ DOMAIN store[p].sigs \subseteq DOMAIN store'[p].sigs
         /\ \A q \in Peers : PeerCids(store[p], q) \sqsubseteq PeerCids(store'[p], q)
<1>1. SoundData(store[p]) /\ store = [q \in Peers |-> store[q]]
  BY GivenIsData DEF NetworkInv, SignedInv
<1>2. CASE store'[p] = store[p]
  <2>1. \A q : PeerCids(store[p], q) \sqsubseteq PeerCids(store[p], q)
    BY <1>1, SubBagReflexive DEF SoundData
  <2>2. QED
    BY <1>1, <1>2, <2>1
<1>3. CASE \E cur, d : Learns(p, store[p], cur, d) /\ store'[p] = d
  BY <1>1, <1>3 DEF Learns
<1>4. \/ store'[p] = store[p]
      \/ \E cur, d : Learns(p, store[p], cur, d) /\ store'[p] = d
  <2>1. CASE store' = store
    BY <2>1
  <2>2. ASSUME NEW q \in Peers, NEW cur \in AllData, NEW d,
               Learns(q, store[q], cur, d), store' = [store EXCEPT ![q] = d]
        PROVE  \/ store'[p] = store[p]
               \/ \E c, e : Learns(p, store[p], c, e) /\ store'[p] = e
    <3>1. store'[p] = IF p = q THEN d ELSE store[p]
      BY <1>1, <2>2
    <3>2. QED
      BY <2>2, <3>1
  <2>3. QED
    BY <2>1, <2>2 DEF StoresOrKeeps
<1>5. QED
  BY <1>2, <1>3, <1>4

\* What has all the CIDs of a sound data has its results.
LEMMA MoreCidsMoreKnown ==
  ASSUME NEW a, NEW b, SoundData(a),
         \A q \in Peers : PeerCids(a, q) \sqsubseteq PeerCids(b, q)
  PROVE  Known(a) \subseteq Known(b)
<1> SUFFICES ASSUME NEW r \in Known(a) PROVE r \in Known(b)
  OBVIOUS
<1>1. r.peer \in Peers /\ r \in DOMAIN PeerCids(a, r.peer)
  BY KnownByPeer DEF SoundData
<1>2. r \in DOMAIN PeerCids(b, r.peer)
  BY <1>1 DEF \sqsubseteq
<1>3. QED
  BY <1>2, KnownByPeer

\* A_0 <= A_1 <= ... <= A_n (verification.rs): what a store has of a peer's
\* signed CIDs only grows, also where data comes back that is older than what
\* is stored.
THEOREM SignedCidsOnlyGrow == Spec /\ []ExecutionsKeep => SignedCidsGrow
<1>1. ASSUME NetworkInv, ExecutionsKeep, [Next]_vars
      PROVE  \A p, q \in Peers :
               q \in DOMAIN store[p].sigs =>
                 q \in DOMAIN store'[p].sigs /\ store[p].sigs[q] \sqsubseteq store'[p].sigs[q]
  <2> SUFFICES ASSUME NEW p \in Peers, NEW q \in Peers, q \in DOMAIN store[p].sigs
               PROVE  /\ q \in DOMAIN store'[p].sigs
                      /\ store[p].sigs[q] \sqsubseteq store'[p].sigs[q]
    OBVIOUS
  <2>1. /\ SoundData(store[p]) /\ SoundData(store'[p])
        /\ DOMAIN store[p].sigs \subseteq DOMAIN store'[p].sigs
        /\ PeerCids(store[p], q) \sqsubseteq PeerCids(store'[p], q)
    BY <1>1, NextStep, StoresGrow
  <2>2. QED
    BY <2>1 DEF SoundData, SignaturesValid
<1>2. QED
  BY <1>1, NetworkInvariant, PTL DEF Spec, SignedCidsGrow

\* A result is in the store of its producer before it is anywhere else.
LEMMA ProducersKnow ==
  ASSUME NetworkInv, NEW d \in AllData, NEW r \in Known(d)
  PROVE  r.peer \in Peers /\ r \in Known(store[r.peer])
<1>1. r.peer \in Peers /\ r \in DOMAIN PeerCids(d, r.peer)
  BY KnownByPeer DEF NetworkInv, SignedInv, SoundData
<1>2. PeerCids(d, r.peer) \sqsubseteq PeerCids(store[r.peer], r.peer)
  BY <1>1 DEF NetworkInv, SignedInv
<1>3. r \in DOMAIN PeerCids(store[r.peer], r.peer)
  BY <1>1, <1>2 DEF \sqsubseteq
<1>4. QED
  BY <1>1, <1>3, KnownByPeer

\* One invocation of the interpreter is one invocation of the write-once store:
\* what other peers have produced was there already, and what is new are answers
\* of this peer to calls of its own that had none.
LEMMA InvocationIsWriteOnce ==
  ASSUME NetworkInv, NEW p \in Peers, NEW cur \in AllData, NEW d,
         Learns(p, store[p], cur, d), store' = [store EXCEPT ![p] = d]
  PROVE  Network!Invocation(p, Known(d))
<1>1. store' = [q \in Peers |-> IF q = p THEN d ELSE store[q]]
  BY DEF NetworkInv, SignedInv
<1>2. PICK E : E = UNION {Known(store[q]) : q \in Peers}
  OBVIOUS
<1>3. Network!Everything = E
  BY <1>2 DEF Network!Everything
<1>4. Known(store[p]) \subseteq Known(d)
  <2>1. SoundData(store[p])
    BY GivenIsData DEF NetworkInv, SignedInv
  <2>2. QED
    BY <2>1, MoreCidsMoreKnown DEF Learns
<1>5. \A r \in E : r.peer \in Peers /\ r \in Known(store[r.peer])
  BY <1>2, ProducersKnow, GivenIsData
<1>6. ASSUME NEW r \in Known(d), r \notin E
      PROVE  r.peer = p
  <2>1. r.peer \in Peers /\ r \in DOMAIN PeerCids(d, r.peer)
    BY KnownByPeer DEF Learns, SoundData
  <2>2. SUFFICES ASSUME r.peer # p PROVE FALSE
    OBVIOUS
  <2>3. r \in DOMAIN PeerCids(store[p], r.peer) \/ r \in DOMAIN PeerCids(cur, r.peer)
    BY <2>1, <2>2 DEF Learns
  <2>4. r \in Known(store[p]) \/ r \in Known(cur)
    BY <2>3, KnownByPeer
  <2>5. r \in Known(store[r.peer])
    BY <2>4, ProducersKnow, GivenIsData
  <2>6. QED
    BY <1>2, <1>6, <2>1, <2>5
<1>7. ASSUME NEW r \in Known(d) \ E, NEW s \in E \cup (Known(d) \ E),
             s.peer = r.peer, CallId(s) = CallId(r)
      PROVE  s = r
  <2>1. r.peer = p /\ s.peer = p
    BY <1>6, <1>7
  <2>2. s \in Known(d)
    BY <1>4, <1>5, <2>1
  <2>3. QED
    BY <1>7, <2>1, <2>2 DEF Learns
<1>8. Network!Fresh(Known(d)) = Known(d) \ E
  BY <1>3 DEF Network!Fresh
<1>9. Network!MayProduce(p, Known(d) \ E)
  BY <1>3, <1>6, <1>7 DEF Network!MayProduce
<1>10. [q \in Peers |-> Known(store[q])]'
         = [[q \in Peers |-> Known(store[q])] EXCEPT ![p] = Known(d)]
  BY <1>1
<1>11. QED
  BY <1>4, <1>8, <1>9, <1>10 DEF Network!Invocation

\* The peers of a particle implement the write-once store of call results
\* (CallResults): no result is invented, lost or replaced.
THEOREM NetworkImplementsCallResults == Spec /\ []ExecutionsKeep => ImplementsCallResults
<1> DEFINE known == [p \in Peers |-> Known(store[p])]
<1>1. Init => Network!Init
  BY EmptyDataIsSound DEF Init, Network!Init
<1>2. ASSUME NetworkInv, ExecutionsKeep, [Next]_vars
      PROVE  Network!Next \/ known' = known
  <2>1. CASE store' = store
    BY <2>1
  <2>2. ASSUME NEW p \in Peers, NEW cur \in AllData, NEW d,
               Learns(p, store[p], cur, d), store' = [store EXCEPT ![p] = d]
        PROVE  Network!Next
    <3>1. Network!Invocation(p, Known(d))
      BY <1>2, <2>2, InvocationIsWriteOnce
    <3>2. known'[p] = Known(d)
      BY <1>2, <2>2 DEF NetworkInv, SignedInv
    <3>3. QED
      BY <3>1, <3>2 DEF Network!Next
  <2>3. StoresOrKeeps
    BY <1>2, NextStep
  <2>4. QED
    BY <2>1, <2>2, <2>3 DEF StoresOrKeeps
<1>3. NetworkInv /\ ExecutionsKeep /\ [Next]_vars => [Network!Next]_known
  BY <1>2
<1>4. QED
  BY <1>1, <1>3, NetworkInvariant, PTL DEF Spec, ImplementsCallResults, Network!Spec

\* The theorems about the write-once store, of what the peers have stored.
Results == INSTANCE CallResults_proofs WITH
             Hosts <- Peers,
             Producer <- LAMBDA r : r.peer,
             CallOf <- LAMBDA r : [peer |-> r.peer, call |-> CallId(r)],
             known <- [p \in Peers |-> Known(store[p])]

\* Two peers that have stored a result of one call have stored the same one: a
\* scalar has the same value on each peer (docs/AIR.md).
THEOREM PeersAgree == Spec /\ []ExecutionsKeep => []Network!Agreement
<1> DEFINE known == [p \in Peers |-> Known(store[p])]
<1>1. Results!Spec => []Results!Agreement
  BY Results!OneResultPerCall
<1>2. Network!Init => Results!Init
  BY DEF Network!Init, Results!Init
<1>3. [Network!Next]_known => [Results!Next]_known
  BY DEF Network!Next, Results!Next, Network!Invocation, Results!Invocation,
         Network!MayProduce, Results!MayProduce, Network!Fresh, Results!Fresh,
         Network!Everything, Results!Everything
<1>4. Results!Agreement => Network!Agreement
  BY DEF Network!Agreement, Results!Agreement, Network!Everything, Results!Everything
<1>5. QED
  BY <1>1, <1>2, <1>3, <1>4, NetworkImplementsCallResults, PTL
     DEF ImplementsCallResults, Results!Spec, Network!Spec

-----------------------------------------------------------------------------
(* What happens to the particles that a peer receives.                     *)

\* An invocation that does not end in an uncatchable error stores what it has
\* learned.
LEMMA AcceptedIsLearned ==
  ASSUME NetworkInv, ExecutionsKeep, NEW p \in Peers, NEW cur \in Given(p),
         NEW R \in SUBSET DOMAIN results[p], CallAVM(p, cur, R),
         outcome = [q \in Peers |-> outcome[q]], outcome'[p].kind # "uncatchable"
  PROVE  Learns(p, store[p], cur, store'[p])
<1>1. PICK o : /\ o = Invoke(script, p, InitPeer, store[p], cur, Restricted(results[p], R))
               /\ TakeOutcome(p, o, R)
  BY DEF CallAVM
<1>2. outcome'[p] = o.ret
  BY <1>1 DEF TakeOutcome
<1>3. o # Corrupted /\ ~Refused(p, o)
  BY <1>2 DEF Corrupted, Outcome, Uncatchable, Refused
<1>4. Succeeds(p, cur, o)
  BY <1>1, <1>3, InvokeCases
<1>5. PICK c : /\ Stores(c) /\ ContractOf(p, store[p], cur, c)
               /\ o.data = NewData(c, store[p], cur)
  BY <1>4 DEF Succeeds
<1>6. SoundData(store[p]) /\ SoundData(cur) /\ Verified(store[p], cur)
  BY <1>4, GivenIsData DEF NetworkInv, SignedInv, Succeeds
<1>7. Learns(p, store[p], cur, o.data)
  BY <1>5, <1>6, NewDataLearns
<1>8. store'[p] = o.data
  BY <1>1, <1>3 DEF TakeOutcome, NetworkInv, SignedInv
<1>9. QED
  BY <1>7, <1>8

\* The store has everything of d.
Covers(s, d) ==
  /\ DOMAIN d.sigs \subseteq DOMAIN s.sigs
  /\ \A q \in Peers : PeerCids(d, q) \sqsubseteq PeerCids(s, q)

\* Every particle that a peer has received was sent, and is covered by its store.
ReceivedInv ==
  /\ got = [p \in Peers |-> got[p]]
  /\ outcome = [p \in Peers |-> outcome[p]]
  /\ \A p \in Peers : \A m \in got[p] : m \in sent /\ Covers(store[p], m.data)

LEMMA CoversLater ==
  ASSUME NetworkInv, StoresOrKeeps, NEW p \in Peers, NEW d \in AllData, Covers(store[p], d)
  PROVE  Covers(store'[p], d)
<1>1. SoundData(d)
  BY DEF NetworkInv, SignedInv
<1>2. /\ SoundData(store[p]) /\ SoundData(store'[p])
      /\ DOMAIN store[p].sigs \subseteq DOMAIN store'[p].sigs
      /\ \A q \in Peers : PeerCids(store[p], q) \sqsubseteq PeerCids(store'[p], q)
  BY StoresGrow
<1>3. ASSUME NEW q \in Peers
      PROVE  PeerCids(d, q) \sqsubseteq PeerCids(store'[p], q)
  BY <1>1, <1>2, SubBagTransitive DEF Covers, SoundData
<1>4. QED
  BY <1>2, <1>3 DEF Covers

LEMMA CoversReceived ==
  ASSUME NetworkInv, NEW p \in Peers, NEW cur \in AllData, NEW d, Learns(p, store[p], cur, d)
  PROVE  Covers(d, cur)
<1>1. DOMAIN cur.sigs \subseteq DOMAIN d.sigs
  BY DEF Learns
<1>2. \A q \in Peers \ {p} : PeerCids(cur, q) \sqsubseteq PeerCids(d, q)
  BY DEF Learns
<1>3. PeerCids(cur, p) \sqsubseteq PeerCids(store[p], p) /\ PeerCids(store[p], p) \sqsubseteq PeerCids(d, p)
  BY DEF NetworkInv, SignedInv, Learns
<1>4. HasFiniteTrace(cur) /\ HasFiniteTrace(store[p]) /\ HasFiniteTrace(d)
  BY GivenIsData DEF NetworkInv, SignedInv, Learns, SoundData
<1>5. PeerCids(cur, p) \sqsubseteq PeerCids(d, p)
  BY <1>3, <1>4, SubBagTransitive
<1>6. QED
  BY <1>1, <1>2, <1>5 DEF Covers

LEMMA ReceivedStep ==
  ASSUME NetworkInv, ReceivedInv, ExecutionsKeep, HonestDataAccepted', [Next]_vars
  PROVE  ReceivedInv'
<1>1. StoresOrKeeps
  BY NextStep
<1>2. ASSUME NEW p \in Peers, NEW m \in got[p]
      PROVE  m \in sent /\ Covers(store'[p], m.data)
  <2>1. m.data \in AllData
    BY DEF ReceivedInv, AllData
  <2>2. QED
    BY <1>1, <2>1, CoversLater DEF ReceivedInv
<1>3. sent \subseteq sent'
  BY DEF Next, vars, Start, ReceiveAny, Receive, Resume, CallAVM, TakeOutcome, Serve, Send, Crash
<1>4. CASE got' = got /\ outcome' = [q \in Peers |-> outcome'[q]]
  BY <1>2, <1>3, <1>4 DEF ReceivedInv
<1>5. ASSUME NEW p \in Peers, NEW cur, NEW R, CallAVM(p, cur, R)
      PROVE  outcome' = [q \in Peers |-> outcome'[q]]
  <2>1. PICK o : outcome' = [outcome EXCEPT ![p] = o.ret]
    BY <1>5 DEF CallAVM, TakeOutcome
  <2>2. QED
    BY <2>1 DEF ReceivedInv
<1>6. ASSUME NEW p \in Peers, NEW m \in sent, NEW R \in SUBSET DOMAIN results[p], Receive(p, m, R)
      PROVE  ReceivedInv'
  <2>1. m.data \in Given(p) /\ m.data \in AllData /\ CallAVM(p, m.data, R)
    BY <1>6 DEF Receive, Given, AllData
  <2>2. got' = [q \in Peers |-> IF q = p THEN got[p] \cup {m} ELSE got[q]]
    BY <1>6 DEF Receive, ReceivedInv
  <2>3. outcome'[p].kind # "uncatchable"
    BY DEF HonestDataAccepted
  <2>4. Learns(p, store[p], m.data, store'[p])
    BY <2>1, <2>3, AcceptedIsLearned DEF ReceivedInv
  <2>5. Covers(store'[p], m.data)
    BY <2>1, <2>4, CoversReceived
  <2>6. outcome' = [q \in Peers |-> outcome'[q]]
    BY <1>5, <2>1
  <2>7. \A q \in Peers : \A x \in got'[q] : x \in sent' /\ Covers(store'[q], x.data)
    BY <1>2, <1>3, <2>2, <2>5
  <2>8. got' = [q \in Peers |-> got'[q]]
    BY <2>2
  <2>9. QED
    BY <2>6, <2>7, <2>8 DEF ReceivedInv
<1>7. CASE Start
  BY <1>4, <1>5, <1>7, NetworkAssumption DEF Start
<1>8. ASSUME NEW p \in Peers, Resume(p)
      PROVE  ReceivedInv'
  BY <1>4, <1>5, <1>8 DEF Resume
<1>9. ASSUME NEW p \in Peers, Serve(p) \/ Send(p) \/ Crash(p)
      PROVE  ReceivedInv'
  BY <1>4, <1>9 DEF Serve, Send, Crash, ReceivedInv
<1>10. CASE UNCHANGED vars
  BY <1>4, <1>10 DEF vars, ReceivedInv
<1>11. QED
  BY <1>6, <1>7, <1>8, <1>9, <1>10 DEF Next, ReceiveAny

\* A covered data passes the verifier and adds no signature.
LEMMA CoveredIsAbsorbed ==
  ASSUME NEW s, NEW d, SoundData(s), SoundData(d), Covers(s, d)
  PROVE  /\ Known(d) \subseteq Known(s)
         /\ Verified(s, d)
         /\ MergeSignatures(s, d) = s.sigs
<1>1. Known(d) \subseteq Known(s)
  BY MoreCidsMoreKnown DEF Covers
<1>2. ASSUME NEW q \in Peers
      PROVE  MultisetsConsistent(s, d, q) /\ ~(CidsLen(s, q) < CidsLen(d, q))
  <2>1. PeerCids(d, q) \sqsubseteq PeerCids(s, q)
    BY DEF Covers
  <2>2. CidsLen(d, q) <= CidsLen(s, q) /\ CidsLen(d, q) \in Nat /\ CidsLen(s, q) \in Nat
    BY <2>1, SubBagSmaller, PositionsFinite DEF SoundData
  <2>3. MultisetsConsistent(s, d, q)
    BY <2>1, ConsistentIsComparable DEF SoundData, Comparable
  <2>4. QED
    BY <2>2, <2>3
<1>3. Verified(s, d)
  BY <1>2 DEF Verified, SoundData, BothSigned
<1>4. DOMAIN s.sigs \cup DOMAIN d.sigs = DOMAIN s.sigs /\ DOMAIN s.sigs \subseteq Peers
  BY DEF Covers, SoundData
<1>5. \A q \in DOMAIN s.sigs : Larger(s, d, q) = s
  BY <1>2, <1>4 DEF Larger
<1>6. MergeSignatures(s, d) = s.sigs
  <2>1. MergeSignatures(s, d) = [q \in DOMAIN s.sigs |-> s.sigs[q]]
    BY <1>4, <1>5 DEF MergeSignatures
  <2>2. QED
    BY <2>1 DEF SoundData
<1>7. QED
  BY <1>1, <1>3, <1>6

\* As long as no run fails, a peer that has received a particle has learned all
\* that is in it and keeps it, whatever it receives afterwards; delivered again,
\* the particle passes the verifier and merge returns the stored signatures.
THEOREM ReceivedStays ==
  Spec /\ []ExecutionsKeep /\ []HonestDataAccepted => []ReceivedIsKept
<1>1. Init => ReceivedInv
  BY DEF Init, ReceivedInv
<1>2. NetworkInv /\ ReceivedInv /\ ExecutionsKeep /\ HonestDataAccepted' /\ [Next]_vars
        => ReceivedInv'
  BY ReceivedStep
<1>3. NetworkInv /\ ReceivedInv => ReceivedIsKept
  <2> SUFFICES ASSUME NetworkInv, ReceivedInv, NEW p \in Peers, NEW m \in got[p]
               PROVE  /\ Known(m.data) \subseteq Known(store[p])
                      /\ Verified(store[p], m.data)
                      /\ MergeSignatures(store[p], m.data) = store[p].sigs
    BY DEF ReceivedIsKept
  <2>1. m.data \in AllData /\ store[p] \in AllData /\ Covers(store[p], m.data)
    BY GivenIsData DEF ReceivedInv, AllData
  <2>2. SoundData(m.data) /\ SoundData(store[p])
    BY <2>1 DEF NetworkInv, SignedInv
  <2>3. QED
    BY <2>1, <2>2, CoveredIsAbsorbed
<1>4. QED
  BY <1>1, <1>2, <1>3, NetworkInvariant, PTL DEF Spec
=============================================================================
