----------------------------- MODULE DataVerifier -----------------------------
(***************************************************************************)
(* The signatures of a particle's data                                     *)
(* (interpreter-data/interpreter_data/verification.rs,                     *)
(* interpreter-signatures).                                                *)
(*                                                                         *)
(* A peer signs the multiset of the CIDs that it produced itself.  A       *)
(* signature stands for the multiset it was made of, so it verifies        *)
(* exactly when the verifier collects the same multiset from the trace.    *)
(***************************************************************************)
EXTENDS Merger, Bags, FiniteSets

\* InterpreterData: the trace, the signature store and last_call_request_id.
EmptyData == [trace |-> <<>>, sigs |-> <<>>, lastId |-> 0]

\* CallResult::get_cid and CanonResult: an unused result has no aggregate.
SignedState(st) == \/ st.kind = "executed" /\ st.out # "unused"
                   \/ st.kind \in {"failed", "canon"}

\* collect_peers_cids_from_trace: the CIDs of one peer.
PeerPositions(d, p) ==
  {n \in DOMAIN d.trace : SignedState(d.trace[n]) /\ d.trace[n].cid.peer = p}

PeerCids(d, p) ==
  LET at == PeerPositions(d, p) IN
  [cid \in {d.trace[n].cid : n \in at} |->
     Cardinality({n \in at : d.trace[n].cid = cid})]

\* try_push_cid: every producer of a CID must have a signature.
KeysComplete(d) ==
  \A n \in DOMAIN d.trace : SignedState(d.trace[n]) => d.trace[n].cid.peer \in DOMAIN d.sigs

\* DataVerifier::verify.
SignaturesValid(d) == \A p \in DOMAIN d.sigs : d.sigs[p] = PeerCids(d, p)

\* The number of CIDs collected for a peer.
CidsLen(d, p) == Cardinality(PeerPositions(d, p))

\* Of two data the one with more CIDs of a peer, and the other one.
Larger(prev, cur, p)  == IF CidsLen(prev, p) < CidsLen(cur, p) THEN cur ELSE prev
Smaller(prev, cur, p) == IF CidsLen(prev, p) < CidsLen(cur, p) THEN prev ELSE cur

\* check_cid_multiset_invariant.
MultisetsConsistent(prev, cur, p) ==
  PeerCids(Smaller(prev, cur, p), p) \sqsubseteq PeerCids(Larger(prev, cur, p), p)

BothSigned(prev, cur) == DOMAIN prev.sigs \cap DOMAIN cur.sigs

\* verification_step::verify: the checks that may refuse the data.
Verified(prev, cur) ==
  /\ KeysComplete(prev) /\ KeysComplete(cur)
  /\ SignaturesValid(cur)
  /\ \A p \in BothSigned(prev, cur) : MultisetsConsistent(prev, cur, p)

\* Mutant: the previous signature is kept, whatever it was made of.
MergeSignaturesPrev(prev, cur) ==
  [p \in DOMAIN prev.sigs \cup DOMAIN cur.sigs |->
     IF p \in DOMAIN prev.sigs THEN prev.sigs[p] ELSE cur.sigs[p]]

\* DataVerifier::merge: of each peer the signature of its larger multiset.
MergeSignatures(prev, cur) ==
  [p \in DOMAIN prev.sigs \cup DOMAIN cur.sigs |->
     IF p \notin DOMAIN cur.sigs THEN prev.sigs[p]
     ELSE IF p \notin DOMAIN prev.sigs THEN cur.sigs[p]
     ELSE Larger(prev, cur, p).sigs[p]]
=============================================================================
