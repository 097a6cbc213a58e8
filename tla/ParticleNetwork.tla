--------------------------- MODULE ParticleNetwork ---------------------------
(***************************************************************************)
(* One particle on a network of peers.  Every peer runs an AVM             *)
(* (avm/server/src/avm.rs) over its particle data store; its host answers  *)
(* call requests with the peer's services at any time and in any order,    *)
(* gives the results back, and sends the new data to the next peers, as    *)
(* air/README.md, "Interaction with the interpreter", asks.                *)
(*                                                                         *)
(* Particles may be lost, delayed, reordered and delivered again; a host   *)
(* may crash and then has only its data store left.                        *)
(***************************************************************************)
EXTENDS Runner

CONSTANTS Scripts,         \* The AIR scripts that a particle may have.
          InitPeer,        \* init_peer_id: the peer that starts the particle.
          ServiceResults(_), \* What a service may answer to a call.
          CallId(_),       \* Which call of the script a request or a result
                           \* belongs to.
          SendWhenIdle,    \* The scripts whose hosts send after completing all
                           \* call requests, not after any call of the interpreter.
          MaxCrashes       \* Bound: crashes of hosts.

ASSUME NetworkAssumption == /\ InitPeer \in Peers
                            /\ SendWhenIdle \subseteq Scripts
                            /\ MaxCrashes \in Nat

VARIABLES script,    \* the script of the particle
          store,     \* the data store of each peer: the last new_data
          requests,  \* call requests that wait for their service, by id
          results,   \* call results that wait for an invocation, by id
          outbox,    \* next_peer_pks that the particle is still to be sent to
          sent,      \* every particle sent so far
          got,       \* the particles each peer has received at least once
          outcome,   \* how the last invocation of each peer ended
          asked,     \* history: every call request a peer's services ever got
          crashes    \* number of crashes so far

vars == <<script, store, requests, results, outbox, sent, got, outcome, asked,
          crashes>>

NotRun == [kind |-> "not_run"]

Restricted(f, S) == [x \in S |-> f[x]]

Init == /\ script \in Scripts
        /\ store = [p \in Peers |-> EmptyData]
        /\ requests = [p \in Peers |-> <<>>]
        /\ results = [p \in Peers |-> <<>>]
        /\ outbox = [p \in Peers |-> {}]
        /\ sent = {}
        /\ got = [p \in Peers |-> {}]
        /\ outcome = [p \in Peers |-> NotRun]
        /\ asked = [p \in Peers |-> {}]
        /\ crashes = 0

-----------------------------------------------------------------------------
(* AVM::call, and what the host does with its outcome.                     *)

\* store_data, and what the host keeps of the outcome.  The results R are given
\* away.  The requests of a corrupted outcome are no bytes at all, which do not
\* decode: AVM::call then returns before it stores anything.
TakeOutcome(p, o, R) ==
  /\ store' = [store EXCEPT ![p] = IF o = Corrupted THEN @ ELSE o.data]
  /\ outcome' = [outcome EXCEPT ![p] = o.ret]
  /\ results' = [results EXCEPT ![p] = Restricted(@, DOMAIN @ \ R)]
  /\ requests' = [requests EXCEPT ![p] = Extended(o.requests, @)]
  /\ asked' = [asked EXCEPT ![p] = @ \cup {[id |-> i, call |-> o.requests[i]] : i \in DOMAIN o.requests}]
  /\ outbox' = [outbox EXCEPT ![p] = @ \cup o.next]
  /\ UNCHANGED <<script, sent, crashes>>

\* read_data and the invocation.
CallAVM(p, cur, R) ==
  \E o \in {Invoke(script, p, InitPeer, store[p], cur, Restricted(results[p], R))} :
    TakeOutcome(p, o, R)

\* The first run, on the peer that made the particle.
Start == /\ outcome[InitPeer] = NotRun
         /\ CallAVM(InitPeer, EmptyData, {})
         /\ UNCHANGED got

\* A particle arrives, for the first time or again.  Results that are ready
\* may be given along with it.
Receive(p, m, R) == /\ m.to = p
                    /\ CallAVM(p, m.data, R)
                    /\ got' = [got EXCEPT ![p] = @ \cup {m}]

ReceiveAny(p) == \E m \in sent, R \in SUBSET DOMAIN results[p] : Receive(p, m, R)
ReceiveNew(p) == \E m \in sent \ got[p], R \in SUBSET DOMAIN results[p] : Receive(p, m, R)

\* The host calls back with some of the results, without current data.
Resume(p) == \E R \in SUBSET DOMAIN results[p] :
               /\ R # {}
               /\ CallAVM(p, EmptyData, R)
               /\ UNCHANGED got

\* A service answers.
Serve(p) == \E id \in DOMAIN requests[p] : \E r \in ServiceResults(requests[p][id]) :
              /\ results' = [results EXCEPT ![p] = Extended([i \in {id} |-> r], @)]
              /\ requests' = [requests EXCEPT ![p] = Restricted(@, DOMAIN @ \ {id})]
              /\ UNCHANGED <<script, store, outbox, sent, got, outcome, asked, crashes>>

Idle(p) == requests[p] = <<>> /\ results[p] = <<>>

\* The host sends its latest data to the peers that the interpreter named.
Send(p) == /\ outbox[p] # {}
           /\ script \in SendWhenIdle => Idle(p)
           /\ sent' = sent \cup {[to |-> q, data |-> store[p]] : q \in outbox[p]}
           /\ outbox' = [outbox EXCEPT ![p] = {}]
           /\ UNCHANGED <<script, store, requests, results, got, outcome, asked, crashes>>

\* The host loses everything but its data store.
Crash(p) == /\ crashes < MaxCrashes
            /\ crashes' = crashes + 1
            /\ requests' = [requests EXCEPT ![p] = <<>>]
            /\ results' = [results EXCEPT ![p] = <<>>]
            /\ outbox' = [outbox EXCEPT ![p] = {}]
            /\ UNCHANGED <<script, store, sent, got, outcome, asked>>

Next == \/ Start
        \/ \E p \in Peers : \/ ReceiveAny(p) \/ Resume(p)
                            \/ Serve(p) \/ Send(p) \/ Crash(p)

Spec == Init /\ [][Next]_vars

\* The interpreter is called again while there is a reason to.
Invocation == Start \/ \E p \in Peers : ReceiveNew(p) \/ Resume(p)

CanInvoke == \/ outcome[InitPeer] = NotRun
             \/ \E p \in Peers : results[p] # <<>> \/ \E m \in sent \ got[p] : m.to = p

\* Services answer, hosts send, particles arrive and hosts call back, in the
\* end.  One condition for each of the three kinds of steps is enough, as
\* every such step can be taken a finite number of times only.  The last one
\* is WF_vars(Invocation), with ENABLED spelled out for TLC.
Fairness == /\ WF_vars(\E p \in Peers : Serve(p))
            /\ WF_vars(\E p \in Peers : Send(p))
            /\ []<>(~CanInvoke) \/ []<><<Invocation>>_vars

FairSpec == Spec /\ Fairness

-----------------------------------------------------------------------------
(* What the data of a peer holds.                                          *)

\* The results in a trace: executed calls with an output, and failed ones.
Known(d) == {d.trace[n].cid : n \in {j \in DOMAIN d.trace : SignedState(d.trace[j])}}

\* The stored data, requests and results have their types; a request id is
\* waited for in at most one place.
TypeOK ==
  /\ \A p \in Peers : /\ DOMAIN store[p].sigs \subseteq Peers
                      /\ store[p].lastId \in Nat
                      /\ DOMAIN requests[p] \subseteq 1 .. store[p].lastId
                      /\ DOMAIN results[p] \subseteq 1 .. store[p].lastId
                      /\ DOMAIN requests[p] \cap DOMAIN results[p] = {}
  /\ \A m \in sent : m.to \in Peers
  /\ outbox \in [Peers -> SUBSET Peers]
  /\ crashes \in 0 .. MaxCrashes

\* No honest peer's data is ever refused, no run ends in an uncatchable error
\* and no supplied call result stays unused, whatever the order in which
\* particles and results arrive (runner.rs: from_uncatchable_error).
HonestDataAccepted == \A p \in Peers : outcome[p].kind # "uncatchable"

\* No request id is given out twice, over all invocations, crashes and copies of
\* the particle (next_call_request_id).
IdsGivenOnce == \A p \in Peers : \A a, b \in asked[p] : a.id = b.id => a = b

\* A service is asked at most once for each call, however often the particle
\* comes back (RequestSentBy states), under an id of its own.
RequestedOnce ==
  /\ IdsGivenOnce
  /\ \A p \in Peers : \A a, b \in asked[p] : CallId(a.call) = CallId(b.call) => a = b

\* The data a peer has stored carries the signatures of exactly the results
\* that are in its trace ("prev_data is always correct, check only
\* current_data", verification_step.rs).
PrevDataCorrect == \A p \in Peers : KeysComplete(store[p]) /\ SignaturesValid(store[p])

\* The fold states of a stored trace: the iterations of a fold make up, without
\* gap and overlap, the states that follow it, every iteration belongs to
\* another value of a stream, and iterations of one generation are side by
\* side (fold_fsm.rs; without it resolve_fold_lore and the sliders would read
\* the states of one iteration as those of another).
FoldWellFormed(t, n) ==
  LET lore == t[n].lore
      Span(d) == d.begin .. d.begin + d.len - 1
      Gen(i) == GenerationAt(t, lore[i].pos)
  IN /\ UNION {Span(lore[i].before) \cup Span(lore[i].after) : i \in DOMAIN lore}
          = n .. n + FoldStatesCount(lore) - 1
     /\ \A i \in DOMAIN lore : HasGeneration(t, lore[i].pos)
     /\ \A i, j \in DOMAIN lore : lore[i].pos = lore[j].pos => i = j
     /\ \A i, j \in DOMAIN lore : i < j /\ Gen(i) = Gen(j) => SameRun(t, lore, i, j)

FoldsWellFormed ==
  \A p \in Peers : \A n \in DOMAIN store[p].trace :
    IsFold(store[p].trace[n]) => FoldWellFormed(store[p].trace, n)

\* The CIDs a peer has signed only grow: A_0 <= A_1 <= ... <= A_n
\* (verification.rs, DataVerifier::merge), in every peer's store.
SignedCidsGrow ==
  [][\A p, q \in Peers :
       q \in DOMAIN store[p].sigs =>
         q \in DOMAIN store'[p].sigs /\ store[p].sigs[q] \sqsubseteq store'[p].sigs[q]]_vars

\* A particle that comes again changes nothing: the invocation answers the
\* stored data, with nobody to send to and nothing to ask
\* (air/README.md: f(a,b) = c, f(c,b) = c).
RedeliveryIsAbsorbed ==
  \A p \in Peers : \A m \in got[p] :
    LET o == Invoke(script, p, InitPeer, store[p], m.data, <<>>) IN
    o.data = store[p] /\ o.next = {} /\ o.requests = <<>>

\* What a peer has received it has learned, for good: the results and signatures
\* of the particle are in its store, and the particle adds none when it comes again
\* (DataVerifier::merge).
ReceivedIsKept ==
  \A p \in Peers : \A m \in got[p] :
    /\ Known(m.data) \subseteq Known(store[p])
    /\ Verified(store[p], m.data) /\ MergeSignatures(store[p], m.data) = store[p].sigs

\* What may be given to the interpreter at p.
Given(p) == {EmptyData} \cup {m.data : m \in {x \in sent : x.to = p}}

\* The signatures of honest data always pass: whatever copies and orders in which
\* snapshots of other peers reach it, a peer never sees two multisets of one
\* producer of which none is within the other (check_cid_multiset_invariant).
HonestSignaturesVerify == \A p \in Peers : \A cur \in Given(p) : Verified(store[p], cur)

\* What other peers and later runs need of an execution at p that has left the
\* context c: it takes nothing from the data and adds only answers of its own,
\* one for each call.
ContractOf(p, prev, cur, c) ==
  LET d == NewData(c, prev, cur) IN
  /\ IsFiniteSet(DOMAIN d.trace)
  /\ \A r \in Known(d) : r.peer \in Peers
  /\ c.next \subseteq Peers
  /\ NumbersRequests(prev, c)
  /\ KeepsOthers(p, prev, cur, d)
  /\ KeepsOwn(p, prev, d, c)
  /\ \A r, s \in Known(d) : r.peer = p /\ s.peer = p /\ CallId(r) = CallId(s) => r = s

\* Any run that a peer could start, with the data it was sent and some results of
\* its services: the new trace has the fuller one of what both traces have of each
\* other peer, all of its own results with the CIDs that it is about to sign, and
\* no second result of a call; request ids go on from the stored one (merger,
\* prev_result_handler.rs, PeerCidTracker).
ExecutionsKeep ==
  \A p \in Peers : \A cur \in Given(p) : \A R \in SUBSET DOMAIN results[p] :
    Verified(store[p], cur) =>
      LET c == execute(script, Prepare(p, InitPeer, store[p], cur, Restricted(results[p], R)))
      IN  Stores(c) => ContractOf(p, store[p], cur, c)

\* The peers of a particle implement a write-once store of call results.
Network == INSTANCE CallResults WITH
             Hosts <- Peers,
             Producer <- LAMBDA r : r.peer,
             CallOf <- LAMBDA r : [peer |-> r.peer, call |-> CallId(r)],
             known <- [p \in Peers |-> Known(store[p])]

ImplementsCallResults == Network!Spec
=============================================================================
