------------------------------ MODULE AvmServer ------------------------------
(***************************************************************************)
(* AVM::call of avm/server on one peer: the data of a particle is read,     *)
(* the interpreter is run on it, an anomaly may be recorded, the data is    *)
(* stored and the outcome is returned to the host.  Each of these steps can *)
(* fail, and the process can die between any two of them.                  *)
(*                                                                         *)
(* Of the interpreter this module has what surrounds the execution of the   *)
(* script: the size limits, the preparation step with all its errors, the   *)
(* kinds of outcomes and the request ids.  Of the script it has the calls   *)
(* of this peer.                                                           *)
(***************************************************************************)
EXTENDS Naturals, FiniteSets

CONSTANTS
    Particles,
    Calls,        \* the calls of the script on this peer, numbered in its order
    MaxRequestId, \* u32::MAX
    Sizes,        \* of scripts, data and results
    SizeLimit,    \* air_size_limit, particle_size_limit, call_result_size_limit
    MaxFailures   \* bound on the steps of the host that fail, crashes included

ASSUME CallsAssumption == IsFiniteSet(Calls) /\ Calls \subseteq Nat
ASSUME LimitsAssumption == MaxRequestId \in Nat /\ Sizes \subseteq Nat /\ SizeLimit \in Nat

VARIABLES
    hard_limit_enabled,  \* of AVMRuntimeLimits, the same for all runs
    store,     \* the data store: the data of each particle
    sent,      \* the data that left this peer, of each particle
    requests,  \* at the host: calls that services work on: particle, id, call
    results,   \* at the host: what they returned, with its size
    run,       \* the AVM::call in progress
    expired,   \* particles that are over
    failures

vars == <<hard_limit_enabled, store, sent, requests, results, run, expired, failures>>

\* Data: the calls that are executed, those that are requested and their ids,
\* last_call_request_id.  The empty slice is an empty data.
EmptyData == [executed |-> {}, requested |-> <<>>, last |-> 0]

Idle == [phase |-> "idle"]

Init ==
    /\ hard_limit_enabled \in BOOLEAN
    /\ store = [p \in Particles |-> EmptyData]
    /\ sent = [p \in Particles |-> {EmptyData}]
    /\ requests = {}
    /\ results = {}
    /\ run = Idle
    /\ expired = {}
    /\ failures = 0

------------------------------------------------------------------------------
(* The interpreter. *)

NoTriggering == [air |-> FALSE, particle |-> FALSE, call_result |-> FALSE]

\* The fields of InterpreterOutcome.  Without bytes for the requests it does not decode.
InterpreterOutcome(ret_code, data, call_requests, bytes, triggering) ==
    [ret_code |-> ret_code, data |-> data, call_requests |-> call_requests,
     has_request_bytes |-> bytes, triggering |-> triggering]

\* from_uncatchable_error: the previous data, no requests.
from_uncatchable_error(prev, error, triggering) ==
    InterpreterOutcome(error, prev, {}, TRUE, triggering)

\* execution_error_into_outcome, signing_error_into_outcome: nothing at all.
CorruptedOutcome(error, triggering) == InterpreterOutcome(error, EmptyData, {}, FALSE, triggering)

\* Mutant: a limit that already triggers when it is reached.
ExceedsEarly(size) == size >= SizeLimit

Exceeds(size) == size > SizeLimit

\* check_against_size_limits: the flags when it passes.
SizesTriggering(r) ==
    [air |-> Exceeds(r.air_size), particle |-> Exceeds(r.data_size), call_result |-> FALSE]
SizesRefused(r) == hard_limit_enabled /\ (Exceeds(r.air_size) \/ Exceeds(r.data_size))

\* make_exec_ctx: any result above the limit.
ResultsTriggering(r) ==
    [SizesTriggering(r) EXCEPT !.call_result = \E s \in r.results : Exceeds(s.size)]
ResultsRefused(r) == hard_limit_enabled /\ ResultsTriggering(r).call_result

\* The ids that next_call_request_id gives to the calls of S, in the order of the script.
NewIds(S, last) == [c \in S |-> last + Cardinality({d \in S : d <= c})]

\* The execution as far as the calls of this peer go: results go to the calls that wait
\* for their ids, and the calls of new get ids.  The build checks for overflow, which
\* ends the run with a trap.
Overflows(prev, new) == prev.last + Cardinality(new) > MaxRequestId

Executed(r, new) ==
    LET known == r.prev.executed \cup r.current.executed
        waiting == [c \in (DOMAIN r.prev.requested \cup DOMAIN r.current.requested) \ known |->
                       IF c \in DOMAIN r.prev.requested THEN r.prev.requested[c]
                       ELSE r.current.requested[c]]
        answered == {c \in DOMAIN waiting : \E s \in r.results : s.id = waiting[c]}
        ids == NewIds(new, r.prev.last)
    IN  [executed |-> known \cup answered,
         requested |-> [c \in (DOMAIN waiting \ answered) \cup new |->
                           IF c \in new THEN ids[c] ELSE waiting[c]],
         last |-> r.prev.last + Cardinality(new)]

\* The calls that a run may request: those it knows nothing of.
Requestable(r) ==
    Calls \ (r.prev.executed \cup r.current.executed
             \cup DOMAIN r.prev.requested \cup DOMAIN r.current.requested)

\* populate_outcome_from_contexts.
Farewell(r, ret_code, new) ==
    LET data == Executed(r, new)
    IN  InterpreterOutcome(ret_code, data,
                           {[particle |-> r.particle, id |-> data.requested[c], call |-> c] : c \in new},
                           TRUE, ResultsTriggering(r))

PreparationErrors == {"EnvelopeDeFailed", "UnsupportedInterpreterVersion", "DataDeFailed",
                      "CidStoreVerificationError", "DataSignatureCheckError", "AIRParseError",
                      "CallResultsDeFailed"}
\* Those after the sizes of the results are checked.
ExecutionErrors == {"MalformedKeyPairData", "UncatchableError", "SigningError"}

\* execute_air_impl: what a run can come to.  How the execution ends, and which calls it
\* reaches, is up to the script.
Outcomes(r) ==
    IF SizesRefused(r) THEN {from_uncatchable_error(r.prev, "SizeLimitsExceded", NoTriggering)}
    ELSE {from_uncatchable_error(r.prev, e, SizesTriggering(r)) : e \in PreparationErrors}
         \cup (IF ResultsRefused(r)
               THEN {from_uncatchable_error(r.prev, "SizeLimitsExceded", ResultsTriggering(r))}
               ELSE {from_uncatchable_error(r.prev, e, ResultsTriggering(r)) : e \in ExecutionErrors}
                    \cup {CorruptedOutcome("InternalError", ResultsTriggering(r))}
                    \cup {Farewell(r, ret_code, new) :
                             ret_code \in {"INTERPRETER_SUCCESS", "CatchableError"},
                             new \in {S \in SUBSET Requestable(r) : ~Overflows(r.prev, S)}})

\* The traps of the module: an overflow, or a heap at its limit.
Traps(r) == \E S \in SUBSET Requestable(r) : Overflows(r.prev, S)

------------------------------------------------------------------------------
(* AVM::call, step by step. *)

CanFail == failures < MaxFailures

\* The host calls with data that arrived (or none) and with results it has.  The result
\* of a particle that is over is dropped.
Call(p, current, R) ==
    /\ run = Idle
    /\ p \notin expired
    /\ R \subseteq {s \in results : s.particle = p}
    /\ results' = results \ R
    /\ \E air_size, data_size \in Sizes :
          run' = [phase |-> "read", particle |-> p, prev |-> EmptyData, current |-> current,
                  results |-> R, air_size |-> air_size, data_size |-> data_size,
                  outcome |-> Idle]
    /\ UNCHANGED <<hard_limit_enabled, store, sent, requests, expired, failures>>

ReadData ==
    /\ run.phase = "read"
    /\ run' = [run EXCEPT !.phase = "invoke", !.prev = store[run.particle]]
    /\ UNCHANGED <<hard_limit_enabled, store, sent, requests, results, expired, failures>>

\* An AVMError without an outcome: the host keeps the results for another call.
GiveUp ==
    /\ run' = Idle
    /\ results' = results \cup run.results
    /\ UNCHANGED <<hard_limit_enabled, store, sent, requests, expired>>

\* Mutant: an outcome that does not decode is taken for one without requests.
InvokeDecodesAnything ==
    /\ run.phase = "invoke"
    /\ \E o \in Outcomes(run) : run' = [run EXCEPT !.phase = "examine", !.outcome = o]
    /\ UNCHANGED <<hard_limit_enabled, store, sent, requests, results, expired, failures>>

\* from_interpreter_outcome: the requests must decode.
Decodes(o) == o.has_request_bytes

\* AVMRunner::call.
Invoke ==
    /\ run.phase = "invoke"
    /\ \E o \in Outcomes(run) :
          IF Decodes(o)
          THEN /\ run' = [run EXCEPT !.phase = "examine", !.outcome = o]
               /\ UNCHANGED <<hard_limit_enabled, store, sent, requests, results, expired>>
          ELSE GiveUp
    /\ UNCHANGED failures

Trap ==
    /\ run.phase = "invoke"
    /\ Traps(run)
    /\ GiveUp
    /\ UNCHANGED failures

\* detect_anomaly is up to the data store; collect_anomaly_data is before store_data.
Examine ==
    /\ run.phase = "examine"
    /\ run' = [run EXCEPT !.phase = "store"]
    /\ UNCHANGED <<hard_limit_enabled, store, sent, requests, results, expired, failures>>

StoreData ==
    /\ run.phase = "store"
    /\ store' = [store EXCEPT ![run.particle] = run.outcome.data]
    /\ run' = [run EXCEPT !.phase = "return"]
    /\ UNCHANGED <<hard_limit_enabled, sent, requests, results, expired, failures>>

\* from_raw_outcome: with ret_code 0 or with an error, the outcome is the host's.  Its
\* requests go to services, its data may leave the peer.
ReturnOutcome ==
    /\ run.phase = "return"
    /\ requests' = requests \cup run.outcome.call_requests
    /\ sent' = [sent EXCEPT ![run.particle] = @ \cup {run.outcome.data}]
    /\ run' = Idle
    /\ UNCHANGED <<hard_limit_enabled, store, results, expired, failures>>

\* Mutant: a failure to record an anomaly or to store is ignored.
HostErrorIgnored ==
    /\ CanFail
    /\ run.phase \in {"read", "examine", "store"}
    /\ run' = [run EXCEPT !.phase = IF run.phase = "read" THEN "invoke" ELSE "return"]
    /\ failures' = failures + 1
    /\ UNCHANGED <<hard_limit_enabled, store, sent, requests, results, expired>>

\* read_data, save_anomaly_data or store_data fails: the ? of AVM::call.
HostError ==
    /\ CanFail
    /\ run.phase \in {"read", "examine", "store"}
    /\ GiveUp
    /\ failures' = failures + 1

------------------------------------------------------------------------------
(* The host. *)

\* A service answers.
Answer ==
    \E q \in requests, size \in Sizes :
        /\ requests' = requests \ {q}
        /\ results' = results \cup {[particle |-> q.particle, id |-> q.id, call |-> q.call, size |-> size]}
        /\ UNCHANGED <<hard_limit_enabled, store, sent, run, expired, failures>>

\* The process dies: the data store remains, and what left the peer.
Crash ==
    /\ CanFail
    /\ run' = Idle
    /\ requests' = {}
    /\ results' = {}
    /\ failures' = failures + 1
    /\ UNCHANGED <<hard_limit_enabled, store, sent, expired>>

\* cleanup_data, for a particle that is over.
Cleanup(p) ==
    /\ run = Idle
    /\ p \notin expired
    /\ store' = [store EXCEPT ![p] = EmptyData]
    /\ requests' = {q \in requests : q.particle # p}
    /\ results' = {s \in results : s.particle # p}
    /\ expired' = expired \cup {p}
    /\ UNCHANGED <<hard_limit_enabled, sent, run, failures>>

AnyCall == \E p \in Particles : \E current \in sent[p], R \in SUBSET results : Call(p, current, R)
AnyCleanup == \E p \in Particles : Cleanup(p)

Next ==
    \/ AnyCall \/ ReadData \/ Invoke \/ Trap \/ Examine \/ StoreData \/ ReturnOutcome
    \/ HostError \/ Answer \/ Crash \/ AnyCleanup

Spec == Init /\ [][Next]_vars

------------------------------------------------------------------------------
(* Properties. *)

\* What the data of a particle holds is never taken back while the particle lives: an
\* executed call stays executed, a requested one keeps its id or becomes executed, and
\* last_call_request_id does not fall; not by a run that is refused, fails, ends in an
\* outcome without data, or dies half way.
NothingStoredIsLost ==
    [][\A p \in Particles \ expired' :
          /\ store[p].executed \subseteq store'[p].executed
          /\ \A c \in DOMAIN store[p].requested :
                \/ c \in store'[p].executed
                \/ c \in DOMAIN store'[p].requested /\ store'[p].requested[c] = store[p].requested[c]
          /\ store[p].last <= store'[p].last]_vars

\* What the host has out with services, and the results it holds, are known to the data
\* store under the same ids, and no two of a particle share one: a result that comes
\* back reaches the call it was made for, also when ids run out, when a run was repeated
\* after a failure, and after a crash.
RequestsAreStored ==
    LET out == requests \cup {[particle |-> s.particle, id |-> s.id, call |-> s.call] : s \in results}
    IN  /\ \A q \in out : /\ q.call \in DOMAIN store[q.particle].requested
                          /\ store[q.particle].requested[q.call] = q.id
        /\ \A p \in Particles, c, d \in Calls :
              LET ids == store[p].requested
              IN  c # d /\ {c, d} \subseteq DOMAIN ids => ids[c] # ids[d]

\* Oversized input is refused or reported, never neither: under hard limits no run on it
\* changes data or makes requests, under soft limits the outcome has exactly the flags of
\* the limits that are exceeded, however the execution ends.
LimitsAreKept ==
    run.phase \in {"examine", "store", "return"} =>
        LET exceeded == [air |-> run.air_size > SizeLimit, particle |-> run.data_size > SizeLimit,
                         call_result |-> \E s \in run.results : s.size > SizeLimit]
            o == run.outcome
            prepared == o.ret_code \notin PreparationErrors
        IN  IF hard_limit_enabled
            THEN exceeded # NoTriggering => o.data = run.prev /\ o.call_requests = {}
            ELSE /\ o.triggering.air = exceeded.air
                 /\ o.triggering.particle = exceeded.particle
                 /\ prepared => o.triggering.call_result = exceeded.call_result
                 /\ o.ret_code # "SizeLimitsExceded"
=============================================================================
