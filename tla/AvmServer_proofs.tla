-------------------------- MODULE AvmServer_proofs --------------------------
(***************************************************************************)
(* Theorems about AVM::call, for any particles, calls, sizes and limits,    *)
(* and any number of failures.                                             *)
(***************************************************************************)
EXTENDS AvmServer, FiniteSetTheorems, TLAPS

-----------------------------------------------------------------------------
(* The inductive invariant.                                                *)

Ids == UNION {[S -> Nat] : S \in SUBSET Calls}
DataSet == [executed : SUBSET Calls, requested : Ids, last : Nat]
RequestSet == [particle : Particles, id : Nat, call : Calls]
ResultSet == [particle : Particles, id : Nat, call : Calls, size : Sizes]
TriggeringSet == [air : BOOLEAN, particle : BOOLEAN, call_result : BOOLEAN]
RetCodes == PreparationErrors \cup ExecutionErrors
            \cup {"SizeLimitsExceded", "INTERPRETER_SUCCESS", "CatchableError"}
OutcomeSet == [ret_code : RetCodes, data : DataSet, call_requests : SUBSET RequestSet,
               has_request_bytes : BOOLEAN, triggering : TriggeringSet]
RunSet == [phase : {"read", "invoke", "examine", "store", "return"}, particle : Particles,
           prev : DataSet, current : DataSet, results : SUBSET ResultSet,
           air_size : Sizes, data_size : Sizes, outcome : OutcomeSet \cup {Idle}]

TypeInv ==
  /\ hard_limit_enabled \in BOOLEAN
  /\ store \in [Particles -> DataSet] /\ sent \in [Particles -> SUBSET DataSet]
  /\ requests \in SUBSET RequestSet /\ results \in SUBSET ResultSet
  /\ run \in RunSet \cup {Idle}
  /\ expired \in SUBSET Particles

\* A call is executed or requested, not both; its id was given, and to no other.
Sound(d) ==
  /\ d.executed \cap DOMAIN d.requested = {}
  /\ \A c \in DOMAIN d.requested : d.requested[c] <= d.last
  /\ \A b, c \in DOMAIN d.requested : d.requested[b] = d.requested[c] => b = c

\* The data e took nothing back of the data d.
Extends(d, e) ==
  /\ d.executed \subseteq e.executed
  /\ \A c \in DOMAIN d.requested :
       \/ c \in e.executed
       \/ c \in DOMAIN e.requested /\ e.requested[c] = d.requested[c]
  /\ d.last <= e.last

\* q is what the data d knows of its call.
Known(q, d) == q.call \in DOMAIN d.requested /\ d.requested[q.call] = q.id

SameCall(q, s) == q.particle = s.particle /\ q.call = s.call

\* An outcome that the run r of a particle may come to: its data goes on from
\* the previous data, the requests are new, and a request that is gone was answered.
OutcomeOK(r, o) ==
  /\ o \in OutcomeSet
  /\ Sound(o.data) /\ Extends(r.prev, o.data)
  /\ \A q \in o.call_requests :
       q.particle = r.particle /\ Known(q, o.data) /\ q.call \notin DOMAIN r.prev.requested
  /\ \A c \in DOMAIN r.prev.requested :
       \/ c \in DOMAIN o.data.requested
       \/ \E s \in r.results : s.id = r.prev.requested[c]

\* The results that are not used up: those of a run in progress come back to the
\* host when it fails.
Held == results \cup (IF run.phase \in {"read", "invoke", "examine", "store"} THEN run.results
                                                                             ELSE {})

RunOK ==
  run # Idle =>
    /\ run.particle \notin expired
    /\ \A s \in run.results : s.particle = run.particle
    /\ Sound(run.current) /\ Extends(run.current, store[run.particle])
    /\ run.phase # "return" => results \cap run.results = {}
    /\ run.phase \in {"invoke", "examine", "store"} => run.prev = store[run.particle]
    /\ run.phase \in {"examine", "store", "return"} => OutcomeOK(run, run.outcome)
    /\ run.phase = "return" => /\ store[run.particle] = run.outcome.data
                               /\ \A q \in run.outcome.call_requests, s \in requests \cup results :
                                    ~SameCall(q, s)

StoreOK == \A p \in Particles : Sound(store[p])

\* What left the peer is behind the store.
SentOK == \A p \in Particles \ expired : \A d \in sent[p] : Sound(d) /\ Extends(d, store[p])

\* Every call that is out is out once, and the store has its id.
OutOK ==
  /\ \A q \in requests \cup Held : Known(q, store[q.particle])
  /\ \A s, t \in Held : SameCall(s, t) => s = t
  /\ \A q \in requests, s \in Held : ~SameCall(q, s)

ServerInv == TypeInv /\ StoreOK /\ SentOK /\ OutOK /\ RunOK /\ LimitsAreKept

-----------------------------------------------------------------------------
(* Data and its order.                                                     *)

LEMMA ExtendsReflexive ==
  ASSUME NEW d \in DataSet
  PROVE  Extends(d, d)
  BY DEF Extends, DataSet

LEMMA ExtendsTransitive ==
  ASSUME NEW d \in DataSet, NEW e \in DataSet, NEW f \in DataSet, Extends(d, e), Extends(e, f)
  PROVE  Extends(d, f)
<1>1. d.last \in Nat /\ e.last \in Nat /\ f.last \in Nat
  BY DEF DataSet
<1>2. d.last <= f.last /\ d.executed \subseteq f.executed
  BY <1>1 DEF Extends
<1>3. ASSUME NEW c \in DOMAIN d.requested
      PROVE  \/ c \in f.executed
             \/ c \in DOMAIN f.requested /\ f.requested[c] = d.requested[c]
  BY DEF Extends
<1>4. QED
  BY <1>2, <1>3 DEF Extends

LEMMA EmptyDataOK == EmptyData \in DataSet /\ Sound(EmptyData) /\ EmptyData.last = 0
<1>1. EmptyData.requested \in [{} -> Nat] /\ {} \in SUBSET Calls
  BY DEF EmptyData
<1>2. EmptyData.requested \in Ids
  BY <1>1 DEF Ids
<1>3. QED
  BY <1>1, <1>2 DEF EmptyData, DataSet, Sound

\* next_call_request_id: the calls of a run get different ids, all above the
\* last one.
LEMMA NewIdsProperties ==
  ASSUME NEW S \in SUBSET Calls, NEW last \in Nat
  PROVE  /\ Cardinality(S) \in Nat
         /\ NewIds(S, last) \in [S -> Nat]
         /\ \A c \in S : last < NewIds(S, last)[c] /\ NewIds(S, last)[c] <= last + Cardinality(S)
         /\ \A b, c \in S : NewIds(S, last)[b] = NewIds(S, last)[c] => b = c
<1> DEFINE Upto(c) == {d \in S : d <= c}
<1>1. IsFiniteSet(S) /\ S \subseteq Nat
  BY CallsAssumption, FS_Subset
<1>2. Cardinality(S) \in Nat
  BY <1>1, FS_CardinalityType
<1>3. \A c \in S : Upto(c) \in SUBSET S
  OBVIOUS
<1>4. \A c \in S : /\ IsFiniteSet(Upto(c)) /\ Cardinality(Upto(c)) \in Nat
                   /\ Cardinality(Upto(c)) <= Cardinality(S)
  BY <1>1, <1>3, FS_Subset, FS_CardinalityType
<1>5. \A c \in S : c \in Upto(c)
  BY <1>1
<1>6. \A c \in S : Cardinality(Upto(c)) # 0
  BY <1>4, <1>5, FS_EmptySet
<1>7. ASSUME NEW b \in S, NEW c \in S, b < c PROVE Cardinality(Upto(b)) < Cardinality(Upto(c))
  <2>1. Upto(b) \in SUBSET Upto(c) /\ c \notin Upto(b)
    <3>1. b \in Nat /\ c \in Nat /\ ~(c <= b) /\ \A e \in S : e <= b => e <= c
      BY <1>1, <1>7
    <3>2. QED
      BY <3>1
  <2>2. Upto(b) # Upto(c)
    BY <1>5, <2>1
  <2> HIDE DEF Upto
  <2>3. Cardinality(Upto(b)) <= Cardinality(Upto(c)) /\ Cardinality(Upto(b)) # Cardinality(Upto(c))
    BY <1>4, <2>1, <2>2, FS_Subset
  <2>4. QED
    BY <1>4, <2>3
<1>8. \A c \in S : NewIds(S, last)[c] = last + Cardinality(Upto(c))
  BY DEF NewIds
<1>9. NewIds(S, last) = [c \in S |-> last + Cardinality(Upto(c))]
  BY DEF NewIds
<1> HIDE DEF Upto
<1>10. NewIds(S, last) \in [S -> Nat]
  BY <1>4, <1>9
<1>11. \A c \in S : last < NewIds(S, last)[c] /\ NewIds(S, last)[c] <= last + Cardinality(S)
  BY <1>2, <1>4, <1>6, <1>8
<1>12. ASSUME NEW b \in S, NEW c \in S, NewIds(S, last)[b] = NewIds(S, last)[c] PROVE b = c
  <2>1. Cardinality(Upto(b)) = Cardinality(Upto(c))
    BY <1>4, <1>8, <1>12
  <2>2. ~(b < c) /\ ~(c < b)
    BY <1>4, <1>7, <2>1
  <2>3. QED
    BY <1>1, <2>2
<1>13. QED
  BY <1>2, <1>10, <1>11, <1>12

\* The execution of a run: its data goes on from the previous data, since the
\* current data is behind it.
LEMMA ExecutedProperties ==
  ASSUME NEW r \in RunSet, NEW new \in SUBSET Requestable(r),
         Sound(r.prev), Extends(r.current, r.prev)
  PROVE  LET d == Executed(r, new) IN
         /\ d \in DataSet /\ Sound(d) /\ Extends(r.prev, d)
         /\ new \subseteq DOMAIN d.requested /\ new \in SUBSET Calls
         /\ new \cap DOMAIN r.prev.requested = {}
         /\ \A c \in DOMAIN r.prev.requested :
              c \in DOMAIN d.requested \/ \E s \in r.results : s.id = r.prev.requested[c]
<1> DEFINE prev == r.prev
           ids == NewIds(new, prev.last)
           known == prev.executed \cup r.current.executed
           waiting == [c \in (DOMAIN prev.requested \cup DOMAIN r.current.requested) \ known |->
                         IF c \in DOMAIN prev.requested THEN prev.requested[c]
                         ELSE r.current.requested[c]]
           answered == {c \in DOMAIN waiting : \E s \in r.results : s.id = waiting[c]}
           left == DOMAIN waiting \ answered
           d == Executed(r, new)
<1>1. prev \in DataSet /\ r.current \in DataSet
  BY DEF RunSet
<1>2. PICK P \in SUBSET Calls : prev.requested \in [P -> Nat]
  BY <1>1 DEF DataSet, Ids
<1>3. prev.executed \in SUBSET Calls /\ prev.last \in Nat /\ r.current.executed \subseteq prev.executed
  BY <1>1 DEF DataSet, Extends
<1>4. known = prev.executed
  BY <1>3
<1>5. DOMAIN waiting = P
  <2>1. DOMAIN r.current.requested \subseteq prev.executed \cup P
    BY <1>2 DEF Extends
  <2>2. prev.executed \cap P = {}
    BY <1>2 DEF Sound
  <2>3. (P \cup DOMAIN r.current.requested) \ prev.executed = P
    BY <2>1, <2>2
  <2>4. QED
    BY <1>2, <1>4, <2>3
<1>6. \A c \in P : waiting[c] = prev.requested[c] /\ waiting[c] \in Nat /\ waiting[c] <= prev.last
  <2>1. \A c \in P : waiting[c] = prev.requested[c]
    BY <1>2, <1>5
  <2>2. QED
    BY <1>2, <2>1 DEF Sound
<1>7. \A b, c \in P : waiting[b] = waiting[c] => b = c
  BY <1>2, <1>6 DEF Sound
<1>8. new \in SUBSET Calls /\ new \cap P = {} /\ new \cap known = {}
  BY <1>2 DEF Requestable
<1>9. /\ Cardinality(new) \in Nat /\ ids \in [new -> Nat]
      /\ \A c \in new : prev.last < ids[c] /\ ids[c] <= prev.last + Cardinality(new)
      /\ \A b, c \in new : ids[b] = ids[c] => b = c
  BY <1>3, <1>8, NewIdsProperties
<1>10. /\ d.executed = known \cup answered /\ d.last = prev.last + Cardinality(new)
       /\ d.requested = [c \in left \cup new |-> IF c \in new THEN ids[c] ELSE waiting[c]]
       /\ d = [executed |-> d.executed, requested |-> d.requested, last |-> d.last]
  BY DEF Executed
<1>11. left \subseteq P /\ answered \subseteq P /\ left \cap answered = {} /\ P \subseteq left \cup answered
  BY <1>5
<1>12. \A c \in answered : \E s \in r.results : s.id = prev.requested[c]
  BY <1>5, <1>6
<1> HIDE DEF prev, ids, known, waiting, answered, left, d
<1>13. /\ DOMAIN d.requested = left \cup new
       /\ \A c \in new : d.requested[c] = ids[c]
       /\ \A c \in left : d.requested[c] = waiting[c]
  BY <1>8, <1>10, <1>11
<1>14. d.requested \in [left \cup new -> Nat]
  BY <1>6, <1>9, <1>10, <1>11
<1>15. d \in DataSet
  <2>1. left \cup new \in SUBSET Calls /\ d.executed \in SUBSET Calls
    BY <1>2, <1>3, <1>4, <1>8, <1>10, <1>11
  <2>2. d.requested \in Ids
    BY <1>14, <2>1 DEF Ids
  <2>3. d.last \in Nat
    BY <1>3, <1>9, <1>10
  <2>4. QED
    BY <1>10, <2>1, <2>2, <2>3 DEF DataSet
<1>16. Sound(d)
  <2>1. d.executed \cap DOMAIN d.requested = {}
    <3>1. known \cap P = {}
      BY <1>2, <1>4 DEF Sound, prev
    <3>2. QED
      BY <1>8, <1>10, <1>11, <1>13, <3>1
  <2>2. \A c \in DOMAIN d.requested : d.requested[c] <= d.last
    <3>1. \A c \in new : d.requested[c] <= d.last
      BY <1>9, <1>10, <1>13
    <3>2. \A c \in left : d.requested[c] <= d.last
      BY <1>3, <1>6, <1>9, <1>10, <1>11, <1>13
    <3>3. QED
      BY <1>13, <3>1, <3>2
  <2>3. ASSUME NEW b \in DOMAIN d.requested, NEW c \in DOMAIN d.requested,
               d.requested[b] = d.requested[c]
        PROVE  b = c
    <3>1. CASE b \in new /\ c \in new
      BY <1>9, <1>13, <2>3, <3>1
    <3>2. CASE b \in left /\ c \in left
      BY <1>7, <1>11, <1>13, <2>3, <3>2
    <3>3. \A x \in new, y \in left : d.requested[x] # d.requested[y]
      BY <1>3, <1>6, <1>9, <1>11, <1>13
    <3>4. QED
      BY <1>13, <2>3, <3>1, <3>2, <3>3
  <2>4. QED
    BY <2>1, <2>2, <2>3 DEF Sound
<1>17. Extends(prev, d)
  <2>1. prev.executed \subseteq d.executed /\ prev.last <= d.last
    BY <1>3, <1>4, <1>9, <1>10
  <2>2. ASSUME NEW c \in DOMAIN prev.requested
        PROVE  \/ c \in d.executed
               \/ c \in DOMAIN d.requested /\ d.requested[c] = prev.requested[c]
    BY <1>2, <1>6, <1>10, <1>11, <1>13
  <2>3. QED
    BY <2>1, <2>2 DEF Extends
<1>18. \A c \in DOMAIN prev.requested :
         c \in DOMAIN d.requested \/ \E s \in r.results : s.id = prev.requested[c]
  BY <1>2, <1>11, <1>12, <1>13
<1>19. QED
  BY <1>2, <1>8, <1>13, <1>15, <1>16, <1>17, <1>18 DEF prev, d

-----------------------------------------------------------------------------
(* Outcomes.                                                               *)

\* LimitsAreKept for the outcome o of the run r.
LimitsOK(r, o) ==
  LET exceeded == [air |-> r.air_size > SizeLimit, particle |-> r.data_size > SizeLimit,
                   call_result |-> \E s \in r.results : s.size > SizeLimit]
  IN  IF hard_limit_enabled
      THEN exceeded # NoTriggering => o.data = r.prev /\ o.call_requests = {}
      ELSE /\ o.triggering.air = exceeded.air
           /\ o.triggering.particle = exceeded.particle
           /\ o.ret_code \notin PreparationErrors => o.triggering.call_result = exceeded.call_result
           /\ o.ret_code # "SizeLimitsExceded"

\* Records with the three flags, whatever they hold.
LEMMA FlagsRecord ==
  ASSUME NEW B, NEW a \in B, NEW b \in B, NEW c \in B, NEW e \in B
  PROVE  LET s == [air |-> a, particle |-> b, call_result |-> e]
             t == [s EXCEPT !.call_result = c]
         IN  /\ s \in [air : B, particle : B, call_result : B]
             /\ t \in [air : B, particle : B, call_result : B]
             /\ s.air = a /\ s.particle = b /\ s.call_result = e
             /\ t.air = a /\ t.particle = b /\ t.call_result = c
  OBVIOUS

\* The flags of check_against_size_limits and of make_exec_ctx.
LEMMA TriggeringFlags ==
  ASSUME NEW r \in RunSet
  PROVE  LET s == SizesTriggering(r)
             t == ResultsTriggering(r)
         IN  /\ s \in TriggeringSet /\ t \in TriggeringSet /\ NoTriggering \in TriggeringSet
             /\ s.air = (r.air_size > SizeLimit) /\ s.particle = (r.data_size > SizeLimit)
             /\ t.air = s.air /\ t.particle = s.particle
             /\ t.call_result = \E q \in r.results : q.size > SizeLimit
<1> DEFINE a == r.air_size > SizeLimit
           b == r.data_size > SizeLimit
           c == \E q \in r.results : q.size > SizeLimit
<1>1. a \in BOOLEAN /\ b \in BOOLEAN /\ c \in BOOLEAN /\ FALSE \in BOOLEAN
  OBVIOUS
<1>2. SizesTriggering(r) = [air |-> a, particle |-> b, call_result |-> FALSE]
  BY DEF SizesTriggering, Exceeds
<1>3. ResultsTriggering(r) = [SizesTriggering(r) EXCEPT !.call_result = c]
  BY DEF ResultsTriggering, Exceeds
<1> HIDE DEF a, b, c
<1>4. NoTriggering \in TriggeringSet
  BY <1>1, FlagsRecord, Zenon DEF TriggeringSet, NoTriggering
<1>5. /\ SizesTriggering(r) \in TriggeringSet /\ ResultsTriggering(r) \in TriggeringSet
      /\ SizesTriggering(r).air = a /\ SizesTriggering(r).particle = b
      /\ ResultsTriggering(r).air = a /\ ResultsTriggering(r).particle = b
      /\ ResultsTriggering(r).call_result = c
  <2> DEFINE s == [air |-> a, particle |-> b, call_result |-> FALSE]
             t == [s EXCEPT !.call_result = c]
  <2>1. /\ s \in TriggeringSet /\ t \in TriggeringSet
        /\ s.air = a /\ s.particle = b /\ t.air = a /\ t.particle = b /\ t.call_result = c
    BY <1>1, FlagsRecord, Zenon DEF TriggeringSet
  <2>2. SizesTriggering(r) = s /\ ResultsTriggering(r) = t
    BY <1>2, <1>3, Zenon
  <2> HIDE DEF s, t
  <2>3. QED
    BY <2>1, <2>2, Zenon
<1>6. QED
  BY <1>4, <1>5, Zenon DEF a, b, c

\* An outcome with an uncatchable error keeps the previous data.
LEMMA UncatchableOK ==
  ASSUME NEW r \in RunSet, Sound(r.prev), NEW error \in RetCodes, NEW t \in TriggeringSet
  PROVE  LET o == from_uncatchable_error(r.prev, error, t) IN
         /\ OutcomeOK(r, o) /\ o.data = r.prev /\ o.call_requests = {}
         /\ o.triggering = t /\ o.ret_code = error
<1> DEFINE o == from_uncatchable_error(r.prev, error, t)
<1>1. /\ o.data = r.prev /\ o.call_requests = {} /\ o.triggering = t /\ o.ret_code = error
      /\ o \in OutcomeSet
  BY DEF from_uncatchable_error, InterpreterOutcome, OutcomeSet, RunSet
<1>2. Extends(r.prev, r.prev)
  BY ExtendsReflexive DEF RunSet
<1> HIDE DEF o
<1>3. OutcomeOK(r, o)
  BY <1>1, <1>2 DEF OutcomeOK
<1>4. QED
  BY <1>1, <1>3 DEF o

\* An outcome of an execution that reached its end.
LEMMA FarewellOK ==
  ASSUME NEW r \in RunSet, Sound(r.prev), Extends(r.current, r.prev),
         NEW ret_code \in RetCodes, NEW new \in SUBSET Requestable(r)
  PROVE  LET o == Farewell(r, ret_code, new) IN
         OutcomeOK(r, o) /\ o.triggering = ResultsTriggering(r) /\ o.ret_code = ret_code
<1> DEFINE d == Executed(r, new)
           qs == {[particle |-> r.particle, id |-> d.requested[c], call |-> c] : c \in new}
           o == Farewell(r, ret_code, new)
<1>1. /\ d \in DataSet /\ Sound(d) /\ Extends(r.prev, d)
      /\ new \subseteq DOMAIN d.requested /\ new \in SUBSET Calls
      /\ new \cap DOMAIN r.prev.requested = {}
      /\ \A c \in DOMAIN r.prev.requested :
           c \in DOMAIN d.requested \/ \E s \in r.results : s.id = r.prev.requested[c]
  BY ExecutedProperties
<1> HIDE DEF d
<1>2. \A c \in new : d.requested[c] \in Nat
  BY <1>1 DEF DataSet, Ids
<1>3. qs \in SUBSET RequestSet
  BY <1>1, <1>2 DEF RequestSet, RunSet
<1>4. \A q \in qs : q.particle = r.particle /\ Known(q, d) /\ q.call \notin DOMAIN r.prev.requested
  BY <1>1 DEF Known
<1>5. ResultsTriggering(r) \in TriggeringSet
  BY TriggeringFlags
<1>6. o = [ret_code |-> ret_code, data |-> d, call_requests |-> qs, has_request_bytes |-> TRUE,
           triggering |-> ResultsTriggering(r)]
  BY DEF Farewell, InterpreterOutcome, d
<1> HIDE DEF qs, o
<1>7. /\ o \in OutcomeSet /\ o.data = d /\ o.call_requests = qs
      /\ o.triggering = ResultsTriggering(r) /\ o.ret_code = ret_code
  BY <1>1, <1>3, <1>5, <1>6 DEF OutcomeSet
<1>8. OutcomeOK(r, o)
  BY <1>1, <1>4, <1>7 DEF OutcomeOK
<1>9. QED
  BY <1>7, <1>8 DEF o

\* What a run can come to, if its outcome decodes.
LEMMA OutcomesOK ==
  ASSUME hard_limit_enabled \in BOOLEAN, NEW r \in RunSet, Sound(r.prev),
         Extends(r.current, r.prev), NEW o \in Outcomes(r), Decodes(o)
  PROVE  OutcomeOK(r, o) /\ LimitsOK(r, o)
<1> DEFINE s == SizesTriggering(r)
           t == ResultsTriggering(r)
<1>1. /\ s \in TriggeringSet /\ t \in TriggeringSet /\ NoTriggering \in TriggeringSet
      /\ s.air = (r.air_size > SizeLimit) /\ s.particle = (r.data_size > SizeLimit)
      /\ t.air = s.air /\ t.particle = s.particle
      /\ t.call_result = \E q \in r.results : q.size > SizeLimit
  BY TriggeringFlags
<1>2. /\ SizesRefused(r) = (hard_limit_enabled /\ (s.air \/ s.particle))
      /\ ResultsRefused(r) = (hard_limit_enabled /\ t.call_result)
  BY <1>1 DEF SizesRefused, ResultsRefused, Exceeds
<1>3. /\ PreparationErrors \subseteq RetCodes /\ ExecutionErrors \subseteq RetCodes
      /\ {"SizeLimitsExceded", "INTERPRETER_SUCCESS", "CatchableError"} \subseteq RetCodes
      /\ "SizeLimitsExceded" \notin PreparationErrors
      /\ "SizeLimitsExceded" \notin ExecutionErrors
  BY DEF PreparationErrors, ExecutionErrors, RetCodes
<1> HIDE DEF s, t
<1>4. CASE SizesRefused(r)
  <2>1. o = from_uncatchable_error(r.prev, "SizeLimitsExceded", NoTriggering)
    BY <1>4 DEF Outcomes
  <2>2. OutcomeOK(r, o) /\ o.data = r.prev /\ o.call_requests = {}
    BY <1>1, <1>3, <2>1, UncatchableOK
  <2>3. QED
    BY <1>2, <1>4, <2>2 DEF LimitsOK
<1>5. CASE ~SizesRefused(r) /\ \E e \in PreparationErrors : o = from_uncatchable_error(r.prev, e, s)
  <2>1. PICK e \in PreparationErrors : o = from_uncatchable_error(r.prev, e, s)
    BY <1>5
  <2>2. /\ OutcomeOK(r, o) /\ o.data = r.prev /\ o.call_requests = {}
        /\ o.triggering = s /\ o.ret_code = e
    BY <1>1, <1>3, <2>1, UncatchableOK
  <2>3. QED
    BY <1>1, <1>3, <2>2 DEF LimitsOK
<1>6. CASE ResultsRefused(r) /\ o = from_uncatchable_error(r.prev, "SizeLimitsExceded", t)
  <2>1. OutcomeOK(r, o) /\ o.data = r.prev /\ o.call_requests = {}
    BY <1>1, <1>3, <1>6, UncatchableOK
  <2>2. QED
    BY <1>2, <1>6, <2>1 DEF LimitsOK
<1>7. CASE \E e \in ExecutionErrors : o = from_uncatchable_error(r.prev, e, t)
  <2>1. PICK e \in ExecutionErrors : o = from_uncatchable_error(r.prev, e, t)
    BY <1>7
  <2>2. /\ OutcomeOK(r, o) /\ o.data = r.prev /\ o.call_requests = {}
        /\ o.triggering = t /\ o.ret_code = e
    BY <1>1, <1>3, <2>1, UncatchableOK
  <2>3. QED
    BY <1>1, <1>3, <2>2 DEF LimitsOK
<1>8. CASE o = CorruptedOutcome("InternalError", t)
  BY <1>8 DEF CorruptedOutcome, InterpreterOutcome, Decodes
<1>9. CASE /\ ~SizesRefused(r) /\ ~ResultsRefused(r)
           /\ \E ret_code \in {"INTERPRETER_SUCCESS", "CatchableError"}, new \in SUBSET Requestable(r) :
                o = Farewell(r, ret_code, new)
  <2>1. PICK ret_code \in {"INTERPRETER_SUCCESS", "CatchableError"}, new \in SUBSET Requestable(r) :
          o = Farewell(r, ret_code, new)
    BY <1>9
  <2>2. OutcomeOK(r, o) /\ o.triggering = t /\ o.ret_code = ret_code
    BY <1>3, <2>1, FarewellOK DEF t
  <2>3. CASE hard_limit_enabled
    <3>1. ~(r.air_size > SizeLimit) /\ ~(r.data_size > SizeLimit)
          /\ ~\E q \in r.results : q.size > SizeLimit
      BY <1>1, <1>2, <1>9, <2>3
    <3>2. LET exceeded == [air |-> r.air_size > SizeLimit, particle |-> r.data_size > SizeLimit,
                           call_result |-> \E q \in r.results : q.size > SizeLimit]
          IN  exceeded = NoTriggering
      <4>1. /\ (r.air_size > SizeLimit) = FALSE /\ (r.data_size > SizeLimit) = FALSE
            /\ (\E q \in r.results : q.size > SizeLimit) = FALSE
        BY <3>1
      <4>2. QED
        BY <4>1, Zenon DEF NoTriggering
    <3>3. LimitsOK(r, o)
      BY <2>3, <3>2, Zenon DEF LimitsOK
    <3>4. QED
      BY <2>2, <3>3
  <2>4. CASE ~hard_limit_enabled
    BY <1>1, <2>1, <2>2, <2>4 DEF LimitsOK
  <2>5. QED
    BY <2>3, <2>4
<1>10. QED
  <2>1. CASE ~SizesRefused(r) /\ ResultsRefused(r)
    BY <1>5, <1>6, <2>1 DEF Outcomes, s, t
  <2>2. CASE ~SizesRefused(r) /\ ~ResultsRefused(r)
    <3>1. o \in {from_uncatchable_error(r.prev, e, s) : e \in PreparationErrors}
          \cup ({from_uncatchable_error(r.prev, e, t) : e \in ExecutionErrors}
                \cup {CorruptedOutcome("InternalError", t)}
                \cup {Farewell(r, ret_code, new) :
                        ret_code \in {"INTERPRETER_SUCCESS", "CatchableError"},
                        new \in {S \in SUBSET Requestable(r) : ~Overflows(r.prev, S)}})
      BY <2>2 DEF Outcomes, s, t
    <3>2. QED
      BY <1>5, <1>7, <1>8, <1>9, <2>2, <3>1
  <2>3. QED
    BY <1>4, <2>1, <2>2

-----------------------------------------------------------------------------
(* The steps.                                                              *)

LEMMA RunInProgress ==
  ASSUME TypeInv, run.phase # "idle"
  PROVE  run \in RunSet /\ run # Idle
  BY DEF TypeInv, Idle

\* A step that changes neither the store nor what is out.
LEMMA OutStays ==
  ASSUME ServerInv, UNCHANGED <<store, sent, requests, expired>>, Held' = Held
  PROVE  StoreOK' /\ SentOK' /\ OutOK'
<1>1. StoreOK' /\ SentOK'
  BY DEF ServerInv, StoreOK, SentOK
<1> DEFINE H == Held
<1>2. Held' = H
  OBVIOUS
<1>3. /\ \A q \in requests \cup H : Known(q, store[q.particle])
      /\ \A s, t \in H : SameCall(s, t) => s = t
      /\ \A q \in requests, s \in H : ~SameCall(q, s)
  BY DEF ServerInv, OutOK
<1> HIDE DEF H
<1>4. OutOK'
  BY <1>2, <1>3 DEF OutOK
<1>5. QED
  BY <1>1, <1>4

\* Nobody runs.
LEMMA IdleRun ==
  ASSUME run' = Idle
  PROVE  /\ run' \in RunSet \cup {Idle} /\ run'.phase = "idle" /\ RunOK' /\ LimitsAreKept'
         /\ Held' = results'
  BY DEF Idle, RunOK, LimitsAreKept, Held

LEMMA CallKeeps ==
  ASSUME ServerInv, NEW p \in Particles, NEW current \in sent[p], NEW R \in SUBSET results,
         Call(p, current, R)
  PROVE  ServerInv'
<1>1. PICK air_size \in Sizes, data_size \in Sizes :
        run' = [phase |-> "read", particle |-> p, prev |-> EmptyData, current |-> current,
                results |-> R, air_size |-> air_size, data_size |-> data_size, outcome |-> Idle]
  BY DEF Call
<1>2. /\ run = Idle /\ p \notin expired /\ results' = results \ R
      /\ \A s \in R : s.particle = p
      /\ UNCHANGED <<hard_limit_enabled, store, sent, requests, expired>>
  BY DEF Call
<1>3. current \in DataSet /\ R \in SUBSET ResultSet /\ EmptyData \in DataSet
  BY EmptyDataOK DEF ServerInv, TypeInv
<1>4. /\ run' \in RunSet /\ run'.phase = "read" /\ run'.particle = p
      /\ run'.current = current /\ run'.results = R
  BY <1>1, <1>3 DEF RunSet
<1>5. Held = results /\ Held' = (results \ R) \cup R
  BY <1>2, <1>4 DEF Held, Idle
<1>6. Held' = Held
  BY <1>5
<1>7. StoreOK' /\ SentOK' /\ OutOK'
  BY <1>2, <1>6, OutStays
<1>8. TypeInv'
  BY <1>2, <1>4 DEF ServerInv, TypeInv
<1>9. RunOK' /\ LimitsAreKept'
  BY <1>2, <1>4 DEF ServerInv, SentOK, RunOK, LimitsAreKept
<1>10. QED
  BY <1>7, <1>8, <1>9 DEF ServerInv

LEMMA ReadDataKeeps ==
  ASSUME ServerInv, ReadData
  PROVE  ServerInv'
<1>1. run \in RunSet /\ run # Idle /\ store[run.particle] \in DataSet /\ run.phase = "read"
  BY RunInProgress DEF ServerInv, TypeInv, ReadData, RunSet
<1>2. UNCHANGED <<hard_limit_enabled, store, sent, requests, results, expired>>
  BY DEF ReadData
<1>3. /\ run' \in RunSet /\ run'.phase = "invoke" /\ run'.particle = run.particle
      /\ run'.current = run.current /\ run'.results = run.results
      /\ run'.prev = store[run.particle]
  BY <1>1 DEF ReadData, RunSet
<1>4. Held' = Held
  BY <1>1, <1>2, <1>3 DEF Held
<1>5. StoreOK' /\ SentOK' /\ OutOK'
  BY <1>2, <1>4, OutStays
<1>6. TypeInv'
  BY <1>2, <1>3 DEF ServerInv, TypeInv
<1>7. RunOK' /\ LimitsAreKept'
  BY <1>1, <1>2, <1>3 DEF ServerInv, RunOK, LimitsAreKept
<1>8. QED
  BY <1>5, <1>6, <1>7 DEF ServerInv

\* A run that fails gives its results back.
LEMMA GiveUpKeeps ==
  ASSUME ServerInv, run.phase \in {"read", "invoke", "examine", "store"}, GiveUp
  PROVE  ServerInv'
<1>1. run \in RunSet
  BY RunInProgress DEF ServerInv
<1>2. /\ run' = Idle /\ results' = results \cup run.results
      /\ UNCHANGED <<hard_limit_enabled, store, sent, requests, expired>>
  BY DEF GiveUp
<1>3. Held' = Held
  BY <1>2, IdleRun DEF Held
<1>4. StoreOK' /\ SentOK' /\ OutOK'
  BY <1>2, <1>3, OutStays
<1>5. TypeInv'
  BY <1>1, <1>2 DEF ServerInv, TypeInv, RunSet
<1>6. QED
  BY <1>2, <1>4, <1>5, IdleRun DEF ServerInv

LEMMA InvokeKeeps ==
  ASSUME ServerInv, Invoke
  PROVE  ServerInv'
<1>1. run \in RunSet /\ run # Idle /\ run.phase = "invoke" /\ hard_limit_enabled \in BOOLEAN
  BY RunInProgress DEF ServerInv, TypeInv, Invoke
<1>2. PICK o \in Outcomes(run) :
        IF Decodes(o)
        THEN /\ run' = [run EXCEPT !.phase = "examine", !.outcome = o]
             /\ UNCHANGED <<hard_limit_enabled, store, sent, requests, results, expired>>
        ELSE GiveUp
  BY DEF Invoke
<1>3. CASE ~Decodes(o)
  BY <1>1, <1>2, <1>3, GiveUpKeeps
<1>4. CASE Decodes(o)
  <2>1. /\ run' = [run EXCEPT !.phase = "examine", !.outcome = o]
        /\ UNCHANGED <<hard_limit_enabled, store, sent, requests, results, expired>>
    BY <1>2, <1>4
  <2>2. run.prev = store[run.particle] /\ run.particle \in Particles
    BY <1>1 DEF ServerInv, RunOK, RunSet
  <2>3. Sound(run.prev) /\ Extends(run.current, run.prev)
    BY <1>1, <2>2 DEF ServerInv, StoreOK, RunOK
  <2>4. OutcomeOK(run, o) /\ LimitsOK(run, o)
    BY <1>1, <1>2, <1>4, <2>3, OutcomesOK
  <2>5. o \in OutcomeSet
    BY <2>4 DEF OutcomeOK
  <2>6. /\ run' \in RunSet /\ run'.phase = "examine" /\ run'.particle = run.particle
        /\ run'.current = run.current /\ run'.results = run.results
        /\ run'.prev = run.prev /\ run'.outcome = o
        /\ run'.air_size = run.air_size /\ run'.data_size = run.data_size
    BY <1>1, <2>1, <2>5 DEF RunSet
  <2>7. Held' = Held
    BY <1>1, <2>1, <2>6 DEF Held
  <2>8. StoreOK' /\ SentOK' /\ OutOK'
    BY <2>1, <2>7, OutStays
  <2>9. TypeInv'
    BY <2>1, <2>6 DEF ServerInv, TypeInv
  <2>10. OutcomeOK(run', run'.outcome)
    BY <2>4, <2>6 DEF OutcomeOK
  <2>11. RunOK'
    BY <1>1, <2>1, <2>2, <2>6, <2>10 DEF ServerInv, RunOK
  <2>12. LimitsAreKept'
    BY <2>1, <2>4, <2>6 DEF LimitsAreKept, LimitsOK
  <2>13. QED
    BY <2>8, <2>9, <2>11, <2>12 DEF ServerInv
<1>5. QED
  BY <1>3, <1>4

LEMMA ExamineKeeps ==
  ASSUME ServerInv, Examine
  PROVE  ServerInv'
<1>1. run \in RunSet /\ run # Idle /\ run.phase = "examine"
  BY RunInProgress DEF ServerInv, Examine
<1>2. UNCHANGED <<hard_limit_enabled, store, sent, requests, results, expired>>
  BY DEF Examine
<1>3. /\ run' \in RunSet /\ run'.phase = "store" /\ run'.particle = run.particle
      /\ run'.current = run.current /\ run'.results = run.results
      /\ run'.prev = run.prev /\ run'.outcome = run.outcome
      /\ run'.air_size = run.air_size /\ run'.data_size = run.data_size
  BY <1>1 DEF Examine, RunSet
<1>4. Held' = Held
  BY <1>1, <1>2, <1>3 DEF Held
<1>5. StoreOK' /\ SentOK' /\ OutOK'
  BY <1>2, <1>4, OutStays
<1>6. TypeInv'
  BY <1>2, <1>3 DEF ServerInv, TypeInv
<1>7. OutcomeOK(run', run'.outcome)
  BY <1>1, <1>3 DEF OutcomeOK, ServerInv, RunOK
<1>8. RunOK'
  BY <1>1, <1>2, <1>3, <1>7 DEF ServerInv, RunOK
<1>9. LimitsAreKept'
  BY <1>1, <1>2, <1>3 DEF ServerInv, LimitsAreKept
<1>10. QED
  BY <1>5, <1>6, <1>8, <1>9 DEF ServerInv

\* Storing the outcome of a run: what is still out was not answered, so the new
\* data has it.
LEMMA StoreDataKeeps ==
  ASSUME ServerInv, StoreData
  PROVE  ServerInv'
<1> DEFINE p == run.particle
           prev == run.prev
           o == run.outcome
           data == o.data
<1>1. run \in RunSet /\ run # Idle /\ run.phase = "store"
  BY RunInProgress DEF ServerInv, StoreData
<1>2. /\ store' = [store EXCEPT ![p] = data]
      /\ UNCHANGED <<hard_limit_enabled, sent, requests, results, expired>>
  BY DEF StoreData
<1>3. /\ run' \in RunSet /\ run'.phase = "return" /\ run'.particle = p
      /\ run'.current = run.current /\ run'.results = run.results
      /\ run'.prev = prev /\ run'.outcome = o
      /\ run'.air_size = run.air_size /\ run'.data_size = run.data_size
  BY <1>1 DEF StoreData, RunSet
<1>4. p \in Particles /\ prev \in DataSet /\ run.current \in DataSet
  BY <1>1 DEF RunSet
<1>5. /\ prev = store[p] /\ Extends(run.current, prev) /\ p \notin expired
      /\ results \cap run.results = {} /\ \A s \in run.results : s.particle = p
      /\ OutcomeOK(run, o)
  BY <1>1 DEF ServerInv, RunOK
<1>6. /\ o \in OutcomeSet /\ data \in DataSet /\ Sound(data) /\ Extends(prev, data)
      /\ \A q \in o.call_requests :
           q.particle = p /\ Known(q, data) /\ q.call \notin DOMAIN prev.requested
      /\ \A c \in DOMAIN prev.requested :
           c \in DOMAIN data.requested \/ \E s \in run.results : s.id = prev.requested[c]
  BY <1>5 DEF OutcomeOK, OutcomeSet
<1>7. store \in [Particles -> DataSet] /\ Sound(prev)
  BY <1>4, <1>5 DEF ServerInv, TypeInv, StoreOK
<1>8. Held = results \cup run.results
  BY <1>1 DEF Held
<1>9. /\ \A q \in requests \cup results \cup run.results : Known(q, store[q.particle])
      /\ \A s, t \in results \cup run.results : SameCall(s, t) => s = t
      /\ \A q \in requests, s \in results \cup run.results : ~SameCall(q, s)
  BY <1>8 DEF ServerInv, OutOK
<1>10. Held' = results
  BY <1>2, <1>3 DEF Held
<1> HIDE DEF p, prev, o, data
<1>11. /\ store' \in [Particles -> DataSet] /\ store'[p] = data
       /\ \A x \in Particles : x # p => store'[x] = store[x]
  BY <1>2, <1>4, <1>6, <1>7
<1>12. TypeInv'
  BY <1>2, <1>3, <1>11 DEF ServerInv, TypeInv
<1>13. StoreOK'
  BY <1>6, <1>11 DEF ServerInv, StoreOK
<1>14. SentOK'
  <2> SUFFICES ASSUME NEW x \in Particles \ expired, NEW d \in sent[x]
               PROVE  Sound(d) /\ Extends(d, store'[x])
    BY <1>2 DEF SentOK
  <2>1. d \in DataSet /\ Sound(d) /\ Extends(d, store[x])
    BY DEF ServerInv, TypeInv, SentOK
  <2>2. CASE x = p
    BY <1>4, <1>5, <1>6, <1>11, <2>1, <2>2, ExtendsTransitive
  <2>3. QED
    BY <1>11, <2>1, <2>2
<1>15. ASSUME NEW q \in requests \cup results PROVE Known(q, store'[q.particle])
  <2>1. q.particle \in Particles /\ Known(q, store[q.particle])
    BY <1>9 DEF ServerInv, TypeInv, RequestSet, ResultSet
  <2>2. CASE q.particle # p
    BY <1>11, <2>1, <2>2
  <2>3. CASE q.particle = p
    <3>1. q.call \in DOMAIN prev.requested /\ prev.requested[q.call] = q.id
      BY <1>5, <2>1, <2>3 DEF Known
    <3>2. ASSUME NEW s \in run.results PROVE s.id # prev.requested[q.call]
      <4>1. s.particle = p /\ s.call \in DOMAIN prev.requested /\ prev.requested[s.call] = s.id
        BY <1>5, <1>9 DEF Known
      <4>2. ~SameCall(q, s)
        BY <1>5, <1>9
      <4>3. s.call # q.call
        BY <2>3, <4>1, <4>2 DEF SameCall
      <4>4. QED
        BY <1>7, <3>1, <4>1, <4>3 DEF Sound
    <3>3. q.call \in DOMAIN data.requested
      BY <1>6, <3>1, <3>2
    <3>4. data.requested[q.call] = prev.requested[q.call]
      BY <1>6, <3>1, <3>3 DEF Sound, Extends
    <3>5. QED
      BY <1>11, <2>3, <3>1, <3>3, <3>4 DEF Known
  <2>4. QED
    BY <2>2, <2>3
<1>16. OutOK'
  BY <1>2, <1>9, <1>10, <1>15 DEF OutOK
<1>17. \A q \in o.call_requests, s \in requests \cup results : ~SameCall(q, s)
  BY <1>5, <1>6, <1>9 DEF SameCall, Known
<1>18. OutcomeOK(run', run'.outcome)
  BY <1>3, <1>5 DEF OutcomeOK, o, prev, p
<1>19. Sound(run.current) /\ Extends(run.current, data)
  BY <1>1, <1>4, <1>5, <1>6, ExtendsTransitive DEF ServerInv, RunOK
<1>20. RunOK'
  BY <1>2, <1>3, <1>5, <1>11, <1>17, <1>18, <1>19 DEF RunOK, data
<1>21. LimitsAreKept'
  BY <1>1, <1>2, <1>3 DEF ServerInv, LimitsAreKept, o, prev
<1>22. QED
  BY <1>12, <1>13, <1>14, <1>16, <1>20, <1>21 DEF ServerInv

LEMMA ReturnOutcomeKeeps ==
  ASSUME ServerInv, ReturnOutcome
  PROVE  ServerInv'
<1> DEFINE p == run.particle
           o == run.outcome
<1>1. run \in RunSet /\ run # Idle /\ run.phase = "return" /\ p \in Particles
  BY RunInProgress DEF ServerInv, ReturnOutcome, RunSet
<1>2. /\ requests' = requests \cup o.call_requests
      /\ sent' = [sent EXCEPT ![p] = @ \cup {o.data}] /\ run' = Idle
      /\ UNCHANGED <<hard_limit_enabled, store, results, expired>>
  BY DEF ReturnOutcome
<1>3. /\ OutcomeOK(run, o) /\ store[p] = o.data
      /\ \A q \in o.call_requests, s \in requests \cup results : ~SameCall(q, s)
  BY <1>1 DEF ServerInv, RunOK
<1>4. /\ o.data \in DataSet /\ o.call_requests \in SUBSET RequestSet /\ Sound(o.data)
      /\ \A q \in o.call_requests : q.particle = p /\ Known(q, o.data)
  BY <1>3 DEF OutcomeOK, OutcomeSet
<1>5. Held = results /\ Held' = results
  BY <1>1, <1>2, IdleRun DEF Held
<1> HIDE DEF p, o
<1>6. TypeInv'
  BY <1>1, <1>2, <1>4, IdleRun DEF ServerInv, TypeInv
<1>7. StoreOK'
  BY <1>2 DEF ServerInv, StoreOK
<1>8. SentOK'
  <2>1. Extends(o.data, o.data)
    BY <1>4, ExtendsReflexive
  <2>2. \A x \in Particles : \A d \in sent'[x] : d \in sent[x] \/ (x = p /\ d = o.data)
    BY <1>1, <1>2 DEF ServerInv, TypeInv
  <2>3. QED
    BY <1>2, <1>3, <1>4, <2>1, <2>2 DEF ServerInv, SentOK
<1>9. OutOK'
  <2>1. /\ \A q \in requests \cup results : Known(q, store[q.particle])
        /\ \A s, t \in results : SameCall(s, t) => s = t
        /\ \A q \in requests, s \in results : ~SameCall(q, s)
    BY <1>5 DEF ServerInv, OutOK
  <2>2. QED
    BY <1>2, <1>3, <1>4, <1>5, <2>1 DEF OutOK
<1>10. QED
  BY <1>2, <1>6, <1>7, <1>8, <1>9, IdleRun DEF ServerInv

\* A service answers while anything else goes on.
LEMMA AnswerKeeps ==
  ASSUME ServerInv, Answer
  PROVE  ServerInv'
<1>1. PICK q \in requests, size \in Sizes :
        /\ requests' = requests \ {q}
        /\ results' = results \cup
             {[particle |-> q.particle, id |-> q.id, call |-> q.call, size |-> size]}
        /\ UNCHANGED <<hard_limit_enabled, store, sent, run, expired, failures>>
  BY DEF Answer
<1> DEFINE s == [particle |-> q.particle, id |-> q.id, call |-> q.call, size |-> size]
           H == Held
<1>2. q \in RequestSet
  BY DEF ServerInv, TypeInv
<1>3. s \in ResultSet /\ s.particle = q.particle /\ s.call = q.call /\ s.id = q.id
  BY <1>2 DEF RequestSet, ResultSet
<1> HIDE DEF s
<1>4. results' = results \cup {s}
  BY <1>1 DEF s
<1>5. Held' = H \cup {s}
  BY <1>1, <1>4 DEF Held
<1>6. /\ \A x \in requests \cup H : Known(x, store[x.particle])
      /\ \A x, y \in H : SameCall(x, y) => x = y
      /\ \A x \in requests, y \in H : ~SameCall(x, y)
  BY DEF ServerInv, OutOK
<1>7. results \subseteq H /\ (run # Idle /\ run.phase # "return" => run.results \subseteq H)
  <2>1. run # Idle => run \in RunSet
    BY DEF ServerInv, TypeInv
  <2>2. QED
    BY <2>1 DEF Held, RunSet
<1> HIDE DEF H
<1>8. TypeInv'
  BY <1>1, <1>3, <1>4 DEF ServerInv, TypeInv
<1>9. StoreOK' /\ SentOK'
  BY <1>1 DEF ServerInv, StoreOK, SentOK
<1>10. /\ Known(s, store[s.particle])
       /\ \A y \in H : ~SameCall(s, y) /\ ~SameCall(y, s)
  BY <1>3, <1>6 DEF Known, SameCall
<1>11. \A x \in requests \ {q} : ~SameCall(x, s)
  <2> SUFFICES ASSUME NEW x \in requests, SameCall(x, s) PROVE x = q
    OBVIOUS
  <2>1. Known(x, store[x.particle]) /\ Known(q, store[q.particle]) /\ x \in RequestSet
    BY <1>6 DEF ServerInv, TypeInv
  <2>2. x.particle = q.particle /\ x.call = q.call /\ x.id = q.id
    BY <1>3, <2>1 DEF Known, SameCall
  <2>3. QED
    BY <1>2, <2>1, <2>2 DEF RequestSet
<1>12. OutOK'
  BY <1>1, <1>5, <1>6, <1>10, <1>11 DEF OutOK
<1>13. RunOK'
  <2> SUFFICES ASSUME run # Idle PROVE RunOK'
    BY <1>1 DEF RunOK
  <2>1. run.phase # "return" => s \notin run.results
    BY <1>7, <1>10 DEF SameCall
  <2>2. run.phase = "return" => \A x \in run.outcome.call_requests : ~SameCall(x, s)
    BY <1>3 DEF ServerInv, RunOK, SameCall
  <2>3. QED
    BY <1>1, <1>4, <2>1, <2>2 DEF ServerInv, RunOK
<1>14. LimitsAreKept'
  BY <1>1 DEF ServerInv, LimitsAreKept
<1>15. QED
  BY <1>8, <1>9, <1>12, <1>13, <1>14 DEF ServerInv

LEMMA CrashKeeps ==
  ASSUME ServerInv, Crash
  PROVE  ServerInv'
<1>1. /\ run' = Idle /\ requests' = {} /\ results' = {}
      /\ UNCHANGED <<hard_limit_enabled, store, sent, expired>>
  BY DEF Crash
<1>2. Held' = {}
  BY <1>1, IdleRun
<1>3. TypeInv' /\ StoreOK' /\ SentOK'
  BY <1>1, IdleRun DEF ServerInv, TypeInv, StoreOK, SentOK
<1>4. OutOK'
  BY <1>1, <1>2 DEF OutOK
<1>5. QED
  BY <1>1, <1>3, <1>4, IdleRun DEF ServerInv

LEMMA CleanupKeeps ==
  ASSUME ServerInv, NEW p \in Particles, Cleanup(p)
  PROVE  ServerInv'
<1>1. /\ run = Idle /\ run' = Idle /\ store' = [store EXCEPT ![p] = EmptyData]
      /\ requests' = {q \in requests : q.particle # p}
      /\ results' = {s \in results : s.particle # p}
      /\ expired' = expired \cup {p}
      /\ UNCHANGED <<hard_limit_enabled, sent>>
  BY DEF Cleanup
<1>2. Held = results /\ Held' = results'
  BY <1>1, IdleRun DEF Held, Idle
<1>3. EmptyData \in DataSet /\ Sound(EmptyData)
  BY EmptyDataOK
<1>4. /\ store' \in [Particles -> DataSet] /\ store'[p] = EmptyData
      /\ \A x \in Particles : x # p => store'[x] = store[x]
  BY <1>1, <1>3 DEF ServerInv, TypeInv
<1>5. TypeInv'
  BY <1>1, <1>4, IdleRun DEF ServerInv, TypeInv
<1>6. StoreOK' /\ SentOK'
  BY <1>1, <1>3, <1>4 DEF ServerInv, StoreOK, SentOK
<1>7. OutOK'
  <2>1. /\ \A q \in requests \cup results : Known(q, store[q.particle])
        /\ \A s, t \in results : SameCall(s, t) => s = t
        /\ \A q \in requests, s \in results : ~SameCall(q, s)
    BY <1>2 DEF ServerInv, OutOK
  <2>2. \A q \in requests \cup results : q.particle \in Particles
    BY DEF ServerInv, TypeInv, RequestSet, ResultSet
  <2>3. \A q \in requests' \cup results' : Known(q, store'[q.particle])
    BY <1>1, <1>4, <2>1, <2>2
  <2>4. QED
    BY <1>1, <1>2, <2>1, <2>3 DEF OutOK
<1>8. QED
  BY <1>1, <1>5, <1>6, <1>7, IdleRun DEF ServerInv

-----------------------------------------------------------------------------
(* The theorems.                                                           *)

LEMMA ServerInit == Init => ServerInv
<1> SUFFICES ASSUME Init PROVE ServerInv
  OBVIOUS
<1>1. /\ hard_limit_enabled \in BOOLEAN /\ requests = {} /\ results = {} /\ run = Idle
      /\ expired = {} /\ store = [p \in Particles |-> EmptyData]
      /\ sent = [p \in Particles |-> {EmptyData}]
  BY DEF Init
<1>2. EmptyData \in DataSet /\ Sound(EmptyData) /\ Extends(EmptyData, EmptyData)
  BY EmptyDataOK, ExtendsReflexive
<1>3. TypeInv
  BY <1>1, <1>2 DEF TypeInv
<1>4. StoreOK /\ SentOK
  BY <1>1, <1>2 DEF StoreOK, SentOK
<1>5. Held = {}
  BY <1>1 DEF Held, Idle
<1>6. OutOK
  BY <1>1, <1>5 DEF OutOK
<1>7. RunOK /\ LimitsAreKept
  BY <1>1 DEF RunOK, LimitsAreKept, Idle
<1>8. QED
  BY <1>3, <1>4, <1>6, <1>7 DEF ServerInv

LEMMA ServerStep == ServerInv /\ [Next]_vars => ServerInv'
<1> SUFFICES ASSUME ServerInv, [Next]_vars PROVE ServerInv'
  OBVIOUS
<1>1. CASE AnyCall
  BY <1>1, CallKeeps DEF AnyCall
<1>2. CASE ReadData
  BY <1>2, ReadDataKeeps
<1>3. CASE Invoke
  BY <1>3, InvokeKeeps
<1>4. CASE Trap
  BY <1>4, GiveUpKeeps DEF Trap
<1>5. CASE Examine
  BY <1>5, ExamineKeeps
<1>6. CASE StoreData
  BY <1>6, StoreDataKeeps
<1>7. CASE ReturnOutcome
  BY <1>7, ReturnOutcomeKeeps
<1>8. CASE HostError
  BY <1>8, GiveUpKeeps DEF HostError
<1>9. CASE Answer
  BY <1>9, AnswerKeeps
<1>10. CASE Crash
  BY <1>10, CrashKeeps
<1>11. CASE AnyCleanup
  BY <1>11, CleanupKeeps DEF AnyCleanup
<1>12. CASE UNCHANGED vars
  <2>1. Held' = Held
    BY <1>12 DEF vars, Held
  <2>2. StoreOK' /\ SentOK' /\ OutOK'
    BY <1>12, <2>1, OutStays DEF vars
  <2>3. TypeInv' /\ RunOK' /\ LimitsAreKept'
    BY <1>12 DEF vars, ServerInv, TypeInv, RunOK, LimitsAreKept
  <2>4. QED
    BY <2>2, <2>3 DEF ServerInv
<1>13. QED
  BY <1>1, <1>2, <1>3, <1>4, <1>5, <1>6, <1>7, <1>8, <1>9, <1>10, <1>11, <1>12 DEF Next

\* Whatever fails and whenever the process dies: every call that is out is out
\* once and in the store, and the store is ahead of all that left the peer.
THEOREM ServerInvariant == Spec => []ServerInv
<1>1. QED
  BY ServerInit, ServerStep, PTL DEF Spec

\* Requests and results are in the store under their ids, which are all
\* different: a result reaches the call it was made for.
THEOREM HostInStepWithStore == Spec => []RequestsAreStored
<1>1. ServerInv => RequestsAreStored
  <2> SUFFICES ASSUME ServerInv PROVE RequestsAreStored
    OBVIOUS
  <2> DEFINE Request(s) == [particle |-> s.particle, id |-> s.id, call |-> s.call]
  <2>1. \A q \in requests \cup results :
          /\ q.call \in DOMAIN store[q.particle].requested
          /\ store[q.particle].requested[q.call] = q.id
    BY DEF ServerInv, OutOK, Held, Known
  <2>2. \A q \in requests \cup {Request(s) : s \in results} :
          /\ q.call \in DOMAIN store[q.particle].requested
          /\ store[q.particle].requested[q.call] = q.id
    BY <2>1
  <2>3. \A p \in Particles, c, d \in Calls :
          c # d /\ {c, d} \subseteq DOMAIN store[p].requested
            => store[p].requested[c] # store[p].requested[d]
    BY DEF ServerInv, StoreOK, Sound
  <2>4. QED
    BY <2>2, <2>3 DEF RequestsAreStored
<1>2. QED
  BY <1>1, ServerInvariant, PTL

\* Oversized input is refused under hard limits and reported under soft ones,
\* however the run ends.
THEOREM LimitsHold == Spec => []LimitsAreKept
<1>1. ServerInv => LimitsAreKept
  BY DEF ServerInv
<1>2. QED
  BY <1>1, ServerInvariant, PTL

\* A step takes nothing back of what the store has of a particle that lives.
NothingLost ==
  \A p \in Particles \ expired' :
    /\ store[p].executed \subseteq store'[p].executed
    /\ \A c \in DOMAIN store[p].requested :
         \/ c \in store'[p].executed
         \/ c \in DOMAIN store'[p].requested /\ store'[p].requested[c] = store[p].requested[c]
    /\ store[p].last <= store'[p].last

LEMMA StepLosesNothing ==
  ASSUME ServerInv, [Next]_vars
  PROVE  NothingLost
<1>1. SUFFICES ASSUME NEW p \in Particles \ expired' PROVE Extends(store[p], store'[p])
  BY DEF NothingLost, Extends
<1>2. store[p] \in DataSet
  BY DEF ServerInv, TypeInv
<1>3. CASE store'[p] = store[p]
  BY <1>2, <1>3, ExtendsReflexive
<1>4. CASE StoreData
  <2>1. /\ run \in RunSet /\ run # Idle /\ run.phase = "store"
        /\ store' = [store EXCEPT ![run.particle] = run.outcome.data]
    BY <1>4, RunInProgress DEF ServerInv, StoreData
  <2>2. run.prev = store[run.particle] /\ Extends(run.prev, run.outcome.data)
    BY <2>1 DEF ServerInv, RunOK, OutcomeOK
  <2>3. store'[p] = IF p = run.particle THEN run.outcome.data ELSE store[p]
    BY <2>1 DEF ServerInv, TypeInv
  <2>4. QED
    BY <1>3, <2>2, <2>3
<1>5. CASE AnyCleanup
  <2>1. PICK x \in Particles : Cleanup(x)
    BY <1>5 DEF AnyCleanup
  <2>2. store' = [store EXCEPT ![x] = EmptyData] /\ p # x
    BY <2>1 DEF Cleanup
  <2>3. store'[p] = store[p]
    BY <2>2 DEF ServerInv, TypeInv
  <2>4. QED
    BY <1>3, <2>3
<1>6. CASE ~StoreData /\ ~AnyCleanup
  <2>1. store' = store
    BY <1>6 DEF Next, vars, AnyCall, Call, ReadData, Invoke, Trap, GiveUp, Examine, ReturnOutcome,
                HostError, Answer, Crash
  <2>2. QED
    BY <1>3, <2>1
<1>7. QED
  BY <1>4, <1>5, <1>6

\* The data store never goes back while a particle lives: not by a run that is
\* refused, fails, ends in an outcome without data, or dies half way.
THEOREM StoreNeverGoesBack == Spec => NothingStoredIsLost
<1>1. ServerInv /\ [Next]_vars => NothingLost
  BY StepLosesNothing
<1>2. QED
  BY <1>1, ServerInvariant, PTL DEF Spec, NothingStoredIsLost, NothingLost
=============================================================================
