# AquaVM in TLA+

AquaVM executes AIR scripts on a network of peers. A script travels with its
data as a *particle*; every peer it visits runs the interpreter, a function of
the data the peer stored before (`prev_data`), the data that arrived
(`current_data`) and the results of service calls (`call_results`), which
answers new data, the peers to send the particle to, and new call requests. No
peer coordinates the others. What keeps them together is the execution trace
in the data: one state for every call, ap, canon, par and fold that was
executed, in the order of the script, signed by the peers that produced the
results.

This directory models that system: how the text of a script becomes a tree, how
two traces are merged while it is executed, what each instruction writes, how
results are signed and verified, what a host's `AVM::call` does around it when
one of its steps fails, and what a network of such peers does with one
particle when particles get lost, come twice or out of order, services fail,
and hosts crash.

## 1. Inventory

| Component | State it keeps | Operations | Interacts with |
|---|---|---|---|
| Trace handler (`crates/air-lib/trace-handler`) | two sliders (position, subtrace length, seen elements) over the input traces, the result trace, the position mappings, a stack of par automata and a queue of fold automata | `meet_call_start/end`, `meet_ap_*`, `meet_canon_*`, `meet_par_*`, `meet_fold_*`, `update_generation` | called by every instruction that has a state in the trace; an error of it ends the run |
| Mergers (`trace-handler/src/merger`) | none | one per kind of state: which of two states wins, when two states contradict each other | the trace handler |
| Instructions (`air/src/execution_step/instructions`) | none of their own, they change the execution context | `execute` of call, ap, canon, seq, par, xor, match, mismatch, fail, fold, next, new, null, never | trace handler, execution context, CID stores |
| Execution context (`execution_context`) | scalars, streams, stream maps, canon values, `:error:`, `%last_error%`, subgraph completeness, `next_peer_pks`, call requests and results, `last_call_request_id`, the CIDs this peer will sign | setters and getters, `set_errors`, scopes of `new` and `fold` | instructions; read by the farewell step |
| Streams (`value_types/stream`) | three matrices of values by generation (previous, current, new) | `add_value`, `new_values`, `compactify`, `slice_iter`, the recursive stream cursor | ap, call, fold; writes generations back into the trace |
| Scalars (`scalar_variables`, `values_sparse_matrix`) | cells of (depth, value) per name | `set_scalar_value`, `meet_fold_*`, `meet_next_*`, `meet_new_*` | all instructions |
| Data and signatures (`interpreter-data`, `interpreter-signatures`) | trace, CID stores, signature store, `last_call_request_id` | `DataVerifier::new/verify/merge`, `verify_cid_stores`, the CID tracker, signing | preparation, verification, farewell |
| Runner (`air/src/runner.rs`, `preparation_step`, `verification_step`, `farewell_step`) | none between runs | parse, limit checks, verify, execute, sign, outcome | host |
| AVM (`avm/server`, `avm/interface`, `crates/data-store`) | the data store: one `prev_data` per particle | `call`, `cleanup_data`, anomaly collection | interpreter, host |
| AIR lexer (`air-parser/src/parser/lexer`) | the place in the text; inside of a word the guesses of the variable parser | `next_token`, `try_parse_call_variable` | parser, lambda parser |
| AIR parser (`air-parser/src/parser/air.rs`, generated by LALRPOP) | the stack of states, the stack of symbols, the errors recovered from | shift, reduce, error recovery | calls the validator from its reductions |
| Validator (`validator.rs`) | names with their spans, the stack of the after-next machine | `met_*` per instruction, `finalize` | parser |
| Lambda parser (`crates/air-lib/lambda`) | none between calls | `parse` of a path behind a variable | AIR lexer |
| Hosts, services, network (not in this repository) | requests being served, results, particles under way | answer, call back, send, receive, crash | AVM |

What is hard about it:

* **Order.** Results and particles may come in any order, several at once, again, or
  never. The traces are merged by *position*: the n-th call of a script must be
  the n-th call on every peer and in every run, although the runs know
  different results and therefore take different branches.
* **Early ends.** A subgraph of a par ends early when something in it fails or
  waits. The sliders must then be moved past what was not read.
* **Failure.** A failed call is data as well: it is signed, travels, and every peer
  that replays it must come to the same handler with the same error object.
* **Crashes.** Only the stored data survives. A request under way is lost, and must
  not be asked a second time after the data says it was made.
* **Waiting.** A call waits for the results it uses. Some peer must bring them.
* **Numbers.** Positions and lengths are `u32`s that come from other peers.
* **Growth.** A stream grows while it is folded over, in another order on every peer;
  a canon freezes it at one moment on one peer for everybody.
* **Inside out.** The validator is called bottom-up: a use before its definition, a
  `next` before its fold, and after an error recovery has cut the stacks.
* **Half done.** A run of the interpreter is read, execute, examine, store, return; each of
  them can fail, and requests must not be ahead of the stored data.

## 2. Modules

```
TraceSlider - Merger - ParFSM -+- TraceHandler ------- TraceHandler_proofs - TraceReading_proofs
                               |       -------------- MCTraceHandler
                               +- FoldFSM - ExecutionContext - CallInstruction - Interpreter -+- ParticleScripts - MCParticleNetwork
                               |               |    |                                         |
                               |  Stream ------+    +--- Runner - ParticleNetwork ------------+
                               |                         |            |     +- ParticleNetwork_proofs
                               +- DataVerifier ----------+      (implements)        |
                                                                 CallResults - CallResults_proofs
Stream - StreamRuns -+- MCStreamRuns        ScalarScopes -+- MCScalarScopes
                     +- StreamRuns_proofs                 +- ScalarScopes_proofs
LRMachine -+- AirGrammar - AIRParser - MCAIRParser
           |      VariableValidator
           +- LambdaParser -+- AirWords - MCAirLexer
AirText ---+                |
           +- AirLexer -----+- AirLexer_proofs
AvmServer -+- MCAvmServer
           +- AvmServer_proofs
```

* `TraceSlider`: the window over an input trace (`data_keeper/trace_slider.rs`). A
  slider is a record; each method is an operator from slider to slider, with
  an operator `Can...` for its error conditions.
* `Merger`: the trace states and the mergers. A CID stands for the value it
  identifies.
* `ParFSM`: the data keeper, the position mapping, and the automaton of par with
  its builder and state inserter. `MaxPos` is `u32::MAX`.
* `TraceHandler`: the handler as a state machine. `keeper` is `data_keeper`, `pars`
  is `fsm_keeper.par_stack`. There is one action per instruction of the
  protocol (`MeetCall`, `MeetAp`, `MeetCanon`, `MeetParStart`, `MeetParLeftEnd`,
  `MeetParRightEnd`). Any script is possible: the next action is any that the
  protocol allows, and the state that an instruction writes is any that the
  instruction's code can write after what it met (`CallEnds`, `CanonEnds`). An ap to a
  map and a canon may also stop behind a state they have met, when their key or peer
  does not resolve; `stopped` is a history of where that happened.
* `FoldFSM`: the automaton of a fold over a stream: how two fold states are merged, how
  the lengths in their lore become the windows of nested iterations, how an
  iteration finds the states that the same value had in either trace, and how
  the lore of the result is built, back traversal and generations included.
* `ExecutionContext`: the context record and what reads and writes it: variables with
  their scopes, streams and maps by name, error descriptors, requests, the CID
  tracker.
* `CallInstruction`: the call, the state it meets, the result of a service, its output.
* `Interpreter`: executes a *given* script over these. Every instruction maps an
  execution context to the one the code leaves, with the `Result` in the field
  `res`: seq, par, xor, match, mismatch, fail, ap to scalars, streams and maps,
  canons of three kinds, folds over scalars, canons, streams and maps, next, new. Whether
  a subgraph of a par is complete follows `determine_subgraph_complete`.
* `DataVerifier`: the signed CID multisets, their verification and their merge. A
  signature is the multiset it was made of; cryptography is perfect.
* `Runner`: `Invoke`, one call of the interpreter: verify, execute, sign, outcome. What
  executes the script is a parameter (`execute`), so that the runner and the network can
  be reasoned about without the recursion over scripts; what they need of it is said by
  `KeepsOthers`, `KeepsOwn` and `NumbersRequests`.
* `ParticleNetwork`: peers with an AVM each. `CallAVM` is the whole of `AVM::call`
  (read the store, run, save the new data) and what its host keeps of the
  outcome. `Serve`, `Send`, `Receive`, `Resume` and `Crash` are the host and the
  network, which are not in the repository and are modelled from what
  `air/README.md` asks of a host. Which call of the script a request or result belongs
  to is a parameter (`CallId`).
* `ParticleScripts`: both parameters filled in: `execute` is the `Interpreter`'s, and a call is
  a function of the script, with its arguments where a fold calls it several times.
* `CallResults`: what the network promises: call results are a write-once store.
* `Stream`: a stream as three matrices of values by generation, and the cursor of a
  recursive fold, operator by operator. `StreamRuns` runs a script of writes and
  folds over one stream again and again on one peer: a write finds its value in
  the stored data, in the current data, makes it, or waits for it; each round of
  a fold is `FoldStart` or `IterationEnd`, which hand it generations, and one
  `Iteration` per value (`Rest` is what is left of them); `EndRun` compactifies and
  stores. A value is named by the write it comes from (`NamesAssumption`).
* `LRMachine`: from a set of productions the LR(1) automaton with its reductions by
  lookahead; the generated tables are not copied but derived.
* `VariableValidator`: the validator, method by method, with the after-next machine.
* `AirGrammar`: the productions that the `__reduceN` functions of `air.rs` pop and push,
  and the `__actionN` functions that build the tree and call the validator.
* `AIRParser`: `parse` as a state machine over tokens: `Shift`, `Reduce`, `Accept`, the steps
  of LALRPOP's error recovery (`BeginRecovery`, `ReduceOnError`, `StartSearching`,
  `DropToken`, `Recover`, `Fail`) and `Finish`, which joins the errors.
* `LambdaParser`: the lexer, the generated parser and `parse` of lambdas, as operators on a
  text; a reduction pops symbols of the kinds of its right-hand side, as the
  `__pop_VariantN` functions do, or panics. `AirLexer`: `next_token` as a state machine with one action per kind of token
  (`Bracket`, `SkipWhitespace`, `SkipComment`, `StringLiteral`, `Word`), and one step per
  character in the variable parser (`VariableChar`, `VariableEnd`); the lambda parser is
  its parameter. `AirText`: the characters and numbers that both share. `AirWords`: the
  two together, and what a word as a whole means.
* `AvmServer`: `AVM::call` of one peer, one action per step (`Call`, `ReadData`, `Invoke`,
  `Examine`, `StoreData`, `ReturnOutcome`), the ways it ends early (`HostError`, `Trap`),
  `Cleanup`, and the host around it (`Answer`, `Crash`). `Outcomes` is
  `execute_air_impl` with every error of preparation, execution, signing and
  compactification in its order and the limits; of the script it keeps which calls
  of the peer are executed or requested. `Runner` has the other half, what an
  execution computes.
* `ScalarScopes`: the rows of cells (depth, value), the readable depths and the
  iterators, under any nesting of fold, next and new. `frames` is the stack of
  the instructions that are executed; a frame keeps a copy of the state at its
  start, for the properties only.

A script of the model is a tree of records; values are labels, and the error
objects carry the error, the instruction and the peer that the code puts into
them, because handlers pass them to calls and the data of two peers must agree
on the arguments. Values that are not in `Peers` stand for JSON values that are
no peer id.

## 3. Runs

| Run | Checks | Instance |
|---|---|---|
| `handler_nested` | `ParsWellNested`, `ParEndRestoresSliders`, `SlidersNeverGoBack` | every pair of well nested traces of up to three states, pars two deep, result traces of up to four states |
| `handler_any` | `TypeOK`, `SlidersInBounds`, `MappingPointsBack` | every pair of traces of up to two states of every kind, with any par sizes up to two, `MaxPos = 3` so that the overflow checks fire |
| `network_calls` | `TypeOK`, `ExecutionsKeep`, `PrevDataCorrect`, `HonestDataAccepted`, `RequestedOnce`, `RedeliveryIsAbsorbed`, `SignedCidsGrow`, `ImplementsCallResults` | three peers, one crash, services that answer a value or an error; scripts with two of seq and par over three calls, a script that visits a peer twice, scripts with xor, match, mismatch, fail, ap, null and never, and handlers that take `:error:` or `%last_error%` as an argument |
| `network_live` | `EveryCallAnswered` under fairness | scripts that bring results to where they are used, with hosts that send whenever they like; and joins of two calls of one peer, with hosts that send only when they have completed their requests |
| `network_error_in_par` | `HonestDataAccepted` is violated | an error handler beside another branch |
| `network_streams` | `ExecutionsKeep`, `HonestDataAccepted`, `RedeliveryIsAbsorbed`, `FoldsWellFormed` | the same peers and faults; folds over streams of two values that two peers produce in either order, with a call before, after or beside `next`; a fold over a map whose values under one key come from two peers; canons of a stream that still grows, and of a map, used on other peers; a fold that adds to its own stream, a stream under new; a fold in a fold; iterations that fail before, in and after `next`; a fold over a canon with a par around `next` at its end and a hop behind it; a canon whose peer is no peer id, alone in a branch; folds behind or beside a branch that has failed |
| `streams` | `StoredGenerationsDense`, `StoredDataReplays`, `LocalOrderKept`, `AppendOnly`, `FoldVisitsAll` | four writes around a fold that writes nothing, three runs, current data with any of the values in any dense generations, a size limit of four; and the first run of a fold that writes two values, one for the other |
| `streams_rerun` | `AppendOnly` is violated | three runs of a fold that writes one value for another, with a write that waits in front of it |
| `scopes` | `NeverCorrupted`, `AllowedIsInScope`, `ScopeExitRestores` | two variables, two iterators, iterables of three items, four instructions inside each other, a next anywhere in its fold, errors anywhere |
| `air_parser` | `TypeOK`, `NoTypeMismatch`, `AcceptsTheLanguage`, `TreeIsTheScript`, `NoFalseAlarms`, `AcceptedIsNested`, `OneKindPerInstruction`, `Terminates` | 1244 token sequences: all trees of depth three over one variable, one stream and one iterator, a script for every production, and every sequence that one removed, added, replaced or cut-off token makes of three scripts |
| `air_lexer` | `TokensTileTheText`, `WordsAreRead` | all texts of up to four characters over one character of each class (of the lexer, and of the variable parser), all lambdas of up to five characters, longer ones, numbers at the ends of `i64`, `u32` and the safe size of floats, every keyword with and without a continuation |
| `host` | `RequestsAreStored`, `LimitsAreKept`, `NothingStoredIsLost` | one particle, three calls, request ids up to two, sizes below and above the limit, hard or soft limits, two failures |

What they show. The handler runs: merging by position reads no state twice and never
leaves a trace. The network runs: whatever the order, loss or repetition of particles and
results, no peer refuses what another honest peer computed, for scripts with
calls, errors, folds and canons; services are asked once; call results are a
write-once store. `ExecutionsKeep` looks at every run that could be started in a state,
not only at those that are; the proofs about the network rest on it (section 4).
`AcceptsTheLanguage` compares the automaton with derivations that are computed without it (`InLanguage`), `TreeIsTheScript` prints the tree back, and
`NoFalseAlarms` decides scoping on the tree, from outside in, where the validator works on
spans from the inside out. `NoTypeMismatch` asks of every
reduction, those on the error token included, that the symbols it pops are of the kinds it
expects: `__symbol_type_mismatch` would panic. `WordsAreRead` compares the character machine
with a declarative reading of whole words (`TokensOf`), and says that the lambda parser does
not panic. The `host` run: a request that a service
works on is always in the store under its id, oversized input is never silently
accepted, and stored results survive every failure.

**Why the bounds are enough.** A par state needs two subgraphs and a state behind it to
go wrong, so traces of three states and two levels of nesting show every
relation between two pars (before, inside left, inside right, around). Three
calls and three peers are needed for one peer that produces, one that waits and
one that carries; all the placements of three calls on three peers are tried
(the peers that do not start the particle are interchangeable, so only one
representative of each placement is). One crash can hit every peer in every
state. `Receive` may take any particle that was ever sent, any number of
times, in any order, or never, which covers loss, delay, duplication and
reordering without a bound. Two values of a stream have two orders, and two
iterations show every relation between an iteration and the one in its `next`. A
stream has three matrices, and two values per
source are needed for an order between them: four values and three runs let
every value be stored, arrive and be new, and the size limit of four is met. In
the scopes two variables show that one row does not disturb the other, and four
frames hold a new in an iteration of a fold in a fold, or the reverse. Scripts for
the parser use every production, and their corruptions reach every step of the
recovery; the lexers look at a character and one or two before it, so four
characters contain every transition. On a host three calls compete for two ids,
so that ids run out; two failures hit two steps of one run, or two runs.

**Deadlock** is checked for the parser only, which must always have a next step until it
returns. Elsewhere a particle is done when nobody has anything left to do,
a run that failed is over, and the other models stop at their bounds.

**Fairness.** `FairSpec` asks that services answer, that hosts send what the
interpreter told them to send, that sent particles arrive once, and that hosts
call back with results; without any of them AquaVM promises nothing. No
fairness is asked of repeated deliveries or crashes. One condition per kind of
step suffices since every such step can be taken a finite number of times only. The
parser is a function on one thread, so it goes on while it can (`KeepsRunning`).

## 4. Proofs

`TraceHandler_proofs` proves for every set of traces, every script, every bound:

* `TypeCorrect` and `SlidersStayInBounds`, from the inductive invariant `IndInv`. The
  bounds alone are not inductive: the end of a par restores slider states that
  were computed at its start, so `IndInv` also says of every automaton on the
  stack that the slider states it will restore lie inside the traces
  (`FrameFits`), which needs the three checks of `compute_new_state`.
* `ParEndRestores`, the action property `ParEndRestoresSliders`, from the same
  invariant: `set_position_and_len`, whose error `update_ctx_states` drops, never
  fails at the end of a par.
* `ParsNested`, from `NestInv`: a finished par never reaches over the position of an
  open one, nor over the border between its left and right subgraph (`Borders`),
  so writing the final size of the innermost par keeps all of them nested.

The assumptions are those of the modules: the traces are sequences of trace
states, the peer is a peer, bounds and `MaxPos` are naturals.

`CallResults_proofs` proves of the abstract store, for any peers, calls and results:

* `OneResultPerCall`: two stored results of one call are the same. The network
  implements the store (`NetworkImplementsCallResults` below), so this is the "scalars are
  fully consistent" of `docs/AIR.md`.
* `ResultsAreKept`: no peer loses a result.

`TraceReading_proofs` goes on from there, with the same assumptions:

* `SlidersGoForward`, the action property `SlidersNeverGoBack`. The end of a par sets a
  slider to a position that was computed at its start, so the property needs that
  the slider cannot have passed it: `WindowInv` says that the window of a slider ends
  before the position that the innermost par on the stack will set it to, and
  that these positions are in the order of the stack. `prepare_sliders` of the right
  subgraph may answer an error; a lemma on the way (`ParLeftEndStep`) shows that it
  does not.
* `MappingCorrect`: `MappingPointsBack`, from `MappingInv`: no entry of the mapping points
  to the placeholder of an open par, so replacing it disturbs none. The property is about
  `Mapped`, the entries of states that were written: an instruction that stops behind a
  state it has met leaves its entry, and the state that comes to this position later may
  have none of its own.
* `CallMergeIsJoin` and `CanonMergeIsJoin`: what two traces say of a call is ordered, a request
  below every outcome (`CallBelow`), and the merger answers the least state above both or,
  exactly if there is none, an error. So merging is commutative, associative and
  idempotent (`CallMergeOrderIsIrrelevant`), up to who sent a request and the generation of
  a value. This is about states side by side; that the traces of honest peers have the
  states of one call side by side is what the network runs check.

`ScalarScopes_proofs` proves for every nesting of any depth, with errors anywhere, for any
names and iterators:

* `NewNeverCorrupts` (`NeverCorrupted`), `AllowedDepths` (`AllowedIsInScope`) and
  `ScopesRestore` (`ScopeExitRestores`), from `ScopesInv`. Nothing about the last
  cell of a row is inductive by itself. What is: inside an instruction a row is the row at
  its start, or that row with the cell of the inner depth set (`Grown`), and the row of a new's
  variable has one more cell (`Covered`). This holds of neighbours on the stack, so
  when the inner one ends, what it leaves is what the outer one expects.

`AvmServer_proofs` proves for any finite set of calls, any particles, sizes, limits,
failures and crashes:

* `HostInStepWithStore` (`RequestsAreStored`), `LimitsHold` (`LimitsAreKept`) and
  `StoreNeverGoesBack` (`NothingStoredIsLost`), from `ServerInv`. Its heart: the previous
  data of a run is what the store has, and whatever `Outcomes` answers extends it
  (`Extends`), so writing the outcome at any later step loses nothing; requests and
  results are out once, those of a run in progress counted (`Held`).
  `CallsAssumption` (finitely many calls, numbered) is needed because ids are given in
  the order of the calls, and a finite set has a first member.

`StreamRuns_proofs` proves for all scripts, any number of runs and current data with values in
any generations, dense or not:

* `StoredDense`, `DataReplays`, the action property `OrderKept` (`LocalOrderKept`), and
  `FoldNeverRepeats`, from `RunsInv`. A value gets the generation it is found in, so all
  of them need that it is in one place only: `PlaceInv` says in which matrix and
  generation a value is, `OnceInv` that it is there once, because it was not written
  before. That a fold does not write for one value twice needs in turn that it is
  not run with a value twice, which is `FoldInv`: what it has been handed lies behind its
  cursor, and the next slices lie in front of it. `LocalOrderKept` follows since the
  new generation of a stored value is the rank of the old one among those kept
  (`StoredRank`).
* `FreshFoldsVisitAll` (`FoldVisitsAll`), from `VisitInv`. Everything behind the cursor of
  a fold was or will be handed to it; what is not behind the cursor are new values, all
  in the last generation. `slice_iter` skips the non-empty generations, as many as the
  cursor counts, so the proof needs that those generations are indeed filled. That is
  the condition `FoldsFresh` of the theorem: the fold only reads the stream, or it is the
  first fold of its run and writes values that neither data has. Without it the code
  does lose values (section 5).
* `WritesAreKept`: what the writes of a script have stored stays stored, of all scripts; and
  `StreamsAppendOnly` (`AppendOnly`): if its folds only read the stream (`FoldsOnlyRead`),
  nothing that was stored is lost. `RewrittenInv` says that what the run is past has
  been written again, into a matrix that `compactify` keeps.
* The assumptions on a script are its shape (`ScriptAssumption`) and that no two writes
  have one name (`NamesAssumption`), which is what a name means here.

`AirLexer_proofs` proves for every text, of any length and over any characters, and whatever
the lambda parser answers:

* `TokensTile` (`TokensTileTheText`), from `LexerInv`. A word is cut out at its start, and its
  token is returned after many steps of the variable parser, with an end computed from
  the text that the parser holds. So `WordInv` says that this text stays the whole word
  at the lexer's place through all the guesses of the parser, and that what is
  between the last token and that place is blank. The assumption is that texts are
  sequences of strings (`InputsAssumption`).

`ParticleNetwork_proofs` proves, for any peers, scripts, services, number of crashes, and any
order, loss and repetition of particles and results, theorems of the form `Spec /\
[]ExecutionsKeep => ...`. The argument is assume-guarantee. `ExecutionsKeep` is about one
execution on one peer, with the data it stored and data it was sent: the new trace has, of
what any other peer has produced, what the fuller one of both traces has; of its own results
it has all that were stored, no second one for a call, and the tracked CIDs are those of the
trace; request ids go on from the stored one. It says nothing of other peers at work, nor of
signatures. It is what `Interpreter` has to do, by recursion over the script, and is checked
by TLC in all states of `network_calls` and `network_streams`. Everything that comes of it on
a network is proved:

* `TypeCorrect` (`TypeOK`) and `RequestIdsAreUnique` (`IdsGivenOnce`, the first half of
  `RequestedOnce`), from `IdsInv`.
* `PrevDataNeedsNoCheck` (`PrevDataCorrect`), `HonestSignaturesPass` and the action property
  `SignedCidsOnlyGrow` (`SignedCidsGrow`), from `SignedInv`. That a store is correctly signed is not
  inductive: `merge` takes the longer of two multisets by its *length*, and refuses those of
  which neither is within the other. So the invariant is about all data on all peers and
  on the way: what they hold of one producer are snapshots of one growing chain, of which
  the producer's own store has the last. `verify` then never refuses, and the longer multiset
  is the larger.
* `MergeIsSymmetric`: what `verify` and `merge` answer does not depend on which data is the
  previous one. `verification.rs` compares lengths only; that two multisets of one length are
  equal when one is within the other is proved here from an injection between positions
  of traces.
* `NetworkImplementsCallResults` (`ImplementsCallResults`): each step of the network is a
  step of the write-once store or leaves it alone. What is new in a store either was known to its
  producer, by the chain, or is an answer of the peer itself to a call that had none.
* `PeersAgree`: with the theorem `OneResultPerCall` about the store, instantiated: no two peers
  have stored different results of one call.
* `ReceivedStays` (`ReceivedIsKept`), also under `[]HonestDataAccepted`: the results and
  signatures of a particle are in the store of whoever received it, for good, and add
  nothing when it comes again. This is the part of `RedeliveryIsAbsorbed` that is about
  results and signatures.

**Only model-checked.** `AppendOnly` of scripts with folds that write, and `FoldVisitsAll` of
folds that write what the data have already: neither holds of all scripts (a fold that is
run again, `streams_rerun`), and TLC shows for which they do. `ExecutionsKeep` itself, that calls
are asked for once (the other half of `RequestedOnce`), that no run ends in an uncatchable
error other than for signatures (`HonestDataAccepted`), that a redelivered particle leaves
the trace as it is (`RedeliveryIsAbsorbed`) and `FoldsWellFormed`: `Interpreter` is a
recursive operator, and induction over scripts is out of the prover's reach. The parsers
and `WordsAreRead`: their automata are computed by recursive operators, and what a lambda
spells is one. Liveness: the prover has neither fairness nor `ENABLED`.

## 5. Findings

`network_error_in_par` is a run that TLC refutes, and the counterexample is a behaviour of
the code: an error of the left branch of a par is still set when the right branch
handles its own, so what a handler sees depends on the order of the results, and
honest data is refused.

`streams_rerun` is refuted as well. The cursor of a recursive fold counts generations, empty
ones included (`stream_definition.rs:68`), but `slice_iter` leaves the empty ones out before
it skips that many (`values_matrix.rs:57`). A peer writes `a`, waits for `d`, and folds over
the stream with a body that writes `b` for `a` and `c` for `b`. Once `d` has come, in a later
generation than `b`, the next run starts the fold with an empty place where its body will put
`b` again; `b` is skipped as if it had been visited, and `c` is missing in the stored data,
where `stream_definition.rs:30` says that streams are append only.

Met while modelling, without a run of their own. The runs leave these cases out, as
their instances say:

* Whether a particle completes depends on when its host sends it. A join of two calls of
  one peer is recorded as sent when the first result is there and is never sent
  again with the second (`prev_result_handler.rs:113`; `air/README.md:71` lets a host
  send after each call of the interpreter). `network_live` has such joins with hosts that wait.
* The failed state for a service result that is no JSON is not signed
  (`prev_result_handler.rs:232`), and the next peer refuses the data; the services of the
  runs answer JSON.
* A canon, and an ap to a map, meet their state before they resolve their peer or key
  (`canon.rs:43`, `canon_map.rs:44`, `ap_map.rs:49`). If that fails and a xor catches the
  error, the state that the right branch writes lies where the next run's canon looks for
  its own, and the peer refuses its own data with a trace error. A run of
  `HonestDataAccepted` over a xor of a canon without a peer and a call shows it;
  `network_streams` has such a canon in a branch that writes nothing else.
* An iteration that fails does not move the iterator back (`next.rs:67`), so the handler
  around it sees the item of the failed iteration; `docs/AIR.md:109` says that each
  iteration has its element assigned to the iterator.
* In a fold over a stream, a `par` around `next` with a further call in the branch of
  `next`, and a call after the par, make the second of these calls read the state of
  the first in a later run: `meet_back_iterator` (`fold_fsm.rs:97`) is told of the return
  from `next`, not of the end of the par. The bodies of `network_streams` have one
  call on either side of `next`.
* `MultiMap::iter` yields the first value of each key, so `finalize` looks at the first use
  of a name only (`validator.rs:700`); a script whose first use is legal is accepted
  with undefined ones behind it, where `:250` says that any undefined variable is
  caught.
* The after-next check keeps spans of folds over scalars (`validator.rs:196`) and reports a
  later fold over a stream whose iterator has the same name.
* A `%` at the second place of any word makes it a canon of a map
  (`call_variable_parser.rs:430`): `a%b`, `$%x`; a name of one letter behind a tag cannot have
  a lambda (`#c.$.[0]` is refused with `EmptyCanonName`, `:253`); `+a` is a scalar.
  `TokensOf` says so, too.
* `tokenize_until` of the lambda lexer ends a name one byte behind the start of its last
  character (`lambda_ast_lexer.rs:123`), inside of a character of several bytes. The texts
  of `air_lexer` are ASCII.
* Under hard limits a refusal for the size of the script or the data reports no
  flag, one for the size of a result does (`runner.rs:70`, `preparation.rs:167`);
  `LimitsAreKept` asks for flags under soft limits only. `AVM::new` always takes the
  default limits, which are soft; hard ones are for users of `AVMRunner`.
* An outcome without data (`outcome.rs:189`) would erase the stored data. It does not only
  because its empty request bytes fail to decode before `store_data`
  (`raw_outcome.rs:51`).
* A request id that overflows traps (`overflow-checks` of the release profile) instead of
  wrapping; the particle cannot make requests on that peer any more, nothing else is
  lost.
* At the end of the left subgraph of a par, `update_ctx_states` drops an error of
  `set_position_and_len`, whose comment says that there is none. There is: the
  window after the left subgraph is given the size of the left one
  (`new_states_calculation.rs:49`), which the rest of the trace may not have. It
  matters only if a left subgraph ends before its states are read, which honest
  data does not bring about. At the end of the right subgraph there is none
  (`ParEndRestores`).
* The error of a call or canon whose peer id is no string names the peer that executes the
  script (`context.rs:185`), so a handler that takes this error as an argument has
  other arguments on every peer. The runs have such calls and
  canons, with handlers that do not take the error.
* A next of an outer fold inside an inner fold leaves the variables of the previous
  iteration readable, since only the current depth is removed from
  `allowed_depths`; `AllowedIsInScope` leaves it out.
* A new adds a cell of the same depth to a row; the comment at
  `scalar_variables.rs:87` says that depths in a row are unique.
* The end of a recursive fold leaves an empty generation behind
  (`recursive_stream.rs:79`), which the cursor of a second fold over the stream
  counts; that fold misses the values its own body writes.

## 6. Not modelled, and why

* `fail` with a scalar or a canon, and the application of lambdas to values
  (`lambda_applier`): values have no inner structure here.
* CID stores and their verification: a CID is the value it identifies, so a hash that
  does not match its value cannot be stated.
* Which bytes decode: serialization is a choice between decoding and failing in
  `AvmServer`. The wasm backend is a call that answers or traps.
* The measures that anomaly detection is given, and `call_tracing`, which is `call` with
  other logging.
* The tables of the generated parsers as numbers: they are derived from the productions;
  `AcceptsTheLanguage` is about the derived automaton. About half of the source
  lines that the definitions stand for are in these generated files (`air.rs`,
  `va_lambda.rs`).
* An output whose name is the iterator of a fold (`IterableShadowing`) is in `CallInstruction`
  but in no script: such a script ends in this error on every peer.
* Beautifier, testing framework and command line tools: not part of what runs on
  peers.

## 7. What is left

* A proof of `ExecutionsKeep` for every script. It needs an induction over scripts, one case
  per instruction, from the theorems about the trace handler (`SlidersGoForward`, `MappingCorrect`,
  `CallMergeIsJoin`) and about streams; the provers in use cannot do the induction.
* The application of lambdas to values, and CID stores with hashes that do not match, which
  need values with an inner structure.
