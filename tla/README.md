# A TLA+ verification project for SyntaxNet and DRAGNN

This directory models the parts of SyntaxNet and DRAGNN whose correctness
depends on sequences of calls, on shared state or on concurrency. TLC checks the
models on small instances and TLAPS proves about half of the properties for every
value of the constants. `PROJECT.json` holds the same information in machine
readable form: components, runs, mutants, the map from definitions to source
lines, findings, hazards and theorems.

## The system

DRAGNN executes a *master spec*, a pipeline of components, as a TensorFlow graph
whose ops work on a `ComputeSession`:

* `GetSession` finds or creates the `ComputeSessionPool` of a container, takes a
  session out of it and registers it in TensorFlow's `ResourceMgr`; the handle
  `<container, id>` flows through the graph; `ReleaseSession` takes it out of the
  `ResourceMgr` and returns it to the pool. Many runs share a pool.
* The ops in between go through `ComputeSessionOp` to `ComputeSessionImpl`, which
  owns the input batch and the components. Each component is initialised from the
  final states of its predecessor, advanced from the oracle or from scores until
  it is terminal, and then annotates the sentences.
* `SyntaxNetComponent` keeps one `Beam` of transition states per sentence;
  `StatelessComponent` only passes on the states of its predecessor.
* A transition state wraps a `ParserState`, moved by a transition system such as
  arc-standard. Beside it are the step maps that linked features look up.
* `IndexTranslator` follows linked features back through the beams' histories.

The older SyntaxNet code has its own beam search inside TensorFlow ops
(`beam_reader_ops.cc`), fed by `SentenceBatch`. Its trainer first sends the corpus
through filters (`document_filters.cc`). Vocabularies are shared through
`SharedStore`. `dragnn/mst` finds maximum spanning trees. The rest is feature
extraction, text formats, vocabularies and numerical Python.

## Modules

| module | models | state and actions |
|---|---|---|
| `SessionPool` | `compute_session_pool.cc`, the session ops | Per run a program counter through the chain of ops; `sessions_`, `num_unique_sessions_`, the `ResourceMgr` entries, each session's input and tracing flag. One action per critical section or `ResourceMgr` call, so that all interleavings are explored; `RunFails` is an op error, after which TensorFlow never runs `ReleaseSession`. |
| `SessionAllocator` | what the pool promises | `Reuse`, `Create`, `Return`, `Lose` as atomic steps. |
| `PoolCreation` | `GetSession::Compute` up to the pool, `SetAssetDirectory` | The mutex and master spec of each kernel, the pool of each container, TensorFlow's `LookupOrCreate` loop step by step, from the vendored `resource_mgr.h`. |
| `Beam` | `beam.h` | `beam_`, `beam_index_history_`, `num_steps_`, gold flags; `InitBeam`, the two prediction paths, the oracle, `Reset`, `SetMaxSize`. States are the action paths that lead to them. |
| `ArcStandard` | `arc_standard_transitions.cc`, `parser_state.*`, the step maps of `SyntaxNetTransitionState` | A parser state and its maps; one step from the oracle or from a prediction. A failed `CHECK` sets `aborted`. |
| `ComputeSession` | `compute_session_impl.cc`, `syntaxnet_component.cc`, `stateless_component.cc` | The session, its components and their batches of beams, used by one graph run after another; one action per op. A failed `CHECK` or out-of-range access sets `fatal`. |
| `TransitionSystems` | the nine other transition systems, `parser_state.cc`, `binary_segment_state.cc`, `segmenter_utils.cc` | One `ParserState` and the transition state of the system that is configured; a step from the oracle or a prediction, dispatched like the virtual methods; `AddParseToDocument`. A text is a sequence of characters with a length in bytes and the break that they cause. |
| `DocumentFilters`, `DependencyTrees` | `document_filters.cc`, as `parser_trainer.py` runs it | The stage of the batch, the documents before and after it, the marks of the cycle search (one action per step of a walk), one lift at a time. `DependencyTrees` has the plain definitions of trees and projectivity. |
| `BeamReader` | `beam_reader_ops.cc`, `sentence_batch.cc` | `options_`, the beams with slots, gold path and life (ALIVE, DYING, DEAD), `step_offsets_` and `beam_offsets_`, the sentence batch and the epoch; one action per op of the training and the evaluation graph. |
| `MstSolver`, `DisjointSetForest` | `mst_solver.h`, `disjoint_set_forest.h`, `mst_op_kernels.cc` | Arcs by target, the three forests, the arcs chosen; one action per contraction and per expanded node. Scores are integers and "no arc". |
| `SharedStore` | `shared_store.h`, `shared_store.cc` | The map with its counts, the lock, the heap and per client where it is in its call; taking the lock, looking up, constructing and storing are separate actions. `Clear` may come at any time and leaves what clients have dangling; they are then *stale* (see the contract below). |
| `SessionPoolProofs`, `PoolCreationProofs`, `BeamProofs`, `ArcStandardProofs`, `ComputeSessionProofs`, `SharedStoreProofs` | | theorems about the modules in their names |
| `DataLemmas` | | induction over numbers and loops, insertion into sequences: what the proofs have in common |
| `TreeLemmas` | | facts about dependency trees and about stacks of tokens, for `ArcStandardProofs` |
| `MC*` | | the instances that TLC checks |

The modules meet at their interfaces. `SessionPool` takes for granted that the
pool exists once per container, which `PoolCreation` checks. It keeps of a
session only whose data it holds; `ComputeSession` has the inside of one session,
with the exclusive use that `SessionPool` shows. `ComputeSession` keeps of a beam
its counters, and `Beam` has the search. `Beam` has an arbitrary transition
system and needs its states to become final together, which `ArcStandard` shows
for the parser and `TransitionSystems` for the others. `BeamReader` trains on
trees for which the oracle's actions are allowed; `ArcStandard` shows that
projective trees are, and `DocumentFilters` that the filters make them so.

The contract on `SharedStore::Clear`: it deletes all objects whatever their counts,
and tells no client. A client whose pointer is from before a `Clear` must not use
or release it: `Release` looks for the address, and a new object may have it.
Nothing in the code enforces this. Only the tests call `Clear`, when they are done with
what they got. In the model such a client is stale, and all it may do is get an
object anew. What the store promises (`HeldObjectsAreShared`) is about objects got since
the last `Clear`.

Definitions named like `BuildSessionAlways` and marked *Mutant* are not part of
the models. Each is a plausible bug that replaces the definition after it, and
shows that the property it is listed with can fail.

## Runs

| run | instance | properties |
|---|---|---|
| `session_pool` | 2 runs of a traced graph that start over and over, 1 failure, a monitor reading the counts; 92,545 states | `SessionExclusive`, `NoStepFails`, `OwnDataOnly`, `BoundedByConcurrency`, the refinement `ImplementsAllocator`, the liveness property `RunsFinish` |
| `pool_creation` | 2 runs, 2 kernels, 2 containers; 81,664 states | `AssetsHonoured`, `OnePoolPerContainer`, the liveness property `LockReleased` |
| `beam` | beams of 1 and 2 slots, 3 steps, 2 actions, scores 0, 1, NaN, minus infinity; 22,405 states | `LineageFound`, `KeepsTheBest`, `GoldExact` |
| `arc_standard` | a label map without "ROOT", the oracle on all projective trees of up to 5 tokens; all sequences of allowed actions for each length up to 5; 30,968 states | `EndsTogether`, `ParsesAreTrees`, `OracleIsRight`, `StepsOfStackTokens` |
| `compute_session` | 3 runs on one session; empty, growing and shrinking batches; beam sizes 1 and 2; with and without a `StatelessComponent`; annotation graphs and training of the first components; 24,894 states | `NoCheckFails`, `BeamsOfThisRun`, `NoStateOutlivesItsSentence`, `AnnotationsComplete` |
| `transition_systems` | all annotations of up to 3 tokens with 2 tags and 2 labels and unknown ones, all texts of up to 4 characters of 1 or 2 bytes and all breaks, both directions, with and without "ROOT" in the map; 1,484,793 states | `OracleRestoresAnnotation`, `StepsFollowTheInput`, `CharAndTokenAgree`, `SegmentsKeepTheText` |
| `document_filters` | all analyses of up to 4 tokens, all trees of 5, batches of mixed documents, all flags; 143,873 states | `SinkHasTheFilteredCorpus`, `OutputIsProjective`, `HeadsAreLifted`, the liveness property `PreprocessingEnds` |
| `beam_reader` | training and evaluation, beams of 1 to 3 slots, 1 or 2 sentences at a time, up to 3 tokens, 2 epochs; 59,815 states | `GoldPathKept`, `IndicesGiveTheScore`, `EvaluatesFinishedPaths`, the action properties `EpochIsOnePass` and `KeepsTheBestPaths`, the liveness property `EpochsGoBy` |
| `mst_solver` | trees and forests of digraphs of up to 3 nodes with missing arcs, ties and negative scores, dense ones of 4; 132,810 states | `SolutionIsOptimal`, `ForestsAgree`, the liveness property `SolveReturns` |
| `shared_store` | 3 clients, 2 keys, 3 addresses, `Clear` at any time; 282,786 states | `RefcountIsHolders`, `HeldObjectsAreShared`, `EveryObjectHasOneKey` |

The comment above each property says what it states of the code. Type invariants
are not among them: where one carries a proof it is part of the inductive
invariant, and elsewhere a value of the wrong type shows in the properties listed.
That no `CHECK` fails is part of `ParsesAreTrees`, `StepsFollowTheInput` and
`SolveReturns`, and a property of its own in `compute_session`.

Why the bounds are enough:

* Two runs and one failure give every pair of steps of two owners of sessions,
  the reuse of a returned session, and a session lost while another is in use.
  The theorems below lift this to any number of runs and failures.
* Two kernels and two containers give a race for one pool and one kernel that
  creates two pools.
* A two-slot beam has evictions, ties, states from the same and from different
  sources, and slots that stay empty; three steps walk the history over two rows.
* Five tokens give stacks on which both arcs compete and nested subtrees on both
  sides.
* Three runs let a setting of the first survive the second.
* Three tokens have a first, a last and one in between, and every way to be each
  other's heads. Four characters give adjacent tokens, tokens with a gap or a
  break inside, and breaks before the first word and after the last.
* Non-projective trees start at four tokens (three with arcs from the root); five
  have arcs that must be lifted twice.
* Two sentences at a time with beams of two or three slots give beams that die
  and start anew while another goes on. A corpus is shorter, as long as and
  longer than the batch.
* Four nodes have a cycle inside a contracted cycle. Sizes are natural numbers below
  the limit of `Index`, or refused.
* Three clients let one hold, one release and one construct; addresses are
  given again after a delete.

Deadlock checking is off where the system may stop: for `arc_standard` and
`transition_systems` (a parse ends), `compute_session` (a bounded number of runs),
`beam_reader` (a number of epochs), `document_filters` and `mst_solver` (the result
is there) and `shared_store` (`ClosureGetOrDie` ends the process).

### Fairness

`session_pool` assumes weak fairness of the steps of a run that has started:
TensorFlow's executor keeps scheduling its ops, and nothing in the chain blocks
but mutexes held over straight-line code. Starting a run is not fair.
`pool_creation` assumes it of the run that holds the mutex, not of those waiting
for it. `document_filters`, `beam_reader` and `mst_solver` are
sequential: the program goes on until it stops. In the last two this is written
as "infinitely often stopped, or infinitely often a step", which says the same as
weak fairness of `Next` and spares TLC its `ENABLED`.

### Findings

Two runs show by a counterexample that a comment and the code disagree.

* `arc_standard_steps`: the step maps insert where they should assign, so that
  entries of reduced tokens move.
* `compute_session_trace`: the traces of a pipeline with a `StatelessComponent`
  are read out of range.

Two properties hold of the code with a meaning that differs from what a comment
says.

* `GetBeamIndexAtStep` forwards to `FindPreviousIndex`, and `LineageFound` (run `beam`)
  states what that returns: the slot that the source of step `step` had. This is
  the "item's parent at beam step" of `beam.h:156`. The interface says "Return the
  beam index of the item which is currently at index 'index', when the beam was at
  step 'step'" (`component.h:70-71`, `syntaxnet_component.h:69-70`), which is one step
  later; for the current step it would be the item's own index.
* A first word at the start of the text gets `NO_BREAK` (`binary_segment_state.cc:63`
  and `:80`), and so says `SegmentsKeepTheText` (run `transition_systems`). The comment
  at `:78-79` says "For the first token, keep the old break level", and the character
  has `SPACE_BREAK` (`segmenter_utils.cc:67`).

Seen while modelling, and not a property:

* `ResetSession` leaves the tracing flag set, so a run of a graph without
  `SetTracing` may trace on a session that a traced run used.
* `GetSessionCounts` takes the lock twice and may report more sessions in use than
  created.
* `Beam::Init` says that it resets the beam and keeps the history (the ops
  modelled always reset it first).
* `StatelessComponent::IsReady` is always true. `GetTraceProtos` throws for a
  pipeline of which only the first components were run on a reused session.
* The arc-standard oracle shifts past the end of a non-projective sentence, and
  `ParserState` aborts. In `BeamParseReader` its actions are not allowed there, the
  gold path is lost, and the `CHECK` at `beam_reader_ops.cc:788` ends the training;
  `projectivize_training_set` is off by default in `parser_trainer.py:55`.
* `document_filters.cc:330` says "Lift the shortest non-projective arc"; the code
  lifts the deepest one. On a cycle that `keep_malformed` lets through, counting
  the depth does not end.
* The penalty on root arcs in `mst_solver.h:393` is computed in the type of the
  scores, which may overflow for 32 bit integers.
* The root label is "ROOT". With a map that has "root" instead, as that of a
  Universal Dependencies treebank, `labels` allows a root token no action. An
  unknown label is then -1, which `heads_labels` encodes as the last label of the
  head before, or as an action it CHECKs against; its default action is not the
  self-loop that `head_label_transitions.h` describes. `labels` also aborts on an
  unknown label of a token that is not a root. `Precondition` in `TransitionSystems` leaves
  these inputs out.
* `char-shift-only` and its focus features read token 0 of an empty sentence.
* A `MERGE` after a break joins the words on both sides of it.
* `UnbatchSubsequences` compares a sequence index with the number of rows, which
  sequences that are empty can exceed.

## Proofs

Every invariant of the runs `session_pool`, `pool_creation`, `beam`, `arc_standard`,
`compute_session` and `shared_store` is proved for all values of the constants, and
so is the refinement. The runs check the same definitions on the instances above.
Each proof module states an inductive invariant `IndInv`, proves that `Init` implies
it and that every action keeps it (one lemma or step per action, one step under it
per conjunct that the action disturbs), and derives the properties.

**The pool** (`SessionPoolProofs`): any finite set of runs, any bound on failures.
`PoolTypes`, `PoolExclusive`, `PoolNoStepFails`, `PoolOwnData`, `PoolBounded`. None of
them is inductive alone. That a `Create` never finds its name taken needs the
resources to be exactly the sessions of runs between `Create` and `Delete`, and
of failed runs. The invariant therefore adds `StepsAgree` (which program
points hold a session, which have it registered, and in what condition it is),
`PooledReady` (idle sessions are initialised) and `Counted` (sessions built =
idle + in use + lost). `PoolIsAllocator` is the refinement: under the invariant
every step is `Reuse`, `Create`, `Return` or `Lose` of `SessionAllocator`, or leaves its
variables alone. Assumptions: the set of runs is finite, `None` is not a number,
`MaxFailures` is a natural number.

**Its creation** (`PoolCreationProofs`): any runs, kernels and containers.
`PoolsHonourAssets` and `RunsShareThePool`. The invariant says that
`has_overwritten_spec_` tells how often the kernel's spec was rewritten, that a pool
on its way into the `ResourceMgr` is already right, and that whoever has a pool has
the registered one. Assumption: `None` is no pool.

**The beam** (`BeamProofs`): any transition system, scores, beam size and number of
actions. `BeamLineage`: every row of the history leads one step back on the lineage
of every state (`LineageFits`), on all three ways to advance, and the loop of
`FindPreviousIndex` repeats such steps. `BeamKeepsTheBest`: while the two loops of
`BeamAdvanceFromPrediction` run, the candidates are sorted, they are as many as
there is room for, and nothing that was dropped is better than the last one
(`TopSearched` and the lemmas before it, an induction over the passes). `BeamGoldExact`:
the flag says that the path so far is the oracle's. Assumptions: scores are integers,
NaN and minus infinity, and the oracle has an action for every state that is
not final. Overflow and rounding of scores are not part of the model.

**Arc-standard** (`ArcStandardProofs`): sentences of any length, any label set.

* `ParsesEndTogether`: a shift adds one token to the stack and an arc takes one off,
  so as long as no `CHECK` failed the number of steps is `2 * next_ - (StackSize - 1)`.
* `StackStepsAreRight`: the stack is in the order of the sentence. A shift inserts
  into the map behind all tokens of the stack, and an arc at its head, behind which
  only the dependent could be, which leaves the stack.
* `OracleParses`: the arcs drawn so far are gold (`Exact`), and in a final state
  every token has one. This holds for non-projective sentences, too, where the oracle
  may not get to a final state.
* `FinishedParsesAreTrees`: `Forested` says that there are sets `dom[x]` of what is
  known to be below `x`, closed under heads, such that whatever lies between
  neighbours on the stack is below one of them and whatever lies under an arc is
  below its head, and that the order in which arcs are drawn ranks every token
  below its head. In a final state everything is below the root, and a climb along
  rising ranks gets there in n steps (`ClimbReaches`).
* `ParsesAreProjective`: the same, and no `CHECK` fails. Only a shift at the end of the
  input could fail one, and only the oracle could ask for it. `Kept` says of the
  oracle that a reduced token has no gold dependents left, that no token below the
  top of the stack is the gold head of one below it, and that each of them still has
  a gold arc to something later that is not reduced. If the oracle shifts, the topmost
  token has such an arc too, into the input (`FirstWaits`), for otherwise two gold arcs
  would cross. `ScanIsRight` shows on the way that the scan of
  `DoneChildrenRightOf`, which jumps over what it takes to be inside a subtree,
  misses no dependent.

Assumptions: heads and labels of the sentences are in range ("ROOT" need not be in the
label map: `RootLabel` may be -1). `ParsesAreProjective` has
the hypothesis `ProjectiveGold`, that the gold analyses are projective trees, which is
what `ProjectivizeFilter` leaves and what the run's sentences are. Without it the
oracle does abort (see the findings).

**The session** (`ComputeSessionProofs`): pipelines of any length, any graphs,
batches, beam sizes and number of runs. `SessionBeams`, `SessionStates`,
`SessionAnnotations` and `SessionNoCheckFails`. The invariant divides the components into
those that the current run has initialised, which hold one beam per sentence with
that run's size (`Filled`), and the others, which are without states and with beam
size 0 (`Clean`): it is the 0 that `ResetComponent` leaves that makes `InitializeData` empty the
beams it takes over. Assumptions: a graph runs a prefix of its pipeline, all of it
if it annotates. `SessionNoCheckFails` has the hypothesis that the graphs are
`Supported`: the first component has beams, and traces are only asked for where
every component has them. The run's graphs are (`SoundGraphsAssumption`), and the
run `compute_session_trace` shows what happens otherwise.

**The store** (`SharedStoreProofs`): any finite set of clients, any keys and
addresses. `StoreTypes`, `StoreCounts`, `StoreShares` and `StoreIsInjective`. They need
each other. That a count is the number of holders is kept by `Release` only if the
entry found by address is the holder's, which is injectivity; that is kept by
storing only if the object is not there already, and deleting at count 1 spares the
other clients only because the count is exact. The invariant adds `LockIsHeld` (who is
in a critical section has the lock) and `StoresUnderNewKey` (the key was absent when
the object was made, and still is). `StoreShares` says that no `Release` takes an
object from another client; it does not say so of `Clear`, which takes all of them.
Assumptions: the clients are finitely many and keep the contract on `Clear`, and
`nobody` and `nullptr` are no client and no object.

Induction over data is done on sets. `DataLemmas` gets `SetInduction` from the
well-foundedness of the naturals, and shows that a loop has a value after every
iteration (`LoopExists`). What a recursive function computes (`Top`, `Walk`, `Upward`,
`DoneChildrenRightOf`) follows from that: some function satisfies its equation, so
the one that the definition chooses does. `TreeLemmas` holds what that gives for
dependency trees, and the facts about stacks and arcs that mention no state.

Only model-checked: the liveness properties (`RunsFinish`, `LockReleased`,
`PreprocessingEnds`, `EpochsGoBy`, `SolveReturns`), which need fairness and `ENABLED`; and the
properties of `TransitionSystems`, `DocumentFilters`, `BeamReader` and `MstSolver`.
`SolutionIsOptimal` is the theorem of Chu, Liu and Edmonds, and
`SinkHasTheFilteredCorpus`, `CharAndTokenAgree` and `SegmentsKeepTheText` compare what
nested loops build with a second construction; these will stay with TLC.

## Not modelled

* Feature extraction, embeddings, vocabularies, text formats and Unicode:
  functions of their input with no protocol to get wrong.
* Tensor layout of the bulk feature ops, `RebatchDensor` and `UnbatchSubsequences`
  (used by no graph of the repository), op signatures, shape functions.
* The path of several components that `IndexTranslator` walks, and the greedy
  readers of `reader_ops.cc`.
* The Python libraries, except for the order of ops in the graphs they build.
* TensorFlow. The repository vendors all of it, which is nearly all of the lines
  under `src/`; it is used as a library, and only `LookupOrCreate` and the outcomes
  of the other `ResourceMgr` calls are modelled. The share of the source that the
  map covers is small for this reason, and no model of SyntaxNet and DRAGNN alone
  could make it large.
* Within the modelled parts: protocol buffer parsing, reference counts of
  resources, textual forms of states, translated link features, cloning, DCHECKs
  (which a release build leaves out), overflow of scores.

## Plan

1. Proofs: `HeadsAreLifted` and `OutputIsProjective` of `DocumentFilters`, which would
   discharge `ProjectiveGold`; `StepsFollowTheInput` of `TransitionSystems`;
   `EvaluatesFinishedPaths` of `BeamReader`.
2. `IndexTranslator` composed with two `Beam`s: a linked feature reaches the state
   its source was made from.
3. The greedy readers, as a second user of `SentenceBatch`.
