--------------------------- MODULE ComputeSession ----------------------------
(* One ComputeSession and its pipeline of components, over the graph runs     *)
(* that use it one after the other: the ops a graph of graph_builder.py calls, *)
(* in its order, on a session that the pool hands out again after             *)
(* ResetSession.  A component is a SyntaxNetComponent or a StatelessComponent. *)
(*                                                                            *)
(* Of a beam the model keeps what survives from op to op: its size, its step   *)
(* and history counters, how many steps its states are from final, whether    *)
(* they have a trace, and the run whose sentence they point into.  The bulk    *)
(* ops take the same steps in a row, with no other op in between.             *)
EXTENDS Integers, Sequences, FiniteSetsExt

CONSTANTS
  Batches,      \* the inputs: per sentence, the steps to its final state
  BeamSizes,    \* the beam sizes a graph may ask for
  Graphs,       \* the graphs that are run, each built for a pipeline
  MaxRuns       \* bound: runs that use the session

ASSUME BatchesAssumption == Batches \subseteq Seq(Nat)
ASSUME BeamSizesAssumption == BeamSizes \subseteq Nat \ {0}
ASSUME GraphsAssumption ==
  \A graph \in Graphs :
    /\ graph.pipeline \in Seq({"syntaxnet", "stateless"})
    /\ graph.upto \in DOMAIN graph.pipeline
    /\ graph.training \in BOOLEAN
    /\ ~graph.training => graph.upto = Len(graph.pipeline)
    /\ graph.tracing \in {"on", "off", "unset"}
ASSUME MaxRunsAssumption == MaxRuns \in Nat

VARIABLES
  input_data_,  \* the InputBatchCache, or NoInput
  do_tracing_,  \* the session's flag
  components_,  \* the components, in pipeline order
  run,          \* the run in progress: its graph and its next op
  fatal         \* the CHECK or out-of-range access that ended the process

vars == <<input_data_, do_tracing_, components_, run, fatal>>

NoInput == [sentences |-> <<>>, converted |-> FALSE, written |-> <<>>, run |-> 0]
Indices == DOMAIN components_
SyntaxNet(i) == components_[i].backend = "syntaxnet"

(* The predecessor in the pipeline; the first component has none. *)
IsInput(i) == i = 1

-----------------------------------------------------------------------------
(* A Beam: no states when run = 0. *)
NewBeam(max_size) ==
  [max_size_ |-> max_size, num_steps_ |-> 0, rows |-> 0, run |-> 0, left |-> 0,
   trace |-> FALSE]
BeamReset(beam) == NewBeam(beam.max_size_)
SetMaxSize(beam, max_size) == NewBeam(max_size)

(* Init replaces the states and adds a row to the history it finds. *)
BeamInit(beam, id, left) ==
  [beam EXCEPT !.rows = @ + 1, !.run = id, !.left = left, !.trace = FALSE]

BeamIsTerminal(beam) == beam.left = 0
BeamAdvance(beam, left) ==
  [beam EXCEPT !.num_steps_ = @ + 1, !.left = left,
               !.rows = IF beam.max_size_ > 1 THEN @ + 1 ELSE @]

(* The CHECK with which FindPreviousIndex begins. *)
HistoryInStep(beam) == beam.max_size_ > 1 => beam.num_steps_ = beam.rows - 1

-----------------------------------------------------------------------------
(* The components; batch_size_ and parent_states_ are StatelessComponent's.    *)
(* parent_states_ holds the run that the one state of each beam belongs to.    *)
NewComponent(backend) ==
  [backend |-> backend, input_data_ |-> 0, max_beam_size_ |-> 0, batch_ |-> <<>>, do_tracing_ |-> FALSE,
   batch_size_ |-> 0, parent_states_ |-> <<>>]
NewPipeline(pipeline) == [i \in DOMAIN pipeline |-> NewComponent(pipeline[i])]

IsReady(i) == SyntaxNet(i) => components_[i].input_data_ # 0

IsTerminal(i) ==
  SyntaxNet(i) => \A n \in DOMAIN components_[i].batch_ : BeamIsTerminal(components_[i].batch_[n])

(* GetBeam: of each beam the best state; "at" throws on an empty beam. *)
GetBeam(i) ==
  IF SyntaxNet(i) THEN [n \in DOMAIN components_[i].batch_ |-> components_[i].batch_[n].run]
  ELSE components_[i].parent_states_

(* SyntaxNetComponent::InitializeData, up to the beams it then seeds.  Mutant:  *)
(* the beams of an equally large batch are taken over as they are.            *)
ResizedBatchAsIs(c, size, max_size) ==
  IF Len(c.batch_) = size THEN c.batch_ ELSE [n \in 1 .. size |-> NewBeam(max_size)]
ResizedBatch(c, size, max_size) ==
  [n \in 1 .. size |->
     IF n > Len(c.batch_) THEN NewBeam(max_size)
     ELSE IF c.max_beam_size_ # max_size THEN SetMaxSize(c.batch_[n], max_size)
     ELSE c.batch_[n]]

SyntaxNetInitializeData(c, max_size) ==
  LET size == Len(input_data_.sentences)
      batch == ResizedBatch(c, size, max_size)
  IN  [c EXCEPT !.input_data_ = input_data_.run,
                !.max_beam_size_ = max_size,
                !.batch_ = [n \in 1 .. size |->
                              BeamInit(batch[n], input_data_.run, input_data_.sentences[n])]]

(* StatelessComponent::InitializeData. *)
StatelessInitializeData(c, parents, max_size) ==
  [c EXCEPT !.batch_size_ = Len(input_data_.sentences), !.max_beam_size_ = max_size,
            !.parent_states_ = parents]

InitializeTracing(c) ==
  [c EXCEPT !.do_tracing_ = TRUE,
            !.batch_ = [n \in DOMAIN c.batch_ |-> [c.batch_[n] EXCEPT !.trace = TRUE]]]
DisableTracing(c) == [c EXCEPT !.do_tracing_ = FALSE]

(* SyntaxNetComponent::ResetComponent; StatelessComponent's is empty.  Mutant:  *)
(* the beams are left to the next InitializeData, which empties them when it   *)
(* sets their size.                                                           *)
ResetComponentLazily(i) ==
  IF SyntaxNet(i) THEN [components_[i] EXCEPT !.input_data_ = 0, !.max_beam_size_ = 0]
  ELSE components_[i]
ResetComponent(i) ==
  IF SyntaxNet(i)
  THEN [components_[i] EXCEPT !.batch_ = [n \in DOMAIN @ |-> BeamReset(@[n])],
                              !.input_data_ = 0, !.max_beam_size_ = 0]
  ELSE components_[i]

-----------------------------------------------------------------------------
(* A graph of Graphs initializes the components up to upto, in order.  In its   *)
(* loop it extracts features and advances, from the oracle or from predictions, *)
(* until the component is terminal.  An annotation graph has all components,    *)
(* and they write their annotations; a training graph may have the first few.  *)
(* A graph that sets tracing on asks for the traces in the end.                *)
NoGraph == [pipeline |-> <<>>, upto |-> 0, training |-> FALSE, tracing |-> "unset"]
NewRun(id) == [id |-> id, pc |-> "get_session", graph |-> NoGraph, at |-> 0, oracle |-> FALSE,
               inited |-> {}]

Init ==
  /\ input_data_ = NoInput
  /\ do_tracing_ = FALSE
  /\ components_ \in {NewPipeline(graph.pipeline) : graph \in Graphs}
  /\ run = NewRun(1)
  /\ fatal = "none"

(* A graph can start on the session when it was built for its pipeline. *)
Starts(graph) ==
  /\ run.id <= MaxRuns
  /\ graph.pipeline = [i \in Indices |-> components_[i].backend]

At(pc) == fatal = "none" /\ run.pc = pc

(* An op ends the process with the first of its checks that fails. *)
Check(outcomes) ==
  LET failed == {k \in DOMAIN outcomes : outcomes[k] # "none"}
  IN  fatal' = IF failed = {} THEN "none" ELSE outcomes[Min(failed)]
Must(name, holds) == IF holds THEN "none" ELSE name
Ready(i) == Must("component not ready", IsReady(i))

(* SetTracing, the first op of a graph that has it. *)
SetTracing(graph) ==
  /\ At("get_session") /\ Starts(graph)
  /\ graph.tracing # "unset"
  /\ do_tracing_' = (graph.tracing = "on")
  /\ components_' = IF graph.tracing = "on" THEN components_
                    ELSE [i \in Indices |-> DisableTracing(components_[i])]
  /\ run' = [run EXCEPT !.pc = "attach", !.graph = graph]
  /\ UNCHANGED <<input_data_, fatal>>

AttachDataReader(graph, batch) ==
  /\ \/ At("get_session") /\ Starts(graph) /\ graph.tracing = "unset"
     \/ At("attach") /\ graph = run.graph
  /\ input_data_' = [sentences |-> batch, converted |-> FALSE, run |-> run.id,
                     written |-> [n \in DOMAIN batch |-> {}]]
  /\ run' = [run EXCEPT !.pc = "init", !.graph = graph, !.at = 1]
  /\ UNCHANGED <<do_tracing_, components_, fatal>>

(* InitComponentData: the source must be terminal and its best states seed     *)
(* the component; then its batch size is asked for.                           *)
InitializeComponentData(i, max_size, oracle) ==
  LET parents == IF IsInput(i) THEN <<>> ELSE GetBeam(i - 1)
      data == IF SyntaxNet(i) THEN SyntaxNetInitializeData(components_[i], max_size)
              ELSE StatelessInitializeData(components_[i], parents, max_size)
  IN  /\ At("init")
      /\ i = run.at
      /\ Check(<<Must("no input data", input_data_ # NoInput),
                 Must("source not terminal", IsInput(i) \/ IsTerminal(i - 1)),
                 Must("empty beam", 0 \notin Range(parents)),
                 Must("no converted data", SyntaxNet(i) \/ input_data_.converted),
                 Must("batch size", \/ ~SyntaxNet(i) \/ parents = <<>>
                                    \/ Len(parents) = Len(input_data_.sentences)),
                 Must("stale state", SyntaxNet(i) => Range(parents) \subseteq {run.id})>>)
      /\ components_' = [components_ EXCEPT
           ![i] = IF do_tracing_ /\ SyntaxNet(i) THEN InitializeTracing(data) ELSE data]
      /\ input_data_' = [input_data_ EXCEPT !.converted = @ \/ SyntaxNet(i)]
      /\ run' = [run EXCEPT !.pc = "loop", !.oracle = oracle, !.inited = @ \cup {i}]
      /\ UNCHANGED do_tracing_

(* What extracting the fixed and linked features of component i checks: the    *)
(* traces it writes to, and the histories along the path of its translators.   *)
FeatureChecks(i) ==
  LET c == components_[i]
      traces == \A n \in DOMAIN c.batch_ : c.batch_[n].trace
  IN  <<Ready(i),
        Must("trace not initialized", c.do_tracing_ => traces),
        Must("history out of step",
             \A j \in 1 .. i : \A n \in DOMAIN components_[j].batch_ :
               HistoryInStep(components_[j].batch_[n])),
        Must("tracing not enabled", do_tracing_ => c.do_tracing_ /\ traces)>>

(* A step of the loop: features, then AdvanceFromOracle, which also counts a   *)
(* step of the beams that are terminal.                                       *)
AdvanceFromOracle(i) ==
  /\ At("loop")
  /\ i = run.at
  /\ run.oracle
  /\ ~IsTerminal(i)
  /\ Check(FeatureChecks(i))
  /\ components_' = [components_ EXCEPT ![i].batch_ =
       [n \in DOMAIN @ |-> BeamAdvance(@[n], IF BeamIsTerminal(@[n]) THEN 0 ELSE @[n].left - 1)]]
  /\ UNCHANGED <<input_data_, do_tracing_, run>>

(* Or AdvanceFromPrediction, beam by beam.  When a beam cannot advance (the    *)
(* scores are not numbers, or none is above minus infinity), the beams before  *)
(* it have, and the op fails: the run never releases the session.             *)
AdvanceFromPrediction(i, failing) ==
  LET batch == components_[i].batch_
  IN  /\ At("loop")
      /\ i = run.at
      /\ ~run.oracle
      /\ ~IsTerminal(i)
      /\ failing \in DOMAIN batch => ~BeamIsTerminal(batch[failing])
      /\ Check(FeatureChecks(i))
      /\ components_' = [components_ EXCEPT ![i].batch_ =
           [n \in DOMAIN @ |-> IF BeamIsTerminal(@[n]) \/ n >= failing THEN @[n]
                               ELSE BeamAdvance(@[n], @[n].left - 1)]]
      /\ run' = [run EXCEPT !.pc = IF failing \in DOMAIN batch THEN "failed" ELSE @]
      /\ UNCHANGED <<input_data_, do_tracing_>>

(* The end of the loop, and the WriteAnnotations op of an annotation graph:    *)
(* the best state of every beam annotates its sentence.  Mutant: only those    *)
(* of the first beam.                                                         *)
FinalizeDataOfFirst(i) ==
  [n \in DOMAIN input_data_.written |->
     IF SyntaxNet(i) /\ n = 1 THEN input_data_.written[n] \cup {i} ELSE input_data_.written[n]]
FinalizeData(i) ==
  [n \in DOMAIN input_data_.written |->
     IF /\ SyntaxNet(i)
        /\ n \in DOMAIN components_[i].batch_
        /\ components_[i].batch_[n].run # 0
     THEN input_data_.written[n] \cup {i} ELSE input_data_.written[n]]

(* What a graph ends with, after its traces. *)
Output == IF run.graph.training THEN "release" ELSE "emit"

EndComponent(i) ==
  /\ At("loop")
  /\ i = run.at
  /\ IsTerminal(i)
  /\ Check(<<Ready(i)>>)
  /\ input_data_' = IF run.graph.training THEN input_data_
                    ELSE [input_data_ EXCEPT !.written = FinalizeData(i)]
  /\ run' = [run EXCEPT !.pc = IF i < run.graph.upto THEN "init"
                              ELSE IF run.graph.tracing = "on" THEN "trace"
                              ELSE Output,
                        !.at = IF i < run.graph.upto THEN @ + 1 ELSE @]
  /\ UNCHANGED <<do_tracing_, components_>>

(* GetComponentTrace: the path of each best state back through the pipeline,   *)
(* and the trace of the state of every component on it.                       *)
GetTraceProtos ==
  LET final == GetBeam(Len(components_))
  IN  /\ At("trace")
      /\ Check(<<Must("no trace",
           /\ 0 \notin Range(final)
           /\ \A i \in Indices :
                /\ DOMAIN final \subseteq DOMAIN components_[i].batch_
                /\ \A n \in DOMAIN components_[i].batch_ :
                     LET beam == components_[i].batch_[n]
                     IN  beam.run # 0 => beam.trace /\ HistoryInStep(beam))>>)
      /\ run' = [run EXCEPT !.pc = Output]
      /\ UNCHANGED <<input_data_, do_tracing_, components_>>

(* EmitAnnotations: the serialized sentences. *)
GetSerializedPredictions ==
  /\ At("emit")
  /\ Check(<<Must("no converted data", input_data_.converted)>>)
  /\ run' = [run EXCEPT !.pc = "release"]
  /\ UNCHANGED <<input_data_, do_tracing_, components_>>

(* ReleaseSession, and the ResetSession with which the pool hands the session  *)
(* out to the next run.  Mutant: it also resets the session's tracing flag,    *)
(* but not those of the components.                                           *)
ResetSessionAndTracing ==
  /\ At("release")
  /\ components_' = [i \in Indices |-> ResetComponent(i)]
  /\ input_data_' = NoInput
  /\ do_tracing_' = FALSE
  /\ run' = NewRun(run.id + 1)
  /\ UNCHANGED fatal
ResetSession ==
  /\ At("release")
  /\ components_' = [i \in Indices |-> ResetComponent(i)]
  /\ input_data_' = NoInput
  /\ run' = NewRun(run.id + 1)
  /\ UNCHANGED <<do_tracing_, fatal>>

Next ==
  \/ \E graph \in Graphs : SetTracing(graph)
  \/ \E graph \in Graphs, batch \in Batches : AttachDataReader(graph, batch)
  \/ \E i \in Indices, max_size \in BeamSizes, oracle \in BOOLEAN :
       InitializeComponentData(i, max_size, oracle)
  \/ \E i \in Indices : AdvanceFromOracle(i)
  \/ \E i \in Indices :
       \E failing \in 1 .. Len(components_[i].batch_) + 1 : AdvanceFromPrediction(i, failing)
  \/ \E i \in Indices : EndComponent(i)
  \/ GetTraceProtos
  \/ GetSerializedPredictions
  \/ ResetSession

Spec == Init /\ [][Next]_vars

(* The graphs that a session can run: the first component converts the input,   *)
(* and the traces are asked for where every component has them.               *)
Supported(graph) ==
  /\ graph.pipeline[1] = "syntaxnet"
  /\ graph.tracing = "on" => /\ graph.upto = Len(graph.pipeline)
                             /\ \A i \in DOMAIN graph.pipeline : graph.pipeline[i] = "syntaxnet"

-----------------------------------------------------------------------------
(* Whatever runs used the session before, with other batches, beam sizes,      *)
(* tracing or only part of the pipeline, none of the session's and the         *)
(* components' CHECKs fails, no beam is read past its end, and no component is  *)
(* seeded from the freed states that StatelessComponent keeps after a reset.   *)
NoCheckFails == fatal = "none"

(* A component the run has initialized has one beam per sentence, of the size  *)
(* the run asked for, with states on that run's sentences and a history that   *)
(* has one row more than the beam took steps, nothing left from earlier runs.  *)
BeamsOfThisRun ==
  fatal = "none" =>
    \A i \in run.inited :
      LET c == components_[i]
      IN  SyntaxNet(i) =>
            /\ c.input_data_ = run.id
            /\ Len(c.batch_) = Len(input_data_.sentences)
            /\ \A n \in DOMAIN c.batch_ :
                 /\ c.batch_[n].max_size_ = c.max_beam_size_
                 /\ c.batch_[n].run = run.id
                 /\ HistoryInStep(c.batch_[n])

(* Every state in a beam points into a sentence that still exists: ResetSession *)
(* frees the sentences, so no state may outlive it, in any component.          *)
NoStateOutlivesItsSentence ==
  \A i \in Indices : \A n \in DOMAIN components_[i].batch_ :
    components_[i].batch_[n].run \in {0, input_data_.run}

(* An annotation graph releases the session only after every component with    *)
(* states of its own has annotated every sentence of the batch.               *)
AnnotationsComplete ==
  run.pc = "release" /\ ~run.graph.training =>
    \A n \in DOMAIN input_data_.sentences :
      input_data_.written[n] = {i \in Indices : SyntaxNet(i)}

(* What compute_session.h:118 says of GetTraceProtos: it fails or is empty when *)
(* SetTracing has not been called; so not when it has.                        *)
TracesAvailable == fatal # "no trace"
=============================================================================
