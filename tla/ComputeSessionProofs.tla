------------------------ MODULE ComputeSessionProofs -------------------------
(***************************************************************************)
(* For pipelines of any length, any graphs, batches and beam sizes and any    *)
(* number of runs that use a session one after the other: the session's        *)
(* CHECKs hold, and nothing of an earlier run is left in a beam.              *)
(*                                                                         *)
(* The inductive invariant divides the components into those that the current  *)
(* run has initialized, which hold that run's beams, and the others, which     *)
(* ResetComponent has left without states and with beam size 0: it is the 0     *)
(* that makes InitializeData resize, and so empty, every beam it takes over.   *)
(***************************************************************************)
EXTENDS ComputeSession, SequenceTheorems, TLAPS

BeamState ==
  [max_size_ : Nat, num_steps_ : Nat, rows : Nat, run : Nat, left : Nat, trace : BOOLEAN]
Component ==
  [backend : {"syntaxnet", "stateless"}, input_data_ : Nat, max_beam_size_ : Nat,
   batch_ : Seq(BeamState), do_tracing_ : BOOLEAN, batch_size_ : Nat, parent_states_ : Seq(Nat)]
Run ==
  [id : Nat \ {0},
   pc : {"get_session", "attach", "init", "loop", "failed", "trace", "emit", "release"},
   graph : Graphs \cup {NoGraph}, at : Nat, oracle : BOOLEAN, inited : SUBSET Nat]
InputBatch == [sentences : Seq(Nat), converted : BOOLEAN, written : Seq(SUBSET Nat), run : Nat]

Types ==
  /\ input_data_ \in InputBatch
  /\ do_tracing_ \in BOOLEAN
  /\ components_ \in Seq(Component)
  /\ run \in Run

(* The pipeline of the session is that of a graph, and of the running one. *)
Backends == [i \in Indices |-> components_[i].backend]
PipelineFits ==
  /\ \E graph \in Graphs : Backends = graph.pipeline
  /\ run.pc # "get_session" => run.graph \in Graphs /\ Backends = run.graph.pipeline

(* Where a run is tells which components it has initialized. *)
Progress ==
  /\ run.pc \in {"get_session", "attach"} => run.inited = {} /\ input_data_.run = 0
  /\ run.pc \notin {"get_session", "attach"} =>
       /\ input_data_.run = run.id
       /\ run.at \in 1 .. run.graph.upto
       /\ run.inited = 1 .. (IF run.pc = "init" THEN run.at - 1 ELSE run.at)
  /\ run.pc \in {"trace", "emit", "release"} => run.at = run.graph.upto
  /\ run.pc = "trace" => run.graph.tracing = "on"
  /\ run.pc = "init" /\ run.at > 1 => IsTerminal(run.at - 1)

(* What a component with beams holds before and after InitializeData. *)
Clean(c) ==
  c.backend = "syntaxnet" =>
    c.max_beam_size_ = 0 /\ \A n \in DOMAIN c.batch_ : c.batch_[n].run = 0
Filled(c, id, size) ==
  c.backend = "syntaxnet" =>
    /\ c.input_data_ = id
    /\ Len(c.batch_) = size
    /\ \A n \in DOMAIN c.batch_ :
         /\ c.batch_[n].max_size_ = c.max_beam_size_
         /\ c.batch_[n].run = id
         /\ HistoryInStep(c.batch_[n])
ComponentsFit ==
  \A i \in Indices :
    /\ components_[i].backend = "stateless" => components_[i].batch_ = <<>>
    /\ IF i \in run.inited THEN Filled(components_[i], run.id, Len(input_data_.sentences))
       ELSE Clean(components_[i])

(* The components that have written their annotations. *)
Written ==
  /\ Len(input_data_.written) = Len(input_data_.sentences)
  /\ run.pc \notin {"get_session", "attach"} /\ ~run.graph.training =>
       \A n \in DOMAIN input_data_.sentences :
         input_data_.written[n] =
           {i \in 1 .. (IF run.pc \in {"init", "loop", "failed"} THEN run.at - 1 ELSE run.at) :
              SyntaxNet(i)}

(* The tracing flags: SetTracing(false) reaches the components at once, while    *)
(* SetTracing(true) does when they are initialized.                           *)
TracingFits ==
  /\ run.pc # "get_session" /\ run.graph.tracing = "on" => do_tracing_
  /\ \A i \in Indices : components_[i].do_tracing_ => do_tracing_
  /\ \A i \in Indices :
       i \in run.inited /\ SyntaxNet(i) /\ do_tracing_ =>
         /\ components_[i].do_tracing_
         /\ \A n \in DOMAIN components_[i].batch_ : components_[i].batch_[n].trace

(* What the checks need where every graph is supported. *)
AllSupported == \A graph \in Graphs : Supported(graph)
ChecksHold ==
  /\ fatal = "none"
  /\ run.inited # {} => input_data_.converted
  /\ \A i \in Indices :
       i \in run.inited /\ ~SyntaxNet(i) =>
         /\ Len(components_[i].parent_states_) = Len(input_data_.sentences)
         /\ \A n \in DOMAIN components_[i].parent_states_ :
              components_[i].parent_states_[n] = run.id

IndInv ==
  /\ Types /\ PipelineFits /\ Progress /\ ComponentsFit /\ Written /\ TracingFits
  /\ AllSupported => ChecksHold

-----------------------------------------------------------------------------
(* A function on 1 .. n is a sequence of length n. *)
LEMMA TableIsSeq ==
  ASSUME NEW S, NEW n \in Nat, NEW f \in [1 .. n -> S]
  PROVE  f \in Seq(S) /\ Len(f) = n /\ DOMAIN f = 1 .. n
BY SeqDef, LenProperties

(* The beam operations: types, and the history row that goes with each step. *)
LEMMA BeamOps ==
  /\ \A size \in Nat : NewBeam(size) \in BeamState
  /\ \A beam \in BeamState : BeamReset(beam) \in BeamState
  /\ \A beam \in BeamState, id \in Nat, left \in Nat : BeamInit(beam, id, left) \in BeamState
  /\ \A beam \in BeamState, left \in Nat : BeamAdvance(beam, left) \in BeamState
<1>1. \A size \in Nat : NewBeam(size) \in BeamState
  BY DEF NewBeam, BeamState
<1>2. \A beam \in BeamState : BeamReset(beam) \in BeamState
  BY <1>1 DEF BeamReset, BeamState
<1>3. \A beam \in BeamState, id \in Nat, left \in Nat : BeamInit(beam, id, left) \in BeamState
  <2>1. \A beam \in BeamState : beam.rows + 1 \in Nat
    BY DEF BeamState
  <2> QED
    BY <2>1, Zenon DEF BeamInit, BeamState
<1>4. \A beam \in BeamState, left \in Nat : BeamAdvance(beam, left) \in BeamState
  <2>1. \A beam \in BeamState : beam.rows + 1 \in Nat /\ beam.num_steps_ + 1 \in Nat
    BY DEF BeamState
  <2> QED
    BY <2>1, Zenon DEF BeamAdvance, BeamState
<1> QED
  BY <1>1, <1>2, <1>3, <1>4

(* AdvanceBeam keeps the size and the run of a beam, and its history in step. *)
LEMMA AdvanceKeeps ==
  ASSUME NEW beam \in BeamState, NEW left \in Nat
  PROVE  LET b == BeamAdvance(beam, left)
         IN  /\ b \in BeamState
             /\ b.max_size_ = beam.max_size_ /\ b.run = beam.run /\ b.trace = beam.trace
             /\ HistoryInStep(beam) => HistoryInStep(b)
<1>1. BeamAdvance(beam, left) \in BeamState
  BY BeamOps
<1>2. /\ BeamAdvance(beam, left).max_size_ = beam.max_size_
      /\ BeamAdvance(beam, left).run = beam.run
      /\ BeamAdvance(beam, left).trace = beam.trace
      /\ HistoryInStep(beam) => HistoryInStep(BeamAdvance(beam, left))
  BY DEF BeamAdvance, BeamState, HistoryInStep
<1> QED
  BY <1>1, <1>2

(* InitializeData of a component that was reset: one beam per sentence, with    *)
(* the states of this run, and one row of history.                            *)
LEMMA InitializeDataFills ==
  ASSUME NEW c \in Component, c.backend = "syntaxnet", Clean(c),
         NEW max_size \in Nat \ {0}, input_data_ \in InputBatch
  PROVE  LET d == SyntaxNetInitializeData(c, max_size)
         IN  /\ d \in Component
             /\ d.backend = "syntaxnet" /\ d.do_tracing_ = c.do_tracing_
             /\ Filled(d, input_data_.run, Len(input_data_.sentences))
<1> DEFINE size == Len(input_data_.sentences)
           batch == ResizedBatch(c, size, max_size)
           seeded == [n \in 1 .. size |->
                        BeamInit(batch[n], input_data_.run, input_data_.sentences[n])]
           d == SyntaxNetInitializeData(c, max_size)
<1>1. /\ size \in Nat /\ input_data_.run \in Nat
      /\ \A n \in 1 .. size : input_data_.sentences[n] \in Nat
  BY LenProperties DEF InputBatch
<1>2. c.max_beam_size_ = 0 /\ Len(c.batch_) \in Nat
  BY LenProperties DEF Clean, Component
<1>3. \A n \in 1 .. size : batch[n] = NewBeam(max_size)
  BY <1>1, <1>2 DEF ResizedBatch, SetMaxSize
<1> HIDE DEF batch, size
<1>4. \A n \in 1 .. size :
        /\ seeded[n] \in BeamState
        /\ seeded[n].max_size_ = max_size
        /\ seeded[n].run = input_data_.run
        /\ HistoryInStep(seeded[n])
  <2>1. \A n \in 1 .. size :
          seeded[n] = BeamInit(NewBeam(max_size), input_data_.run, input_data_.sentences[n])
    BY <1>3, Zenon
  <2> HIDE DEF seeded
  <2>2. \A n \in 1 .. size : seeded[n] \in BeamState
    BY <2>1, <1>1, BeamOps, ZenonT(60)
  <2>3. \A n \in 1 .. size :
          /\ seeded[n].max_size_ = max_size /\ seeded[n].run = input_data_.run
          /\ seeded[n].num_steps_ = 0 /\ seeded[n].rows = 0 + 1
    BY <2>1, ZenonT(60) DEF BeamInit, NewBeam
  <2> QED
    BY <2>2, <2>3 DEF HistoryInStep
<1>5. seeded \in [1 .. size -> BeamState]
  BY <1>4, Zenon
<1>6. seeded \in Seq(BeamState) /\ Len(seeded) = size /\ DOMAIN seeded = 1 .. size
  <2> HIDE DEF seeded
  <2> QED
    BY <1>1, <1>5, TableIsSeq
<1>7. d = [c EXCEPT !.input_data_ = input_data_.run, !.max_beam_size_ = max_size,
                    !.batch_ = seeded]
  BY DEF SyntaxNetInitializeData, size, batch
<1> HIDE DEF seeded, d
<1>8. /\ d \in Component /\ d.backend = "syntaxnet" /\ d.do_tracing_ = c.do_tracing_
      /\ d.batch_ = seeded /\ d.max_beam_size_ = max_size /\ d.input_data_ = input_data_.run
  BY <1>1, <1>6, <1>7, Zenon DEF Component
<1>9. Filled(d, input_data_.run, size)
  BY <1>4, <1>6, <1>8 DEF Filled
<1> QED
  BY <1>8, <1>9 DEF d, size
(* InitializeTracing gives every state a trace and keeps the rest. *)
LEMMA TracingKeeps ==
  ASSUME NEW c \in Component
  PROVE  LET d == InitializeTracing(c)
         IN  /\ d \in Component
             /\ d.backend = c.backend /\ d.do_tracing_ /\ d.parent_states_ = c.parent_states_
             /\ \A n \in DOMAIN d.batch_ : d.batch_[n].trace
             /\ d.batch_ = <<>> <=> c.batch_ = <<>>
             /\ \A id, size : Filled(c, id, size) => Filled(d, id, size)
<1> DEFINE traced == [n \in DOMAIN c.batch_ |-> [c.batch_[n] EXCEPT !.trace = TRUE]]
           d == InitializeTracing(c)
<1>1. /\ Len(c.batch_) \in Nat /\ DOMAIN c.batch_ = 1 .. Len(c.batch_)
      /\ c.batch_ \in Seq(BeamState)
      /\ \A n \in DOMAIN c.batch_ : c.batch_[n] \in BeamState
  BY LenProperties DEF Component
<1>2. \A n \in DOMAIN c.batch_ :
        /\ traced[n] \in BeamState
        /\ traced[n].trace
        /\ traced[n].max_size_ = c.batch_[n].max_size_
        /\ traced[n].run = c.batch_[n].run
        /\ traced[n].num_steps_ = c.batch_[n].num_steps_
        /\ traced[n].rows = c.batch_[n].rows
  BY <1>1, Zenon DEF BeamState
<1>3. traced \in [1 .. Len(c.batch_) -> BeamState]
  BY <1>1, <1>2, Zenon
<1>4. d = [c EXCEPT !.do_tracing_ = TRUE, !.batch_ = traced]
  BY DEF InitializeTracing
<1> HIDE DEF traced, d
<1>5. traced \in Seq(BeamState) /\ Len(traced) = Len(c.batch_) /\ DOMAIN traced = DOMAIN c.batch_
  BY <1>1, <1>3, TableIsSeq
<1>6. /\ d \in Component /\ d.backend = c.backend /\ d.do_tracing_
      /\ d.parent_states_ = c.parent_states_ /\ d.batch_ = traced
      /\ d.max_beam_size_ = c.max_beam_size_ /\ d.input_data_ = c.input_data_
  BY <1>4, <1>5, Zenon DEF Component
<1>7. d.batch_ = <<>> <=> c.batch_ = <<>>
  BY <1>1, <1>5, <1>6, EmptySeq
<1>8. ASSUME NEW id, NEW size, Filled(c, id, size)
      PROVE  Filled(d, id, size)
  BY <1>2, <1>5, <1>6, <1>8, ZenonT(60) DEF Filled, HistoryInStep
<1>9. \A n \in DOMAIN d.batch_ : d.batch_[n].trace
  BY <1>2, <1>5, <1>6, Zenon
<1> QED
  BY <1>6, <1>7, <1>8, <1>9, Zenon DEF d

(* DisableTracing changes the flag only. *)
LEMMA DisableKeeps ==
  ASSUME NEW c \in Component
  PROVE  LET d == DisableTracing(c)
         IN  /\ d \in Component
             /\ ~d.do_tracing_
             /\ d.backend = c.backend /\ d.batch_ = c.batch_
             /\ d.max_beam_size_ = c.max_beam_size_
             /\ d.parent_states_ = c.parent_states_
BY Zenon DEF DisableTracing, Component

(* ResetComponent leaves no states and beam size 0. *)
LEMMA ResetCleans ==
  ASSUME NEW i \in Indices, components_[i] \in Component
  PROVE  LET c == components_[i]
             d == ResetComponent(i)
         IN  /\ d \in Component
             /\ d.backend = c.backend /\ d.do_tracing_ = c.do_tracing_
             /\ Clean(d)
             /\ c.backend = "stateless" => d.batch_ = c.batch_
<1> DEFINE c == components_[i]
           d == ResetComponent(i)
<1>1. CASE c.backend = "stateless"
  <2>1. d = c /\ d.backend # "syntaxnet"
    BY <1>1 DEF ResetComponent, SyntaxNet
  <2> QED
    BY <2>1, <1>1 DEF Clean
<1>2. CASE c.backend = "syntaxnet"
  <2> DEFINE reset == [n \in DOMAIN c.batch_ |-> BeamReset(c.batch_[n])]
  <2>1. /\ Len(c.batch_) \in Nat /\ DOMAIN c.batch_ = 1 .. Len(c.batch_)
        /\ \A n \in DOMAIN c.batch_ : c.batch_[n] \in BeamState
    BY LenProperties DEF Component
  <2>2. \A n \in DOMAIN c.batch_ : reset[n] \in BeamState /\ reset[n].run = 0
    BY <2>1, BeamOps, Zenon DEF BeamReset, NewBeam
  <2>3. reset \in [1 .. Len(c.batch_) -> BeamState]
    BY <2>1, <2>2, Zenon
  <2>4. d = [c EXCEPT !.batch_ = reset, !.input_data_ = 0, !.max_beam_size_ = 0]
    BY <1>2 DEF ResetComponent, SyntaxNet
  <2> HIDE DEF reset, c, d
  <2>5. reset \in Seq(BeamState) /\ DOMAIN reset = DOMAIN c.batch_
    BY <2>1, <2>3, TableIsSeq
  <2>6. 0 \in Nat
    OBVIOUS
  <2>7. c \in Component
    BY DEF c
  <2>8. /\ d \in Component /\ d.backend = c.backend /\ d.do_tracing_ = c.do_tracing_
        /\ d.batch_ = reset /\ d.max_beam_size_ = 0
    BY <2>4, <2>5, <2>6, <2>7, Zenon DEF Component
  <2>9. Clean(d)
    BY <2>2, <2>5, <2>8, Zenon DEF Clean
  <2> QED
    BY <1>2, <2>8, <2>9, Zenon DEF c, d
<1>3. c.backend \in {"syntaxnet", "stateless"}
  BY DEF Component
<1> QED
  BY <1>1, <1>2, <1>3, Zenon

(* A component whose beams have been advanced, some of them, by a step. *)
Advanced(c, d) ==
  /\ d \in Component
  /\ d.backend = c.backend /\ d.do_tracing_ = c.do_tracing_
  /\ d.parent_states_ = c.parent_states_
  /\ d.batch_ = <<>> <=> c.batch_ = <<>>
  /\ DOMAIN d.batch_ = DOMAIN c.batch_
  /\ \A n \in DOMAIN d.batch_ : d.batch_[n].trace = c.batch_[n].trace
  /\ \A id, size : Filled(c, id, size) => Filled(d, id, size)

LEMMA AdvancingKeeps ==
  ASSUME NEW c \in Component, NEW batch,
         DOMAIN batch = DOMAIN c.batch_,
         batch = [n \in DOMAIN batch |-> batch[n]],
         \A n \in DOMAIN c.batch_ :
           \/ batch[n] = c.batch_[n]
           \/ \E left \in Nat : batch[n] = BeamAdvance(c.batch_[n], left)
  PROVE  Advanced(c, [c EXCEPT !.batch_ = batch])
<1> DEFINE d == [c EXCEPT !.batch_ = batch]
<1>1. /\ Len(c.batch_) \in Nat /\ DOMAIN c.batch_ = 1 .. Len(c.batch_)
      /\ c.batch_ \in Seq(BeamState)
      /\ \A n \in DOMAIN c.batch_ : c.batch_[n] \in BeamState
  BY LenProperties DEF Component
<1>2. \A n \in DOMAIN c.batch_ :
        /\ batch[n] \in BeamState
        /\ batch[n].trace = c.batch_[n].trace
        /\ batch[n].max_size_ = c.batch_[n].max_size_
        /\ batch[n].run = c.batch_[n].run
        /\ HistoryInStep(c.batch_[n]) => HistoryInStep(batch[n])
  <2> TAKE n \in DOMAIN c.batch_
  <2>1. CASE batch[n] = c.batch_[n]
    BY <2>1, <1>1, Zenon
  <2>2. ASSUME NEW left \in Nat, batch[n] = BeamAdvance(c.batch_[n], left)
        PROVE  /\ batch[n] \in BeamState
               /\ batch[n].trace = c.batch_[n].trace
               /\ batch[n].max_size_ = c.batch_[n].max_size_
               /\ batch[n].run = c.batch_[n].run
               /\ HistoryInStep(c.batch_[n]) => HistoryInStep(batch[n])
    <3> DEFINE beam == c.batch_[n]
    <3>1. beam \in BeamState
      BY <1>1
    <3> HIDE DEF beam
    <3>2. /\ BeamAdvance(beam, left) \in BeamState
          /\ BeamAdvance(beam, left).max_size_ = beam.max_size_
          /\ BeamAdvance(beam, left).run = beam.run
          /\ BeamAdvance(beam, left).trace = beam.trace
          /\ HistoryInStep(beam) => HistoryInStep(BeamAdvance(beam, left))
      BY <3>1, AdvanceKeeps
    <3> QED
      BY <2>2, <3>2, Zenon DEF beam
  <2> QED
    BY <2>1, <2>2, Zenon
<1>3. batch \in [1 .. Len(c.batch_) -> BeamState]
  BY <1>1, <1>2, Zenon
<1>4. batch \in Seq(BeamState) /\ Len(batch) = Len(c.batch_)
  BY <1>1, <1>3, TableIsSeq
<1>5. /\ d \in Component /\ d.backend = c.backend /\ d.do_tracing_ = c.do_tracing_
      /\ d.parent_states_ = c.parent_states_ /\ d.batch_ = batch
      /\ d.max_beam_size_ = c.max_beam_size_ /\ d.input_data_ = c.input_data_
  BY <1>4, Zenon DEF Component
<1> HIDE DEF d
<1>6. d.batch_ = <<>> <=> c.batch_ = <<>>
  BY <1>1, <1>4, <1>5, EmptySeq
<1>7. ASSUME NEW id, NEW size, Filled(c, id, size)
      PROVE  Filled(d, id, size)
  BY <1>2, <1>4, <1>5, <1>7, Zenon DEF Filled
<1> QED
  BY <1>2, <1>5, <1>6, <1>7, Zenon DEF d, Advanced
-----------------------------------------------------------------------------
(* A step that keeps every component's backend keeps the pipeline. *)
LEMMA SamePipeline ==
  ASSUME PipelineFits,
         DOMAIN components_' = Indices,
         \A i \in Indices : components_'[i].backend = components_[i].backend
  PROVE  /\ Indices' = Indices /\ Backends' = Backends
         /\ \A i \in Indices : SyntaxNet(i)' <=> SyntaxNet(i)
<1>1. Indices' = Indices
  BY DEF Indices
<1>2. Backends' = Backends
  BY <1>1 DEF Backends
<1>3. \A i \in Indices : SyntaxNet(i)' <=> SyntaxNet(i)
  BY DEF SyntaxNet
<1> QED
  BY <1>1, <1>2, <1>3

(* What the running graph says of the pipeline. *)
LEMMA GraphFits ==
  ASSUME PipelineFits, Types
  PROVE  /\ Indices = 1 .. Len(components_) /\ Len(components_) \in Nat
         /\ \A i \in Indices : components_[i] \in Component
         /\ run.pc # "get_session" =>
              /\ run.graph.upto \in Indices
              /\ ~run.graph.training => run.graph.upto = Len(components_)
              /\ \A i \in Indices : run.graph.pipeline[i] = components_[i].backend
              /\ Len(run.graph.pipeline) = Len(components_)
              /\ DOMAIN run.graph.pipeline = Indices
         /\ AllSupported => (1 \in Indices => SyntaxNet(1))
<1>1. /\ Indices = 1 .. Len(components_) /\ Len(components_) \in Nat
      /\ \A i \in Indices : components_[i] \in Component
  BY LenProperties DEF Indices, Types
<1>2. ASSUME NEW graph \in Graphs, Backends = graph.pipeline
      PROVE  /\ DOMAIN graph.pipeline = Indices
             /\ \A i \in Indices : graph.pipeline[i] = components_[i].backend
             /\ Len(graph.pipeline) = Len(components_)
             /\ graph.upto \in Indices
             /\ ~graph.training => graph.upto = Len(components_)
  <2>1. /\ DOMAIN graph.pipeline = Indices
        /\ \A i \in Indices : graph.pipeline[i] = components_[i].backend
    BY <1>2 DEF Backends
  <2>2. /\ graph.upto \in DOMAIN graph.pipeline
        /\ ~graph.training => graph.upto = Len(graph.pipeline)
        /\ graph.pipeline \in Seq({"syntaxnet", "stateless"})
    BY GraphsAssumption
  <2>3. Len(graph.pipeline) \in Nat /\ DOMAIN graph.pipeline = 1 .. Len(graph.pipeline)
    BY <2>2, LenProperties
  <2>4. Len(graph.pipeline) = Len(components_)
    BY <1>1, <2>1, <2>3
  <2> QED
    BY <2>1, <2>2, <2>4
<1>3. ASSUME AllSupported, 1 \in Indices
      PROVE  SyntaxNet(1)
  <2>1. PICK graph \in Graphs : Backends = graph.pipeline
    BY DEF PipelineFits
  <2>2. Supported(graph)
    BY <1>3 DEF AllSupported
  <2> QED
    BY <2>1, <2>2, <1>2, <1>3 DEF Supported, SyntaxNet
<1>4. run.pc # "get_session" => run.graph \in Graphs /\ Backends = run.graph.pipeline
  BY DEF PipelineFits
<1> QED
  BY <1>1, <1>2, <1>3, <1>4

LEMMA InitIndInv == Init => IndInv
<1> SUFFICES ASSUME Init
             PROVE  IndInv
  OBVIOUS
<1>1. PICK graph \in Graphs : components_ = NewPipeline(graph.pipeline)
  BY DEF Init
<1> DEFINE n == Len(graph.pipeline)
<1>2. /\ graph.pipeline \in Seq({"syntaxnet", "stateless"})
      /\ n \in Nat /\ DOMAIN graph.pipeline = 1 .. n
      /\ \A i \in 1 .. n : graph.pipeline[i] \in {"syntaxnet", "stateless"}
  BY GraphsAssumption, LenProperties
<1> HIDE DEF n
<1>3. 0 \in Nat /\ <<>> \in Seq(BeamState) /\ <<>> \in Seq(Nat) /\ <<>> \in Seq(SUBSET Nat)
      /\ 1 \in Nat \ {0} /\ Len(<<>>) = 0 /\ DOMAIN <<>> = {}
  OBVIOUS
<1>4. \A backend \in {"syntaxnet", "stateless"} :
        /\ NewComponent(backend) \in Component
        /\ NewComponent(backend).backend = backend
        /\ NewComponent(backend).batch_ = <<>>
        /\ NewComponent(backend).max_beam_size_ = 0
        /\ ~NewComponent(backend).do_tracing_
  BY <1>3, Zenon DEF NewComponent, Component
<1>5. /\ Indices = 1 .. n
      /\ \A i \in 1 .. n : components_[i] = NewComponent(graph.pipeline[i])
      /\ components_ = [i \in 1 .. n |-> components_[i]]
  BY <1>1, <1>2, Zenon DEF NewPipeline, Indices
<1>6. components_ \in [1 .. n -> Component]
  BY <1>2, <1>4, <1>5, Zenon
<1>7. components_ \in Seq(Component)
  BY <1>2, <1>6, TableIsSeq
<1>8. /\ run.id = 1 /\ run.pc = "get_session" /\ run.inited = {} /\ run.graph = NoGraph
      /\ run \in Run
  BY <1>3, Zenon DEF Init, NewRun, Run
<1>9. input_data_ \in InputBatch /\ input_data_.run = 0 /\ do_tracing_ = FALSE
      /\ input_data_.sentences = <<>> /\ input_data_.written = <<>>
  BY <1>3, Zenon DEF Init, NoInput, InputBatch
<1>10. Types
  BY <1>7, <1>8, <1>9, Zenon DEF Types
<1>11. Backends = graph.pipeline
  <2>1. \A i \in 1 .. n : Backends[i] = graph.pipeline[i]
    BY <1>2, <1>4, <1>5, Zenon DEF Backends
  <2>2. Backends \in [1 .. n -> {"syntaxnet", "stateless"}]
    BY <2>1, <1>2, <1>5, Zenon DEF Backends
  <2>3. Backends \in Seq({"syntaxnet", "stateless"}) /\ Len(Backends) = n
    BY <2>2, <1>2, TableIsSeq
  <2> QED
    BY <2>1, <2>3, <1>2, SeqEqual DEF n
<1>12. PipelineFits
  BY <1>8, <1>11, Zenon DEF PipelineFits
<1>13. Progress
  BY <1>8, <1>9 DEF Progress
<1>14. ComponentsFit
  BY <1>2, <1>3, <1>4, <1>5, <1>8, ZenonT(60) DEF ComponentsFit, Clean
<1>15. Written
  BY <1>3, <1>8, <1>9, Zenon DEF Written
<1>16. TracingFits
  BY <1>2, <1>4, <1>5, <1>8, <1>9, ZenonT(60) DEF TracingFits
<1>17. ChecksHold
  BY <1>8, Zenon DEF ChecksHold, Init
<1> QED
  BY <1>10, <1>12, <1>13, <1>14, <1>15, <1>16, <1>17 DEF IndInv
LEMMA SetTracingIndInv ==
  ASSUME IndInv, NEW graph \in Graphs, SetTracing(graph)
  PROVE  IndInv'
<1> USE DEF IndInv
<1>1. /\ run.pc = "get_session" /\ run.inited = {} /\ input_data_.run = 0
      /\ input_data_' = input_data_ /\ fatal' = fatal
      /\ do_tracing_' = (graph.tracing = "on")
      /\ run' = [run EXCEPT !.pc = "attach", !.graph = graph]
      /\ graph.pipeline = [i \in Indices |-> components_[i].backend]
  BY Zenon DEF SetTracing, At, Starts, Progress
<1>2. /\ run'.id = run.id /\ run'.pc = "attach" /\ run'.graph = graph /\ run'.inited = {}
      /\ run' \in Run
  BY <1>1, Zenon DEF Types, Run
<1>3. /\ Indices = 1 .. Len(components_) /\ Len(components_) \in Nat
      /\ \A i \in Indices : components_[i] \in Component
  BY GraphFits
<1>4. /\ DOMAIN components_' = Indices
      /\ components_' = [i \in Indices |-> components_'[i]]
      /\ \A i \in Indices :
           /\ components_'[i] \in Component
           /\ components_'[i].backend = components_[i].backend
           /\ components_'[i].batch_ = components_[i].batch_
           /\ components_'[i].max_beam_size_ = components_[i].max_beam_size_
           /\ components_'[i].do_tracing_ => graph.tracing = "on"
  <2>1. CASE graph.tracing = "on"
    <3>1. components_' = components_ /\ DOMAIN components_ = Indices
      BY <2>1, Zenon DEF SetTracing, Indices
    <3>2. components_ \in [Indices -> Component]
      BY <1>3, LenProperties DEF Types
    <3> QED
      BY <3>1, <3>2, <1>3, <2>1, Zenon
  <2>2. CASE graph.tracing # "on"
    <3>1. components_' = [i \in Indices |-> DisableTracing(components_[i])]
      BY <2>2, Zenon DEF SetTracing
    <3> QED
      BY <3>1, <1>3, <2>2, DisableKeeps, Zenon
  <2> QED
    BY <2>1, <2>2
<1>5. components_' \in [1 .. Len(components_) -> Component]
  BY <1>3, <1>4, Zenon
<1>6. components_' \in Seq(Component)
  BY <1>3, <1>5, TableIsSeq
<1>7. Types'
  <2>1. do_tracing_' \in BOOLEAN
    BY <1>1
  <2> QED
    BY <1>1, <1>2, <1>6, <2>1, Zenon DEF Types
<1>8. /\ Indices' = Indices /\ Backends' = Backends
      /\ \A i \in Indices : SyntaxNet(i)' <=> SyntaxNet(i)
  BY <1>4, SamePipeline
<1>9. PipelineFits'
  BY <1>1, <1>2, <1>8, Zenon DEF PipelineFits, Backends
<1>10. Progress'
  BY <1>1, <1>2 DEF Progress
<1>11. ComponentsFit'
  <2>1. \A i \in Indices : Clean(components_[i]) => Clean(components_'[i])
    BY <1>4 DEF Clean
  <2> QED
    BY <1>1, <1>2, <1>4, <1>8, <2>1, ZenonT(60) DEF ComponentsFit
<1>12. Written'
  BY <1>1, <1>2, Zenon DEF Written
<1>13. TracingFits'
  BY <1>1, <1>2, <1>4, <1>8, Zenon DEF TracingFits
<1>14. AllSupported => ChecksHold'
  BY <1>1, <1>2, <1>8, Zenon DEF ChecksHold
<1> QED
  BY <1>7, <1>9, <1>10, <1>11, <1>12, <1>13, <1>14 DEF AllSupported

LEMMA AttachIndInv ==
  ASSUME IndInv, NEW graph \in Graphs, NEW batch \in Batches, AttachDataReader(graph, batch)
  PROVE  IndInv'
<1> USE DEF IndInv
<1>1. /\ run.pc \in {"get_session", "attach"} /\ run.inited = {}
      /\ do_tracing_' = do_tracing_ /\ components_' = components_ /\ fatal' = fatal
      /\ input_data_' = [sentences |-> batch, converted |-> FALSE, run |-> run.id,
                         written |-> [n \in DOMAIN batch |-> {}]]
      /\ run' = [run EXCEPT !.pc = "init", !.graph = graph, !.at = 1]
  BY Zenon DEF AttachDataReader, At, Progress
<1>2. Backends = graph.pipeline
  BY Zenon DEF AttachDataReader, At, Starts, Backends, PipelineFits
<1>3. graph.tracing = "on" => do_tracing_
  BY Zenon DEF AttachDataReader, At, TracingFits
<1>4. 1 \in Nat /\ run.id \in Nat /\ run.id # 0
  BY DEF Types, Run
<1>5. /\ run'.id = run.id /\ run'.pc = "init" /\ run'.graph = graph /\ run'.at = 1
      /\ run'.inited = {} /\ run' \in Run
  BY <1>1, <1>4, Zenon DEF Types, Run
<1>6. batch \in Seq(Nat) /\ Len(batch) \in Nat /\ DOMAIN batch = 1 .. Len(batch)
  BY BatchesAssumption, LenProperties
<1>7. /\ [n \in DOMAIN batch |-> {}] \in Seq(SUBSET Nat)
      /\ Len([n \in DOMAIN batch |-> {}]) = Len(batch)
  <2> DEFINE written == [n \in DOMAIN batch |-> {}]
  <2>1. written \in [1 .. Len(batch) -> SUBSET Nat]
    BY <1>6
  <2> HIDE DEF written
  <2>2. written \in Seq(SUBSET Nat) /\ Len(written) = Len(batch)
    BY <2>1, <1>6, TableIsSeq
  <2> QED
    BY <2>2 DEF written
<1>8. /\ input_data_' \in InputBatch /\ input_data_'.run = run.id
      /\ input_data_'.sentences = batch
      /\ input_data_'.written = [n \in DOMAIN batch |-> {}]
  BY <1>1, <1>4, <1>6, <1>7, Zenon DEF InputBatch
<1>9. Types'
  BY <1>1, <1>5, <1>8, Zenon DEF Types
<1>10. /\ Indices' = Indices /\ Backends' = Backends
       /\ \A i : SyntaxNet(i)' <=> SyntaxNet(i)
  BY <1>1, Zenon DEF Indices, Backends, SyntaxNet
<1>11. PipelineFits'
  BY <1>2, <1>5, <1>10, Zenon DEF PipelineFits
<1>12. graph.upto \in Nat /\ 1 <= graph.upto
  BY GraphsAssumption, LenProperties
<1>13. Progress'
  BY <1>1, <1>5, <1>8, <1>12 DEF Progress
<1>14. ComponentsFit'
  BY <1>1, <1>5, <1>10, Zenon DEF ComponentsFit
<1>15. Written'
  <2>1. 1 .. (1 - 1) = {}
    OBVIOUS
  <2> QED
    BY <1>5, <1>7, <1>8, <2>1, Zenon DEF Written
<1>16. TracingFits'
  BY <1>1, <1>3, <1>5, <1>10, Zenon DEF TracingFits
<1>17. AllSupported => ChecksHold'
  BY <1>1, <1>5, <1>10, Zenon DEF ChecksHold
<1> QED
  BY <1>9, <1>11, <1>13, <1>14, <1>15, <1>16, <1>17 DEF AllSupported

LEMMA ResetIndInv ==
  ASSUME IndInv, ResetSession
  PROVE  IndInv'
<1> USE DEF IndInv
<1>1. /\ components_' = [i \in Indices |-> ResetComponent(i)]
      /\ input_data_' = NoInput /\ run' = NewRun(run.id + 1)
      /\ do_tracing_' = do_tracing_ /\ fatal' = fatal
  BY Zenon DEF ResetSession
<1>2. run.id + 1 \in Nat \ {0} /\ 0 \in Nat
  BY DEF Types, Run
<1>3. /\ run'.pc = "get_session" /\ run'.inited = {} /\ run' \in Run
  BY <1>1, <1>2, Zenon DEF NewRun, Run
<1>4. <<>> \in Seq(Nat) /\ <<>> \in Seq(SUBSET Nat) /\ Len(<<>>) = 0 /\ DOMAIN <<>> = {}
  OBVIOUS
<1>5. /\ input_data_' \in InputBatch /\ input_data_'.run = 0
      /\ input_data_'.sentences = <<>> /\ input_data_'.written = <<>>
  BY <1>1, <1>2, <1>4, Zenon DEF NoInput, InputBatch
<1>6. /\ Indices = 1 .. Len(components_) /\ Len(components_) \in Nat
      /\ \A i \in Indices : components_[i] \in Component
  BY GraphFits
<1>7. /\ DOMAIN components_' = Indices
      /\ \A i \in Indices :
           /\ components_'[i] \in Component
           /\ components_'[i].backend = components_[i].backend
           /\ components_'[i].do_tracing_ = components_[i].do_tracing_
           /\ Clean(components_'[i])
           /\ components_[i].backend = "stateless" =>
                components_'[i].batch_ = components_[i].batch_
  BY <1>1, <1>6, ResetCleans, Zenon
<1>8. components_' \in [1 .. Len(components_) -> Component]
  BY <1>1, <1>6, <1>7, Zenon
<1>9. components_' \in Seq(Component)
  BY <1>6, <1>8, TableIsSeq
<1>10. Types'
  BY <1>1, <1>3, <1>5, <1>9, Zenon DEF Types
<1>11. /\ Indices' = Indices /\ Backends' = Backends
       /\ \A i \in Indices : SyntaxNet(i)' <=> SyntaxNet(i)
  BY <1>7, SamePipeline
<1>12. PipelineFits'
  BY <1>3, <1>11, Zenon DEF PipelineFits
<1>13. Progress'
  BY <1>3, <1>5 DEF Progress
<1>14. ComponentsFit'
  BY <1>3, <1>7, <1>11, Zenon DEF ComponentsFit
<1>15. Written'
  BY <1>3, <1>5, Zenon DEF Written
<1>16. TracingFits'
  BY <1>1, <1>3, <1>7, <1>11, Zenon DEF TracingFits
<1>17. AllSupported => ChecksHold'
  BY <1>1, <1>3, Zenon DEF ChecksHold
<1> QED
  BY <1>10, <1>12, <1>13, <1>14, <1>15, <1>16, <1>17 DEF AllSupported
(* The states that an initialized component hands to the next one: one per      *)
(* sentence, and all of this run.                                             *)
LEMMA GetBeamIsOfThisRun ==
  ASSUME IndInv, AllSupported, NEW i \in Indices, i \in run.inited
  PROVE  /\ Len(GetBeam(i)) = Len(input_data_.sentences)
         /\ \A n \in DOMAIN GetBeam(i) : GetBeam(i)[n] = run.id
<1> USE DEF IndInv
<1>1. components_[i] \in Component
  BY GraphFits
<1>2. CASE SyntaxNet(i)
  <2> DEFINE batch == components_[i].batch_
  <2>1. GetBeam(i) = [n \in DOMAIN batch |-> batch[n].run]
    BY <1>2 DEF GetBeam
  <2>2. batch \in Seq(BeamState) /\ Len(batch) \in Nat /\ DOMAIN batch = 1 .. Len(batch)
    BY <1>1, LenProperties DEF Component
  <2>3. Len(batch) = Len(input_data_.sentences) /\ \A n \in DOMAIN batch : batch[n].run = run.id
    BY <1>2, Zenon DEF ComponentsFit, Filled, SyntaxNet
  <2> HIDE DEF batch
  <2>4. GetBeam(i) \in [1 .. Len(batch) -> {run.id}]
    BY <2>1, <2>2, <2>3
  <2>5. Len(GetBeam(i)) = Len(batch)
    BY <2>2, <2>4, TableIsSeq
  <2> QED
    BY <2>3, <2>4, <2>5
<1>3. CASE ~SyntaxNet(i)
  <2>1. GetBeam(i) = components_[i].parent_states_
    BY <1>3 DEF GetBeam
  <2>2. ChecksHold
    OBVIOUS
  <2> QED
    BY <1>3, <2>1, <2>2 DEF ChecksHold
<1> QED
  BY <1>2, <1>3

(* One action lemma for the two ops that write nothing to the components. *)
LEMMA OutputIndInv ==
  ASSUME IndInv,
         run.pc \in {"trace", "emit"}, NEW pc \in {"emit", "release"},
         run' = [run EXCEPT !.pc = pc],
         UNCHANGED <<input_data_, do_tracing_, components_>>,
         AllSupported => fatal' = "none"
  PROVE  IndInv'
<1> USE DEF IndInv
<1>1. /\ run'.id = run.id /\ run'.pc = pc /\ run'.graph = run.graph /\ run'.at = run.at
      /\ run'.inited = run.inited /\ run' \in Run
  BY Zenon DEF Types, Run
<1>2. /\ Indices' = Indices /\ Backends' = Backends
      /\ \A i : SyntaxNet(i)' <=> SyntaxNet(i)
  BY Zenon DEF Indices, Backends, SyntaxNet
<1>3. Types'
  BY <1>1, Zenon DEF Types
<1>4. PipelineFits'
  BY <1>1, <1>2, Zenon DEF PipelineFits
<1>5. Progress'
  BY <1>1 DEF Progress
<1>6. ComponentsFit'
  BY <1>1, <1>2, Zenon DEF ComponentsFit
<1>7. Written'
  <2>1. {i \in 1 .. run.at : SyntaxNet(i)}' = {i \in 1 .. run.at : SyntaxNet(i)}
    BY <1>1, <1>2
  <2>2. run.pc \notin {"get_session", "attach", "init", "loop", "failed"}
        /\ run'.pc \notin {"get_session", "attach", "init", "loop", "failed"}
    BY <1>1
  <2> QED
    BY <1>1, <2>1, <2>2, Zenon DEF Written
<1>8. TracingFits'
  BY <1>1, <1>2, Zenon DEF TracingFits
<1>9. AllSupported => ChecksHold'
  BY <1>1, <1>2, Zenon DEF ChecksHold
<1> QED
  BY <1>3, <1>4, <1>5, <1>6, <1>7, <1>8, <1>9 DEF AllSupported

LEMMA TracesIndInv ==
  ASSUME IndInv, GetTraceProtos
  PROVE  IndInv'
<1> USE DEF IndInv
<1> DEFINE last == Len(components_)
           final == GetBeam(last)
           holds == /\ 0 \notin Range(final)
                    /\ \A i \in Indices :
                         /\ DOMAIN final \subseteq DOMAIN components_[i].batch_
                         /\ \A n \in DOMAIN components_[i].batch_ :
                              LET beam == components_[i].batch_[n]
                              IN  beam.run # 0 => beam.trace /\ HistoryInStep(beam)
<1>1. /\ run.pc = "trace" /\ run' = [run EXCEPT !.pc = Output]
      /\ UNCHANGED <<input_data_, do_tracing_, components_>>
  BY Zenon DEF GetTraceProtos, At
<1>2. ASSUME AllSupported
      PROVE  holds
  <2>1. run.graph \in Graphs /\ run.graph.tracing = "on" /\ Supported(run.graph)
    BY <1>1, <1>2 DEF PipelineFits, AllSupported, Progress
  <2>2. /\ Indices = 1 .. last /\ last \in Nat /\ run.graph.upto \in Indices
        /\ run.graph.upto = last
        /\ \A i \in Indices : SyntaxNet(i) /\ components_[i] \in Component
    BY <1>1, <2>1, GraphFits DEF Supported, SyntaxNet
  <2>3. run.inited = Indices /\ do_tracing_ /\ run.id # 0 /\ last \in Indices
    BY <1>1, <2>1, <2>2 DEF Progress, TracingFits, Types, Run
  <2>4. \A i \in Indices :
          /\ DOMAIN components_[i].batch_ = 1 .. Len(input_data_.sentences)
          /\ \A n \in DOMAIN components_[i].batch_ :
               components_[i].batch_[n].trace /\ HistoryInStep(components_[i].batch_[n])
    <3> TAKE i \in Indices
    <3>1. /\ Len(components_[i].batch_) = Len(input_data_.sentences)
          /\ \A n \in DOMAIN components_[i].batch_ : HistoryInStep(components_[i].batch_[n])
      BY <2>2, <2>3, Zenon DEF ComponentsFit, Filled, SyntaxNet
    <3>2. \A n \in DOMAIN components_[i].batch_ : components_[i].batch_[n].trace
      BY <2>2, <2>3, Zenon DEF TracingFits
    <3>3. DOMAIN components_[i].batch_ = 1 .. Len(components_[i].batch_)
      BY <2>2, LenProperties DEF Component
    <3> QED
      BY <3>1, <3>2, <3>3, Zenon
  <2>5. /\ \A n \in DOMAIN final : final[n] = run.id
        /\ DOMAIN final = 1 .. Len(input_data_.sentences)
    <3>1. /\ \A n \in DOMAIN final : final[n] = run.id
      BY <1>2, <2>3, GetBeamIsOfThisRun, Zenon
    <3>2. DOMAIN final = DOMAIN components_[last].batch_
      BY <2>2, <2>3 DEF GetBeam
    <3> QED
      BY <2>3, <2>4, <3>1, <3>2, Zenon
  <2> HIDE DEF final, last
  <2>6. 0 \notin Range(final)
    BY <2>3, <2>5 DEF Range
  <2> QED
    BY <2>4, <2>5, <2>6, Zenon
<1> DEFINE outcome == Must("no trace", holds)
<1>3. Check(<<outcome>>)
  BY Zenon DEF GetTraceProtos
<1>4. AllSupported => fatal' = "none"
  <2>1. AllSupported => outcome = "none"
    BY <1>2, Zenon DEF Must
  <2> HIDE DEF outcome
  <2> QED
    BY <2>1, <1>3 DEF Check
<1>5. Output \in {"emit", "release"}
  BY DEF Output
<1> QED
  BY <1>1, <1>4, <1>5, OutputIndInv

LEMMA PredictionsIndInv ==
  ASSUME IndInv, GetSerializedPredictions
  PROVE  IndInv'
<1> USE DEF IndInv
<1>1. /\ run.pc = "emit" /\ run' = [run EXCEPT !.pc = "release"]
      /\ UNCHANGED <<input_data_, do_tracing_, components_>>
  BY Zenon DEF GetSerializedPredictions, At
<1>2. AllSupported => input_data_.converted
  <2>1. run.inited = 1 .. run.at /\ run.at \in 1 .. run.graph.upto
    BY <1>1 DEF Progress
  <2>2. run.graph.upto \in Nat
    BY <1>1, GraphFits
  <2>3. run.inited # {}
    BY <2>1, <2>2
  <2> QED
    BY <2>3, Zenon DEF ChecksHold
<1>3. AllSupported => fatal' = "none"
  <2> DEFINE outcome == Must("no converted data", input_data_.converted)
  <2>1. Check(<<outcome>>)
    BY Zenon DEF GetSerializedPredictions
  <2>2. AllSupported => outcome = "none"
    BY <1>2, Zenon DEF Must
  <2> HIDE DEF outcome
  <2> QED
    BY <2>1, <2>2 DEF Check
<1> QED
  BY <1>1, <1>3, OutputIndInv
(* A step that writes component i only, and not its backend. *)
LEMMA OneComponent ==
  ASSUME Types, PipelineFits, NEW i \in Indices, NEW d \in Component,
         d.backend = components_[i].backend,
         components_' = [components_ EXCEPT ![i] = d]
  PROVE  /\ components_' \in Seq(Component)
         /\ Indices' = Indices /\ Backends' = Backends
         /\ \A j \in Indices : SyntaxNet(j)' <=> SyntaxNet(j)
         /\ components_'[i] = d
         /\ \A j \in Indices : j # i => components_'[j] = components_[j]
<1>1. /\ Indices = 1 .. Len(components_) /\ Len(components_) \in Nat
      /\ components_ \in [Indices -> Component]
  BY LenProperties DEF Types, Indices
<1>2. components_' \in [1 .. Len(components_) -> Component]
  BY <1>1, Zenon
<1>3. /\ DOMAIN components_' = Indices /\ components_'[i] = d
      /\ \A j \in Indices : j # i => components_'[j] = components_[j]
  BY <1>1, Zenon
<1>4. components_' \in Seq(Component)
  BY <1>1, <1>2, TableIsSeq
<1>5. \A j \in Indices : components_'[j].backend = components_[j].backend
  BY <1>3, Zenon
<1> QED
  BY <1>3, <1>4, <1>5, SamePipeline, Zenon

(* What an advance of component i, of all or of some beams, preserves. *)
LEMMA AdvanceIndInv ==
  ASSUME IndInv, NEW i \in Indices, run.pc = "loop", i = run.at,
         NEW d, Advanced(components_[i], d), components_' = [components_ EXCEPT ![i] = d],
         NEW pc \in {"loop", "failed"}, run' = [run EXCEPT !.pc = pc],
         UNCHANGED <<input_data_, do_tracing_>>,
         AllSupported => fatal' = "none"
  PROVE  IndInv'
<1> USE DEF IndInv
<1>1. /\ run'.id = run.id /\ run'.pc = pc /\ run'.graph = run.graph /\ run'.at = run.at
      /\ run'.inited = run.inited /\ run' \in Run
  BY Zenon DEF Types, Run
<1>2. /\ d \in Component
      /\ d.backend = components_[i].backend /\ d.do_tracing_ = components_[i].do_tracing_
      /\ d.parent_states_ = components_[i].parent_states_
      /\ d.batch_ = <<>> <=> components_[i].batch_ = <<>>
      /\ DOMAIN d.batch_ = DOMAIN components_[i].batch_
      /\ \A n \in DOMAIN d.batch_ : d.batch_[n].trace = components_[i].batch_[n].trace
      /\ \A id, size : Filled(components_[i], id, size) => Filled(d, id, size)
  BY Zenon DEF Advanced
<1>3. /\ components_' \in Seq(Component)
      /\ Indices' = Indices /\ Backends' = Backends
      /\ \A j \in Indices : SyntaxNet(j)' <=> SyntaxNet(j)
      /\ components_'[i] = d
      /\ \A j \in Indices : j # i => components_'[j] = components_[j]
  BY <1>2, OneComponent, Zenon
<1>4. i \in run.inited /\ run.at \in Nat /\ run.graph.upto \in Indices
  BY GraphFits DEF Progress
<1>5. Types'
  BY <1>1, <1>3, Zenon DEF Types
<1>6. PipelineFits'
  BY <1>1, <1>3, Zenon DEF PipelineFits
<1>7. Progress'
  BY <1>1 DEF Progress
<1>8. ComponentsFit'
  <2> SUFFICES ASSUME NEW j \in Indices
               PROVE  /\ components_'[j].backend = "stateless" => components_'[j].batch_ = <<>>
                      /\ IF j \in run.inited
                         THEN Filled(components_'[j], run.id, Len(input_data_.sentences))
                         ELSE Clean(components_'[j])
    BY <1>1, <1>3, Zenon DEF ComponentsFit
  <2>1. CASE j = i
    BY <2>1, <1>2, <1>3, <1>4, ZenonT(60) DEF ComponentsFit
  <2>2. CASE j # i
    BY <2>2, <1>3, Zenon DEF ComponentsFit
  <2> QED
    BY <2>1, <2>2, Zenon
<1>9. Written'
  <2>1. 1 .. (run.at - 1) \subseteq Indices
    BY <1>4, GraphFits
  <2>2. {j \in 1 .. (run.at - 1) : SyntaxNet(j)}' = {j \in 1 .. (run.at - 1) : SyntaxNet(j)}
    BY <1>1, <1>3, <2>1
  <2>3. /\ run.pc \in {"init", "loop", "failed"} /\ run'.pc \in {"init", "loop", "failed"}
        /\ run.pc \notin {"get_session", "attach"} /\ run'.pc \notin {"get_session", "attach"}
    BY <1>1
  <2> QED
    BY <1>1, <2>2, <2>3, Zenon DEF Written
<1>10. TracingFits'
  <2>1. \A j \in Indices : components_'[j].do_tracing_ = components_[j].do_tracing_
    BY <1>2, <1>3, Zenon
  <2>2. \A j \in Indices :
          (\A n \in DOMAIN components_[j].batch_ : components_[j].batch_[n].trace) =>
            (\A n \in DOMAIN components_'[j].batch_ : components_'[j].batch_[n].trace)
    <3> SUFFICES ASSUME NEW j \in Indices,
                        \A n \in DOMAIN components_[j].batch_ : components_[j].batch_[n].trace,
                        NEW n \in DOMAIN components_'[j].batch_
                 PROVE  components_'[j].batch_[n].trace
      BY Zenon
    <3>1. CASE j = i
      <4>1. n \in DOMAIN d.batch_ /\ n \in DOMAIN components_[i].batch_
        BY <3>1, <1>2, <1>3
      <4>2. d.batch_[n].trace
        BY <3>1, <4>1, <1>2, Zenon
      <4> QED
        BY <3>1, <4>2, <1>3
    <3>2. CASE j # i
      BY <3>2, <1>3, Zenon
    <3> QED
      BY <3>1, <3>2, Zenon
  <2> QED
    BY <1>1, <1>3, <2>1, <2>2, ZenonT(60) DEF TracingFits
<1>11. ASSUME AllSupported
       PROVE  ChecksHold'
  <2>1. \A j \in Indices : components_'[j].parent_states_ = components_[j].parent_states_
    BY <1>2, <1>3, Zenon
  <2>2. ChecksHold /\ fatal' = "none"
    BY <1>11
  <2>3. \A j \in Indices' :
          j \in run'.inited /\ ~SyntaxNet(j)' =>
            /\ Len(components_'[j].parent_states_) = Len(input_data_'.sentences)
            /\ \A n \in DOMAIN components_'[j].parent_states_ :
                 components_'[j].parent_states_[n] = run'.id
    <3>1. ASSUME NEW j \in Indices, j \in run.inited, ~SyntaxNet(j)
          PROVE  /\ Len(components_[j].parent_states_) = Len(input_data_.sentences)
                 /\ \A n \in DOMAIN components_[j].parent_states_ :
                      components_[j].parent_states_[n] = run.id
      BY <3>1, <2>2, Zenon DEF ChecksHold
    <3> QED
      BY <1>1, <1>3, <2>1, <3>1
  <2> QED
    BY <1>1, <2>2, <2>3, Zenon DEF ChecksHold
<1> QED
  BY <1>5, <1>6, <1>7, <1>8, <1>9, <1>10, <1>11 DEF AllSupported

(* The CHECKs of the feature extraction hold, for every graph. *)
LEMMA FeatureChecksHold ==
  ASSUME IndInv, NEW i \in Indices, run.pc = "loop", i = run.at, ~IsTerminal(i),
         Check(FeatureChecks(i))
  PROVE  fatal' = "none"
<1> USE DEF IndInv
<1> DEFINE c == components_[i]
           traces == \A n \in DOMAIN c.batch_ : c.batch_[n].trace
           inStep == \A j \in 1 .. i : \A n \in DOMAIN components_[j].batch_ :
                       HistoryInStep(components_[j].batch_[n])
           ready == Ready(i)
           first == Must("trace not initialized", c.do_tracing_ => traces)
           history == Must("history out of step", inStep)
           last == Must("tracing not enabled", do_tracing_ => c.do_tracing_ /\ traces)
<1>1. SyntaxNet(i) /\ run.inited = 1 .. i /\ run.id # 0
  BY DEF IsTerminal, Progress, Types, Run
<1>2. i \in Nat /\ 1 .. i \subseteq Indices /\ i \in 1 .. i
  BY GraphFits
<1>3. ready = "none"
  <2>1. c.input_data_ = run.id
    BY <1>1, <1>2, Zenon DEF ComponentsFit, Filled, SyntaxNet
  <2> QED
    BY <2>1, <1>1, Zenon DEF Ready, Must, IsReady
<1>4. do_tracing_ => c.do_tracing_ /\ traces
  BY <1>1, <1>2, Zenon DEF TracingFits
<1>5. c.do_tracing_ => do_tracing_
  BY Zenon DEF TracingFits
<1>6. first = "none" /\ last = "none"
  BY <1>4, <1>5, Zenon DEF Must
<1>7. inStep
  <2> SUFFICES ASSUME NEW j \in 1 .. i, NEW n \in DOMAIN components_[j].batch_
               PROVE  HistoryInStep(components_[j].batch_[n])
    BY Zenon
  <2>1. j \in Indices /\ j \in run.inited /\ components_[j] \in Component
    BY <1>1, <1>2, GraphFits
  <2>2. components_[j].backend = "stateless" => components_[j].batch_ = <<>>
    BY <2>1, Zenon DEF ComponentsFit
  <2>3. components_[j].backend = "syntaxnet"
    BY <2>1, <2>2 DEF Component
  <2> QED
    BY <2>1, <2>3, Zenon DEF ComponentsFit, Filled
<1>8. history = "none"
  BY <1>7, Zenon DEF Must
<1>9. Check(<<ready, first, history, last>>)
  BY Zenon DEF FeatureChecks
<1> HIDE DEF ready, first, history, last
<1> QED
  BY <1>3, <1>6, <1>8, <1>9 DEF Check
LEMMA OracleIndInv ==
  ASSUME IndInv, NEW i \in Indices, AdvanceFromOracle(i)
  PROVE  IndInv'
<1> USE DEF IndInv
<1> DEFINE c == components_[i]
           batch == [n \in DOMAIN c.batch_ |->
                       BeamAdvance(c.batch_[n],
                                   IF BeamIsTerminal(c.batch_[n]) THEN 0 ELSE c.batch_[n].left - 1)]
           d == [c EXCEPT !.batch_ = batch]
<1>1. /\ run.pc = "loop" /\ i = run.at /\ ~IsTerminal(i) /\ Check(FeatureChecks(i))
      /\ UNCHANGED <<input_data_, do_tracing_, run>>
  BY Zenon DEF AdvanceFromOracle, At
<1>2. components_' = [components_ EXCEPT ![i] = d]
  BY DEF AdvanceFromOracle
<1>3. c \in Component /\ \A n \in DOMAIN c.batch_ : c.batch_[n] \in BeamState
  BY GraphFits, LenProperties DEF Component
<1>4. \A n \in DOMAIN c.batch_ :
        (IF BeamIsTerminal(c.batch_[n]) THEN 0 ELSE c.batch_[n].left - 1) \in Nat
  BY <1>3 DEF BeamIsTerminal, BeamState
<1>5. Advanced(c, d)
  <2>1. /\ DOMAIN batch = DOMAIN c.batch_ /\ batch = [n \in DOMAIN batch |-> batch[n]]
        /\ \A n \in DOMAIN c.batch_ :
             \E left \in Nat : batch[n] = BeamAdvance(c.batch_[n], left)
    BY <1>4, Zenon
  <2> HIDE DEF batch, c
  <2> QED
    BY <1>3, <2>1, AdvancingKeeps, Zenon
<1>6. fatal' = "none"
  BY <1>1, FeatureChecksHold
<1>7. run' = [run EXCEPT !.pc = "loop"]
  BY <1>1 DEF Types, Run
<1> HIDE DEF d, c
<1> QED
  BY <1>1, <1>2, <1>5, <1>6, <1>7, AdvanceIndInv, Zenon DEF c

LEMMA PredictionIndInv ==
  ASSUME IndInv, NEW i \in Indices, NEW failing \in Nat, AdvanceFromPrediction(i, failing)
  PROVE  IndInv'
<1> USE DEF IndInv
<1> DEFINE c == components_[i]
           batch == [n \in DOMAIN c.batch_ |->
                       IF BeamIsTerminal(c.batch_[n]) \/ n >= failing THEN c.batch_[n]
                       ELSE BeamAdvance(c.batch_[n], c.batch_[n].left - 1)]
           d == [c EXCEPT !.batch_ = batch]
           pc == IF failing \in DOMAIN c.batch_ THEN "failed" ELSE "loop"
<1>1. /\ run.pc = "loop" /\ i = run.at /\ ~IsTerminal(i) /\ Check(FeatureChecks(i))
      /\ UNCHANGED <<input_data_, do_tracing_>>
  BY Zenon DEF AdvanceFromPrediction, At
<1>2. components_' = [components_ EXCEPT ![i] = d]
  BY DEF AdvanceFromPrediction
<1>3. c \in Component /\ \A n \in DOMAIN c.batch_ : c.batch_[n] \in BeamState
  BY GraphFits, LenProperties DEF Component
<1>4. \A n \in DOMAIN c.batch_ : ~BeamIsTerminal(c.batch_[n]) => c.batch_[n].left - 1 \in Nat
  BY <1>3 DEF BeamIsTerminal, BeamState
<1>5. Advanced(c, d)
  <2>1. /\ DOMAIN batch = DOMAIN c.batch_ /\ batch = [n \in DOMAIN batch |-> batch[n]]
        /\ \A n \in DOMAIN c.batch_ :
             \/ batch[n] = c.batch_[n]
             \/ \E left \in Nat : batch[n] = BeamAdvance(c.batch_[n], left)
    BY <1>4, Zenon
  <2> HIDE DEF batch, c
  <2> QED
    BY <1>3, <2>1, AdvancingKeeps, Zenon
<1>6. fatal' = "none"
  BY <1>1, FeatureChecksHold
<1>7. run' = [run EXCEPT !.pc = pc] /\ pc \in {"loop", "failed"}
  BY <1>1 DEF AdvanceFromPrediction, Types, Run
<1> HIDE DEF d, c, pc
<1> QED
  BY <1>1, <1>2, <1>5, <1>6, <1>7, AdvanceIndInv, Zenon DEF c
LEMMA GetBeamType ==
  ASSUME Types, PipelineFits, NEW i \in Indices
  PROVE  GetBeam(i) \in Seq(Nat)
<1>1. components_[i] \in Component
  BY GraphFits
<1>2. CASE ~SyntaxNet(i)
  BY <1>1, <1>2 DEF GetBeam, Component
<1>3. CASE SyntaxNet(i)
  <2> DEFINE batch == components_[i].batch_
  <2>1. /\ Len(batch) \in Nat /\ DOMAIN batch = 1 .. Len(batch)
        /\ \A n \in DOMAIN batch : batch[n].run \in Nat
    <3>1. /\ Len(batch) \in Nat /\ DOMAIN batch = 1 .. Len(batch)
          /\ \A n \in DOMAIN batch : batch[n] \in BeamState
      BY <1>1, LenProperties DEF Component
    <3> QED
      BY <3>1, Zenon DEF BeamState
  <2>2. GetBeam(i) = [n \in DOMAIN batch |-> batch[n].run]
    BY <1>3 DEF GetBeam
  <2> HIDE DEF batch
  <2>3. GetBeam(i) \in [1 .. Len(batch) -> Nat]
    BY <2>1, <2>2
  <2> QED
    BY <2>1, <2>3, TableIsSeq
<1> QED
  BY <1>2, <1>3

(* StatelessComponent::InitializeData keeps the states of its predecessor. *)
LEMMA StatelessKeepsParents ==
  ASSUME NEW c \in Component, NEW parents \in Seq(Nat), NEW max_size \in Nat,
         input_data_ \in InputBatch
  PROVE  LET d == StatelessInitializeData(c, parents, max_size)
         IN  /\ d \in Component
             /\ d.backend = c.backend /\ d.do_tracing_ = c.do_tracing_ /\ d.batch_ = c.batch_
             /\ d.parent_states_ = parents
<1>1. Len(input_data_.sentences) \in Nat
  BY LenProperties DEF InputBatch
<1> QED
  BY <1>1, Zenon DEF StatelessInitializeData, Component

(* What InitComponentData makes of component i. *)
InitializedFrom(i, parents, d) ==
  /\ d \in Component
  /\ d.backend = components_[i].backend
  /\ Filled(d, run.id, Len(input_data_.sentences))
  /\ d.backend = "stateless" => d.batch_ = <<>> /\ d.parent_states_ = parents
  /\ d.do_tracing_ => do_tracing_
  /\ SyntaxNet(i) /\ do_tracing_ =>
       d.do_tracing_ /\ \A n \in DOMAIN d.batch_ : d.batch_[n].trace

LEMMA InitComponentDataFits ==
  ASSUME IndInv, NEW i \in Indices, run.pc = "init", i = run.at,
         NEW parents \in Seq(Nat), NEW max_size \in Nat \ {0}
  PROVE  LET data == IF SyntaxNet(i) THEN SyntaxNetInitializeData(components_[i], max_size)
                     ELSE StatelessInitializeData(components_[i], parents, max_size)
         IN  InitializedFrom(i, parents,
               IF do_tracing_ /\ SyntaxNet(i) THEN InitializeTracing(data) ELSE data)
<1> USE DEF IndInv
<1> DEFINE c == components_[i]
           syntaxnet == SyntaxNetInitializeData(c, max_size)
           stateless == StatelessInitializeData(c, parents, max_size)
<1>1. c \in Component /\ input_data_ \in InputBatch /\ input_data_.run = run.id
  BY GraphFits DEF Types, Progress
<1>2. run.inited = 1 .. i - 1 /\ i \in Nat
  BY GraphFits DEF Progress
<1>3. i \notin run.inited
  BY <1>2
<1>4. Clean(c) /\ (c.backend = "stateless" => c.batch_ = <<>>)
  BY <1>3, Zenon DEF ComponentsFit
<1>5. c.do_tracing_ => do_tracing_
  BY Zenon DEF TracingFits
<1>6. CASE ~SyntaxNet(i)
  <2>1. /\ stateless \in Component
        /\ stateless.backend = c.backend /\ stateless.do_tracing_ = c.do_tracing_
        /\ stateless.batch_ = c.batch_ /\ stateless.parent_states_ = parents
    BY <1>1, StatelessKeepsParents
  <2>2. c.backend = "stateless" /\ c.backend # "syntaxnet"
    BY <1>1, <1>6 DEF SyntaxNet, Component
  <2> HIDE DEF stateless, c
  <2>3. InitializedFrom(i, parents, stateless)
    <3>1. Filled(stateless, run.id, Len(input_data_.sentences))
      BY <2>1, <2>2 DEF Filled
    <3>2. stateless.do_tracing_ => do_tracing_
      BY <2>1, <1>5
    <3> QED
      BY <2>1, <2>2, <3>1, <3>2, <1>4, <1>6, Zenon DEF InitializedFrom, c
  <2> QED
    BY <2>3, <1>6, Zenon DEF stateless, c
<1>7. CASE SyntaxNet(i)
  <2>1. c.backend = "syntaxnet" /\ c.backend # "stateless"
    BY <1>7 DEF SyntaxNet
  <2>2. /\ syntaxnet \in Component
        /\ syntaxnet.backend = "syntaxnet" /\ syntaxnet.do_tracing_ = c.do_tracing_
        /\ Filled(syntaxnet, input_data_.run, Len(input_data_.sentences))
    BY <1>1, <1>4, <2>1, InitializeDataFills
  <2> HIDE DEF syntaxnet, c
  <2>3. /\ InitializeTracing(syntaxnet) \in Component
        /\ InitializeTracing(syntaxnet).backend = syntaxnet.backend
        /\ InitializeTracing(syntaxnet).do_tracing_
        /\ \A n \in DOMAIN InitializeTracing(syntaxnet).batch_ :
             InitializeTracing(syntaxnet).batch_[n].trace
        /\ Filled(InitializeTracing(syntaxnet), input_data_.run, Len(input_data_.sentences))
    BY <2>2, TracingKeeps, Zenon
  <2>4. CASE do_tracing_
    <3>1. InitializedFrom(i, parents, InitializeTracing(syntaxnet))
      BY <1>1, <2>1, <2>2, <2>3, <2>4, Zenon DEF InitializedFrom, c
    <3> QED
      BY <1>7, <2>4, <3>1, Zenon DEF syntaxnet, c
  <2>5. CASE ~do_tracing_
    <3>1. InitializedFrom(i, parents, syntaxnet)
      <4>1. syntaxnet.do_tracing_ => do_tracing_
        BY <2>2, <1>5
      <4> QED
        BY <1>1, <2>1, <2>2, <2>5, <4>1, Zenon DEF InitializedFrom, c
    <3> QED
      BY <1>7, <2>5, <3>1, Zenon DEF syntaxnet, c
  <2> QED
    BY <2>4, <2>5, Zenon
<1> QED
  BY <1>6, <1>7, Zenon
LEMMA InitializeIndInv ==
  ASSUME IndInv, NEW i \in Indices, NEW max_size \in BeamSizes, NEW oracle \in BOOLEAN,
         InitializeComponentData(i, max_size, oracle)
  PROVE  IndInv'
<1> USE DEF IndInv
<1> DEFINE parents == IF IsInput(i) THEN <<>> ELSE GetBeam(i - 1)
           size == Len(input_data_.sentences)
           data == IF SyntaxNet(i) THEN SyntaxNetInitializeData(components_[i], max_size)
                   ELSE StatelessInitializeData(components_[i], parents, max_size)
           d == IF do_tracing_ /\ SyntaxNet(i) THEN InitializeTracing(data) ELSE data
<1>1. /\ run.pc = "init" /\ i = run.at /\ fatal = "none"
      /\ components_' = [components_ EXCEPT ![i] = d]
      /\ input_data_' = [input_data_ EXCEPT !.converted = @ \/ SyntaxNet(i)]
      /\ run' = [run EXCEPT !.pc = "loop", !.oracle = oracle, !.inited = @ \cup {i}]
      /\ do_tracing_' = do_tracing_
  BY Zenon DEF InitializeComponentData, At
<1>2. /\ Indices = 1 .. Len(components_) /\ Len(components_) \in Nat
      /\ run.inited = 1 .. i - 1 /\ i \in Nat /\ i \in 1 .. run.graph.upto
      /\ input_data_.run = run.id /\ run.graph.upto \in Indices /\ run.id # 0
  BY <1>1, GraphFits DEF Progress, Types, Run
<1>3. parents \in Seq(Nat)
  <2>1. i # 1 => i - 1 \in Indices
    BY <1>2
  <2>2. <<>> \in Seq(Nat)
    OBVIOUS
  <2> QED
    BY <2>1, <2>2, GetBeamType, Zenon DEF IsInput
<1>4. max_size \in Nat \ {0}
  BY BeamSizesAssumption
<1>5. InitializedFrom(i, parents, d)
  <2> HIDE DEF parents
  <2> QED
    BY <1>1, <1>3, <1>4, InitComponentDataFits, Zenon
<1> HIDE DEF d, data
<1>6. /\ d \in Component /\ d.backend = components_[i].backend
      /\ Filled(d, run.id, size)
      /\ d.backend = "stateless" => d.batch_ = <<>> /\ d.parent_states_ = parents
      /\ d.do_tracing_ => do_tracing_
      /\ SyntaxNet(i) /\ do_tracing_ =>
           d.do_tracing_ /\ \A n \in DOMAIN d.batch_ : d.batch_[n].trace
  BY <1>5, Zenon DEF InitializedFrom
<1>7. /\ run'.id = run.id /\ run'.pc = "loop" /\ run'.graph = run.graph /\ run'.at = i
      /\ run'.inited = run.inited \cup {i} /\ run' \in Run
  <2>1. run.inited \cup {i} \in SUBSET Nat
    BY <1>2
  <2> QED
    BY <1>1, <2>1, Zenon DEF Types, Run
<1>8. run.inited \cup {i} = 1 .. i
  BY <1>2
<1>9. /\ input_data_' \in InputBatch /\ input_data_'.run = input_data_.run
      /\ input_data_'.sentences = input_data_.sentences
      /\ input_data_'.written = input_data_.written
      /\ input_data_'.converted <=> (input_data_.converted \/ SyntaxNet(i))
  BY <1>1, Zenon DEF Types, InputBatch
<1>10. /\ components_' \in Seq(Component)
       /\ Indices' = Indices /\ Backends' = Backends
       /\ \A j \in Indices : SyntaxNet(j)' <=> SyntaxNet(j)
       /\ components_'[i] = d
       /\ \A j \in Indices : j # i => components_'[j] = components_[j]
  BY <1>1, <1>6, OneComponent, Zenon
<1>11. Types'
  BY <1>1, <1>7, <1>9, <1>10, Zenon DEF Types
<1>12. PipelineFits'
  BY <1>1, <1>7, <1>10, Zenon DEF PipelineFits
<1>13. Progress'
  BY <1>1, <1>2, <1>7, <1>8, <1>9 DEF Progress
<1>14. ComponentsFit'
  <2> SUFFICES ASSUME NEW j \in Indices
               PROVE  /\ components_'[j].backend = "stateless" => components_'[j].batch_ = <<>>
                      /\ IF j \in run.inited \cup {i} THEN Filled(components_'[j], run.id, size)
                         ELSE Clean(components_'[j])
    BY <1>7, <1>9, <1>10, Zenon DEF ComponentsFit
  <2>1. CASE j = i
    BY <2>1, <1>6, <1>10, Zenon
  <2>2. CASE j # i
    BY <2>2, <1>10, Zenon DEF ComponentsFit
  <2> QED
    BY <2>1, <2>2, Zenon
<1>15. Written'
  <2>1. 1 .. (i - 1) \subseteq Indices
    BY <1>2
  <2>2. {j \in 1 .. (run.at - 1) : SyntaxNet(j)}' = {j \in 1 .. (run.at - 1) : SyntaxNet(j)}
    BY <1>1, <1>7, <1>10, <2>1
  <2>3. /\ run.pc \in {"init", "loop", "failed"} /\ run'.pc \in {"init", "loop", "failed"}
        /\ run.pc \notin {"get_session", "attach"} /\ run'.pc \notin {"get_session", "attach"}
    BY <1>1, <1>7
  <2> QED
    BY <1>1, <1>7, <1>9, <2>2, <2>3, ZenonT(60) DEF Written
<1>16. TracingFits'
  <2>1. \A j \in Indices : components_'[j].do_tracing_ => do_tracing_
    <3> TAKE j \in Indices
    <3>1. CASE j = i
      BY <3>1, <1>6, <1>10
    <3>2. CASE j # i
      BY <3>2, <1>10, Zenon DEF TracingFits
    <3> QED
      BY <3>1, <3>2
  <2>2. ASSUME NEW j \in Indices, j \in run.inited \cup {i}, SyntaxNet(j), do_tracing_
        PROVE  /\ components_'[j].do_tracing_
               /\ \A n \in DOMAIN components_'[j].batch_ : components_'[j].batch_[n].trace
    <3>1. CASE j = i
      BY <3>1, <2>2, <1>6, <1>10
    <3>2. CASE j # i
      BY <3>2, <2>2, <1>10, Zenon DEF TracingFits
    <3> QED
      BY <3>1, <3>2
  <2> QED
    BY <1>1, <1>7, <1>10, <2>1, <2>2, Zenon DEF TracingFits
<1>17. ASSUME AllSupported
       PROVE  ChecksHold'
  <2>1. ChecksHold /\ SyntaxNet(1)
    BY <1>2, <1>17, GraphFits
  <2>2. i # 1 => /\ Len(parents) = size
                 /\ \A n \in DOMAIN parents : parents[n] = run.id
    <3>1. i # 1 => i - 1 \in Indices /\ i - 1 \in run.inited
      BY <1>2
    <3> QED
      BY <1>17, <3>1, GetBeamIsOfThisRun, Zenon DEF IsInput
  <2>3. i = 1 => parents = <<>>
    BY DEF IsInput
  <2>4. \A n \in DOMAIN parents : parents[n] = run.id
    BY <2>2, <2>3
  <2>5. fatal' = "none"
    <3> DEFINE o1 == Must("no input data", input_data_ # NoInput)
               o2 == Must("source not terminal", IsInput(i) \/ IsTerminal(i - 1))
               o3 == Must("empty beam", 0 \notin Range(parents))
               o4 == Must("no converted data", SyntaxNet(i) \/ input_data_.converted)
               o5 == Must("batch size", \/ ~SyntaxNet(i) \/ parents = <<>>
                                        \/ Len(parents) = Len(input_data_.sentences))
               o6 == Must("stale state", SyntaxNet(i) => Range(parents) \subseteq {run.id})
    <3>1. o1 = "none"
      BY <1>2 DEF Must, NoInput
    <3>2. o2 = "none"
      BY <1>1, <1>2 DEF Must, IsInput, Progress
    <3>3. o3 = "none"
      BY <1>2, <2>4 DEF Must, Range
    <3>4. o4 = "none"
      <4>1. i = 1 => SyntaxNet(i)
        BY <2>1
      <4>2. i # 1 => 1 \in run.inited
        BY <1>2
      <4>3. SyntaxNet(i) \/ input_data_.converted
        BY <2>1, <4>1, <4>2, Zenon DEF ChecksHold
      <4> QED
        BY <4>3, Zenon DEF Must
    <3>5. o5 = "none"
      BY <2>2, <2>3 DEF Must
    <3>6. o6 = "none"
      BY <2>4 DEF Must, Range
    <3>7. Check(<<o1, o2, o3, o4, o5, o6>>)
      BY Zenon DEF InitializeComponentData
    <3> HIDE DEF o1, o2, o3, o4, o5, o6
    <3> QED
      BY <3>1, <3>2, <3>3, <3>4, <3>5, <3>6, <3>7 DEF Check
  <2>6. input_data_'.converted
    <3>1. i # 1 => 1 \in run.inited
      BY <1>2
    <3> QED
      BY <1>9, <2>1, <3>1, Zenon DEF ChecksHold
  <2>7. ASSUME NEW j \in Indices, j \in run.inited \cup {i}, ~SyntaxNet(j)
        PROVE  /\ Len(components_'[j].parent_states_) = size
               /\ \A n \in DOMAIN components_'[j].parent_states_ :
                    components_'[j].parent_states_[n] = run.id
    <3>1. CASE j = i
      <4>1. i # 1 /\ d.backend = "stateless"
        BY <2>1, <2>7, <3>1, <1>6 DEF SyntaxNet, Component
      <4>2. components_'[j].parent_states_ = parents
        BY <3>1, <4>1, <1>6, <1>10, SMTT(60)
      <4> QED
        BY <4>1, <4>2, <2>2
    <3>2. CASE j # i
      BY <3>2, <2>1, <2>7, <1>10 DEF ChecksHold
    <3> QED
      BY <3>1, <3>2
  <2> QED
    BY <1>7, <1>9, <1>10, <2>5, <2>6, <2>7, Zenon DEF ChecksHold
<1> QED
  BY <1>11, <1>12, <1>13, <1>14, <1>15, <1>16, <1>17 DEF AllSupported
LEMMA EndIndInv ==
  ASSUME IndInv, NEW i \in Indices, EndComponent(i)
  PROVE  IndInv'
<1> USE DEF IndInv
<1> DEFINE upto == run.graph.upto
           pc == IF i < upto THEN "init"
                 ELSE IF run.graph.tracing = "on" THEN "trace" ELSE Output
           at == IF i < upto THEN run.at + 1 ELSE run.at
<1>1. /\ run.pc = "loop" /\ i = run.at /\ IsTerminal(i)
      /\ run' = [run EXCEPT !.pc = pc, !.at = at]
      /\ UNCHANGED <<do_tracing_, components_>>
  BY Zenon DEF EndComponent, At
<1>2. /\ Indices = 1 .. Len(components_) /\ Len(components_) \in Nat
      /\ \A j \in Indices : components_[j] \in Component
      /\ run.inited = 1 .. i /\ i \in Nat /\ i \in 1 .. upto
      /\ input_data_.run = run.id /\ upto \in Indices /\ run.id # 0
  BY <1>1, GraphFits DEF Progress, Types, Run
<1>3. i \in run.inited /\ at \in Nat
  BY <1>1, <1>2
<1>4. /\ pc \in {"init", "trace", "emit", "release"}
      /\ pc = "init" <=> i < upto
      /\ pc = "trace" => run.graph.tracing = "on"
  BY <1>2 DEF Output
<1> HIDE DEF pc
<1>5. /\ run'.id = run.id /\ run'.pc = pc /\ run'.graph = run.graph /\ run'.at = at
      /\ run'.inited = run.inited /\ run' \in Run
  <2>1. pc \in {"get_session", "attach", "init", "loop", "failed", "trace", "emit", "release"}
    BY <1>4
  <2> HIDE DEF at
  <2> QED
    BY <1>1, <1>3, <2>1, Zenon DEF Types, Run
<1>6. /\ Indices' = Indices /\ Backends' = Backends
      /\ \A j : SyntaxNet(j)' <=> SyntaxNet(j)
      /\ \A j : IsTerminal(j)' <=> IsTerminal(j)
  BY <1>1, Zenon DEF Indices, Backends, SyntaxNet, IsTerminal
<1>7. /\ input_data_' \in InputBatch
      /\ input_data_'.run = input_data_.run /\ input_data_'.sentences = input_data_.sentences
      /\ input_data_'.converted <=> input_data_.converted
      /\ Len(input_data_'.written) = Len(input_data_.written)
      /\ ~run.graph.training => input_data_'.written = FinalizeData(i)
  <2>1. CASE run.graph.training
    <3>1. input_data_' = input_data_
      BY <2>1, Zenon DEF EndComponent
    <3> QED
      BY <2>1, <3>1, Zenon DEF Types
  <2>2. CASE ~run.graph.training
    <3>1. input_data_' = [input_data_ EXCEPT !.written = FinalizeData(i)]
      BY <2>2, Zenon DEF EndComponent
    <3> DEFINE written == input_data_.written
    <3>2. /\ Len(written) \in Nat /\ DOMAIN written = 1 .. Len(written)
          /\ \A n \in DOMAIN written : written[n] \in SUBSET Nat
      BY LenProperties DEF Types, InputBatch
    <3>3. \A n \in DOMAIN written : written[n] \cup {i} \in SUBSET Nat
      BY <3>2, <1>2
    <3> HIDE DEF written
    <3>4. FinalizeData(i) \in [1 .. Len(written) -> SUBSET Nat]
      BY <3>2, <3>3, Zenon DEF FinalizeData, written
    <3>5. FinalizeData(i) \in Seq(SUBSET Nat) /\ Len(FinalizeData(i)) = Len(written)
      BY <3>2, <3>4, TableIsSeq
    <3> QED
      BY <2>2, <3>1, <3>5, Zenon DEF Types, InputBatch, written
  <2> QED
    BY <2>1, <2>2, Zenon
<1>8. Types'
  BY <1>1, <1>5, <1>7, Zenon DEF Types
<1>9. PipelineFits'
  BY <1>1, <1>5, <1>6, Zenon DEF PipelineFits
<1>10. Progress'
  <2>1. pc = "init" => at - 1 = i /\ IsTerminal(at - 1)
    BY <1>1, <1>2, <1>4
  <2>2. pc # "init" => at = i /\ at = upto
    BY <1>1, <1>2, <1>4
  <2>3. at \in 1 .. upto
    BY <1>1, <1>2
  <2> HIDE DEF at
  <2> QED
    BY <1>2, <1>4, <1>5, <1>6, <1>7, <2>1, <2>2, <2>3 DEF Progress
<1>11. ComponentsFit'
  BY <1>1, <1>5, <1>6, <1>7, Zenon DEF ComponentsFit
<1>12. Written'
  <2> DEFINE before == {j \in 1 .. i - 1 : SyntaxNet(j)}
             after == {j \in 1 .. i : SyntaxNet(j)}
  <2>1. after = IF SyntaxNet(i) THEN before \cup {i} ELSE before
    BY <1>2
  <2>2. ASSUME ~run.graph.training, NEW n \in DOMAIN input_data_.sentences
        PROVE  input_data_'.written[n] = after
    <3>1. /\ DOMAIN input_data_.written = DOMAIN input_data_.sentences
          /\ DOMAIN input_data_.sentences = 1 .. Len(input_data_.sentences)
      BY LenProperties DEF Types, InputBatch, Written
    <3>2. input_data_.written[n] = before
      BY <1>1, <2>2, Zenon DEF Written
    <3>3. SyntaxNet(i) => n \in DOMAIN components_[i].batch_ /\ components_[i].batch_[n].run # 0
      <4>1. DOMAIN components_[i].batch_ = 1 .. Len(components_[i].batch_)
        BY <1>2, LenProperties DEF Component
      <4> QED
        BY <1>2, <1>3, <3>1, <4>1, Zenon DEF ComponentsFit, Filled, SyntaxNet
    <3>4. input_data_'.written[n] = IF SyntaxNet(i) THEN before \cup {i} ELSE before
      <4> HIDE DEF before
      <4> QED
        BY <1>7, <2>2, <3>1, <3>2, <3>3, ZenonT(60) DEF FinalizeData
    <3> HIDE DEF before, after
    <3> QED
      BY <2>1, <3>4
  <2>3. (IF pc \in {"init", "loop", "failed"} THEN at - 1 ELSE at) = i
    BY <1>1, <1>2, <1>4
  <2>4. after' = after
    BY <1>6
  <2>5. after = {j \in 1 .. (IF pc \in {"init", "loop", "failed"} THEN at - 1 ELSE at) :
                   SyntaxNet(j)'}
    BY <2>3, <1>6
  <2> HIDE DEF after, at
  <2>6. Len(input_data_.written) = Len(input_data_.sentences)
    BY DEF Written
  <2> QED
    BY <1>5, <1>7, <2>2, <2>5, <2>6, Zenon DEF Written
<1>13. TracingFits'
  BY <1>1, <1>5, <1>6, Zenon DEF TracingFits
<1>14. fatal' = "none"
  <2> DEFINE ready == Ready(i)
  <2>1. SyntaxNet(i) => components_[i].input_data_ = run.id
    BY <1>3, Zenon DEF ComponentsFit, Filled, SyntaxNet
  <2>2. ready = "none"
    BY <1>2, <2>1, Zenon DEF Ready, Must, IsReady
  <2>3. Check(<<ready>>)
    BY Zenon DEF EndComponent
  <2> HIDE DEF ready
  <2> QED
    BY <2>2, <2>3 DEF Check
<1>15. AllSupported => ChecksHold'
  BY <1>1, <1>5, <1>6, <1>7, <1>14, Zenon DEF ChecksHold
<1> QED
  BY <1>8, <1>9, <1>10, <1>11, <1>12, <1>13, <1>15 DEF AllSupported

LEMMA NextIndInv == IndInv /\ [Next]_vars => IndInv'
<1> SUFFICES ASSUME IndInv, [Next]_vars
             PROVE  IndInv'
  OBVIOUS
<1>1. ASSUME NEW graph \in Graphs, SetTracing(graph)
      PROVE  IndInv'
  BY <1>1, SetTracingIndInv
<1>2. ASSUME NEW graph \in Graphs, NEW batch \in Batches, AttachDataReader(graph, batch)
      PROVE  IndInv'
  BY <1>2, AttachIndInv
<1>3. ASSUME NEW i \in Indices, NEW max_size \in BeamSizes, NEW oracle \in BOOLEAN,
             InitializeComponentData(i, max_size, oracle)
      PROVE  IndInv'
  BY <1>3, InitializeIndInv
<1>4. ASSUME NEW i \in Indices, AdvanceFromOracle(i)
      PROVE  IndInv'
  BY <1>4, OracleIndInv
<1>5. ASSUME NEW i \in Indices, NEW failing \in 1 .. Len(components_[i].batch_) + 1,
             AdvanceFromPrediction(i, failing)
      PROVE  IndInv'
  <2>1. failing \in Nat
    <3>1. components_[i] \in Component
      BY GraphFits DEF IndInv
    <3>2. Len(components_[i].batch_) \in Nat
      BY <3>1, LenProperties DEF Component
    <3> QED
      BY <3>2
  <2> QED
    BY <1>5, <2>1, PredictionIndInv
<1>6. ASSUME NEW i \in Indices, EndComponent(i)
      PROVE  IndInv'
  BY <1>6, EndIndInv
<1>7. CASE UNCHANGED vars
  <2>1. /\ Indices' = Indices /\ Backends' = Backends
        /\ \A i : SyntaxNet(i)' <=> SyntaxNet(i)
        /\ \A i : IsTerminal(i)' <=> IsTerminal(i)
        /\ UNCHANGED <<input_data_, do_tracing_, components_, run, fatal>>
    BY <1>7, Zenon DEF vars, Indices, Backends, SyntaxNet, IsTerminal
  <2>2. Types' /\ PipelineFits' /\ ComponentsFit' /\ TracingFits'
    BY <2>1, Zenon DEF IndInv, Types, PipelineFits, ComponentsFit, TracingFits
  <2>3. Progress'
    BY <2>1 DEF IndInv, Progress
  <2>4. Written'
    <3>1. \A n : {i \in 1 .. n : SyntaxNet(i)'} = {i \in 1 .. n : SyntaxNet(i)}
      BY <2>1
    <3> QED
      BY <2>1, <3>1, Zenon DEF IndInv, Written
  <2>5. AllSupported => ChecksHold'
    BY <2>1, Zenon DEF IndInv, ChecksHold
  <2> QED
    BY <2>2, <2>3, <2>4, <2>5 DEF IndInv, AllSupported
<1> QED
  BY <1>1, <1>2, <1>3, <1>4, <1>5, <1>6, <1>7, TracesIndInv, PredictionsIndInv, ResetIndInv, Zenon
     DEF Next

-----------------------------------------------------------------------------
(* The inductive invariant holds in every run of a session. *)
THEOREM SessionInvariant == Spec => []IndInv
BY InitIndInv, NextIndInv, PTL DEF Spec

(* Where every graph is one that a session can run, none of the CHECKs of        *)
(* compute_session_impl.cc, of the components and of Beam ends the process,     *)
(* whatever runs used the session before.                                     *)
THEOREM SessionNoCheckFails ==
  ASSUME \A graph \in Graphs : Supported(graph)
  PROVE  Spec => []NoCheckFails
<1>1. IndInv => NoCheckFails
  BY DEF IndInv, AllSupported, ChecksHold, NoCheckFails
<1> QED
  BY <1>1, SessionInvariant, PTL

(* A component that the run has initialized holds one beam per sentence, of       *)
(* that run and of its size: InitializeData takes over nothing of an earlier run. *)
THEOREM SessionBeams == Spec => []BeamsOfThisRun
<1>1. IndInv => BeamsOfThisRun
  <2> SUFFICES ASSUME IndInv, NEW i \in run.inited, SyntaxNet(i)
               PROVE  Filled(components_[i], run.id, Len(input_data_.sentences))
    BY Zenon DEF BeamsOfThisRun, Filled, SyntaxNet
  <2>1. i \in Indices
    BY GraphFits DEF IndInv, Progress
  <2> QED
    BY <2>1, Zenon DEF IndInv, ComponentsFit
<1> QED
  BY <1>1, SessionInvariant, PTL

(* ResetSession, which frees the sentences, leaves no state in any component. *)
THEOREM SessionStates == Spec => []NoStateOutlivesItsSentence
<1>1. IndInv => NoStateOutlivesItsSentence
  <2> SUFFICES ASSUME IndInv, NEW i \in Indices, NEW n \in DOMAIN components_[i].batch_
               PROVE  components_[i].batch_[n].run \in {0, input_data_.run}
    BY Zenon DEF NoStateOutlivesItsSentence
  <2>1. components_[i] \in Component
    BY GraphFits DEF IndInv
  <2>2. components_[i].backend = "stateless" => components_[i].batch_ = <<>>
    BY Zenon DEF IndInv, ComponentsFit
  <2>3. components_[i].backend = "syntaxnet"
    BY <2>1, <2>2 DEF Component
  <2>4. CASE i \in run.inited
    <3>1. components_[i].batch_[n].run = run.id
      BY <2>3, <2>4, Zenon DEF IndInv, ComponentsFit, Filled
    <3>2. input_data_.run = run.id
      BY <2>4 DEF IndInv, Progress
    <3> QED
      BY <3>1, <3>2
  <2>5. CASE i \notin run.inited
    BY <2>3, <2>5, Zenon DEF IndInv, ComponentsFit, Clean
  <2> QED
    BY <2>4, <2>5
<1> QED
  BY <1>1, SessionInvariant, PTL

(* WriteAnnotations of every component has annotated every sentence of the batch  *)
(* when an annotation graph releases the session.                             *)
THEOREM SessionAnnotations == Spec => []AnnotationsComplete
<1>1. IndInv => AnnotationsComplete
  <2> SUFFICES ASSUME IndInv, run.pc = "release", ~run.graph.training,
                      NEW n \in DOMAIN input_data_.sentences
               PROVE  input_data_.written[n] = {i \in Indices : SyntaxNet(i)}
    BY Zenon DEF AnnotationsComplete
  <2>1. run.at = run.graph.upto /\ run.graph.upto = Len(components_)
        /\ Indices = 1 .. Len(components_)
    BY GraphFits DEF IndInv, Progress
  <2>2. /\ run.pc \notin {"get_session", "attach"}
        /\ run.pc \notin {"init", "loop", "failed"}
    OBVIOUS
  <2>3. input_data_.written[n] = {i \in 1 .. run.at : SyntaxNet(i)}
    BY <2>2, Zenon DEF IndInv, Written
  <2> QED
    BY <2>1, <2>3, Zenon
<1> QED
  BY <1>1, SessionInvariant, PTL
=============================================================================
