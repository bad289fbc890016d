-------------------------- MODULE MCComputeSession ---------------------------
(* Model-checking instance of ComputeSession: two components with beams, or    *)
(* two with a StatelessComponent between them; empty, growing and shrinking    *)
(* batches, with a sentence that is final from the start.                     *)
EXTENDS ComputeSession

TaggerParser == <<"syntaxnet", "syntaxnet">>
WithStateless == <<"syntaxnet", "stateless", "syntaxnet">>
Inputs == {<<>>, <<2>>, <<0, 1>>}

(* The graphs of graph_builder.py: annotation, and training of the first       *)
(* components.                                                                *)
Annotation(p, tracing) ==
  [pipeline |-> p, upto |-> Len(p), training |-> FALSE, tracing |-> tracing]
Training(p, upto, tracing) ==
  [pipeline |-> p, upto |-> upto, training |-> TRUE, tracing |-> tracing]

Untraced(p) == {Annotation(p, "unset")} \cup {Training(p, i, "unset") : i \in DOMAIN p}
Traced(p) == {Annotation(p, "on"), Annotation(p, "off"), Training(p, Len(p), "on")}

SoundGraphs == Untraced(TaggerParser) \cup Traced(TaggerParser) \cup Untraced(WithStateless)
ASSUME SoundGraphsAssumption == \A graph \in SoundGraphs : Supported(graph)
TracedWithStateless == Traced(WithStateless)
=============================================================================
