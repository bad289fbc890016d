--------------------------- MODULE DocumentFilters ---------------------------
(***************************************************************************)
(* The preprocessing of a training corpus in parser_trainer.py: the ops        *)
(* DocumentSource, WellFormedFilter, ProjectivizeFilter and DocumentSink of     *)
(* syntaxnet/document_filters.cc, run batch by batch until the source says      *)
(* that the batch was the last one.                                           *)
(*                                                                         *)
(* A document is its position in the corpus and the heads of its tokens.       *)
(***************************************************************************)
EXTENDS DependencyTrees, FiniteSets, Sequences, SequencesExt

CONSTANTS
  Corpora,     \* the training corpora: sequences of [n, head]
  batch_size_

ASSUME BatchSizeAssumption == batch_size_ \in Nat \ {0}
ASSUME CorporaAssumption ==
  \A c \in Corpora : \A d \in DOMAIN c : c[d].n \in Nat /\ c[d].head \in Analyses(c[d].n)

VARIABLES
  corpus_,                  \* what DocumentSource reads
  keep_malformed_,          \* attribute of WellFormedFilter
  discard_non_projective_,  \* attribute of ProjectivizeFilter
  num_read,                 \* documents read so far
  last,                     \* the second output of DocumentSource
  stage,                    \* the op that is running, "done", or "hung"
  documents,                \* the input of that op that it has not finished with
  output_documents,         \* what it has kept
  visited, i, t,            \* locals of ShouldKeep; t = -1 between two walks, and
                            \* visited has the tokens whose entry is not -1
  sink                      \* what DocumentSink has written

flags == <<keep_malformed_, discard_non_projective_>>
locals == <<visited, i, t>>
vars == <<corpus_, flags, num_read, last, stage, documents, output_documents,
          locals, sink>>

Document(d) == [id |-> d, n |-> corpus_[d].n, head |-> corpus_[d].head]

-----------------------------------------------------------------------------
(* DocumentSource::Compute.  Only a Read that returns no document sets last,   *)
(* so that a corpus of a multiple of batch_size_ documents ends with an empty   *)
(* batch.  Mutant: the loop reads one document more than the batch takes.       *)
DocumentSourceSkips ==
  /\ stage = "source"
  /\ LET size == Len(corpus_) - num_read
         batch == IF size >= batch_size_ THEN batch_size_ ELSE size
     IN  /\ documents' = [d \in 1 .. batch |-> Document(num_read + d)]
         /\ num_read' = IF size >= batch_size_ THEN num_read + batch + 1 ELSE num_read + batch
         /\ last' = (size < batch_size_)
  /\ stage' = "well_formed"
  /\ visited' = <<>> /\ i' = 0 /\ t' = -1
  /\ UNCHANGED <<corpus_, flags, output_documents, sink>>

DocumentSource ==
  /\ stage = "source"
  /\ LET size == Len(corpus_) - num_read
         batch == IF size >= batch_size_ THEN batch_size_ ELSE size
     IN  /\ documents' = [d \in 1 .. batch |-> Document(num_read + d)]
         /\ num_read' = num_read + batch
         /\ last' = (size < batch_size_)
  /\ stage' = "well_formed"
  /\ visited' = <<>> /\ i' = 0 /\ t' = -1
  /\ UNCHANGED <<corpus_, flags, output_documents, sink>>

(* The next document of the running op, and what is done with the current one. *)
Finish(kept) ==
  /\ documents' = Tail(documents)
  /\ output_documents' = output_documents \o kept
  /\ visited' = <<>> /\ i' = 0 /\ t' = -1
  /\ UNCHANGED <<corpus_, flags, num_read, last, stage, sink>>

doc == Head(documents)
VisitedBy(token) == IF token \in DOMAIN visited THEN visited[token] ELSE -1

(* WellFormedFilter::ShouldKeep, one iteration of one of its loops at a time:   *)
(* the walk from the next token that no earlier walk met, ...                  *)
StartWalk ==
  /\ stage = "well_formed" /\ documents # <<>> /\ t = -1
  /\ i < doc.n
  /\ IF VisitedBy(i) # -1 THEN i' = i + 1 /\ t' = -1 ELSE i' = i /\ t' = i
  /\ UNCHANGED <<corpus_, flags, num_read, last, stage, documents, output_documents,
                 visited, sink>>

(* ... a step of the walk from i, at t.  Mutant: the walk takes its own marks    *)
(* for those of an earlier one.                                              *)
WalkLenient ==
  /\ stage = "well_formed" /\ documents # <<>> /\ t # -1
  /\ \/ /\ VisitedBy(t) = -1
        /\ visited' = [u \in DOMAIN visited \cup {t} |-> IF u = t THEN i ELSE visited[u]]
        /\ t' = doc.head[t]
        /\ i' = IF t' = -1 THEN i + 1 ELSE i
     \/ /\ VisitedBy(t) \in 0 .. i
        /\ i' = i + 1 /\ t' = -1
        /\ UNCHANGED visited
  /\ UNCHANGED <<corpus_, flags, num_read, last, stage, documents, output_documents, sink>>

Walk ==
  /\ stage = "well_formed" /\ documents # <<>> /\ t # -1
  /\ \/ /\ VisitedBy(t) = -1
        /\ visited' = [u \in DOMAIN visited \cup {t} |-> IF u = t THEN i ELSE visited[u]]
        /\ t' = doc.head[t]
        /\ i' = IF t' = -1 THEN i + 1 ELSE i
        /\ UNCHANGED <<corpus_, flags, num_read, last, stage, documents,
                       output_documents, sink>>
     \/ /\ VisitedBy(t) \in 0 .. i - 1
        /\ i' = i + 1 /\ t' = -1
        /\ UNCHANGED <<corpus_, flags, num_read, last, stage, documents,
                       output_documents, visited, sink>>
     \/ /\ VisitedBy(t) >= i
        /\ Finish(IF keep_malformed_ THEN <<doc>> ELSE <<>>)

(* ... and the end of the loop over the tokens. *)
AllVisited ==
  /\ stage = "well_formed" /\ documents # <<>> /\ t = -1
  /\ i = doc.n
  /\ Finish(<<doc>>)

WellFormedFilter ==
  /\ stage = "well_formed" /\ documents = <<>>
  /\ stage' = "projectivize"
  /\ documents' = output_documents /\ output_documents' = <<>>
  /\ UNCHANGED <<corpus_, flags, num_read, last, locals, sink>>

-----------------------------------------------------------------------------
(* ProjectivizeFilter::Process, one iteration of its outer loop at a time. *)
LeftEnd(head, token) == IF head[token] < token THEN head[token] ELSE token
RightEnd(head, token) == IF head[token] < token THEN token ELSE head[token]

(* The arcs that pass over a token bound the arcs that end in it. *)
ArcsOver(d, token) ==
  {u \in 0 .. d.n - 1 : LeftEnd(d.head, u) < token /\ token < RightEnd(d.head, u)}
left(d, token) == Max({-1} \cup {LeftEnd(d.head, u) : u \in ArcsOver(d, token)})
right(d, token) == Min({d.n - 1} \cup {RightEnd(d.head, u) : u \in ArcsOver(d, token)})

(* An arc is non-projective when it exceeds the bounds of its ends.  Mutant:    *)
(* only the bounds of the dependent are looked at.                             *)
NonProjectiveArcsOfToken(d) ==
  {u \in 0 .. d.n - 1 :
     /\ d.head[u] # -1
     /\ \/ LeftEnd(d.head, u) < left(d, u)
        \/ RightEnd(d.head, u) > right(d, u)}
NonProjectiveArcs(d) ==
  {u \in 0 .. d.n - 1 :
     /\ d.head[u] # -1
     /\ LET l == LeftEnd(d.head, u)
            r == RightEnd(d.head, u)
        IN  l < Max({left(d, l), left(d, r)}) \/ r > Min({right(d, l), right(d, r)})}

(* The loop that measures the depth ends only where the root is reached. *)
DepthDefined(d, token) == -1 \in Upward(d.head, d.n, token)
Depth(d, token) == Cardinality(Upward(d.head, d.n, token)) - 1

(* The deepest one, the first of them if there are several. *)
deepest_arc(d) ==
  LET arcs == NonProjectiveArcs(d)
      deepest == {u \in arcs : \A v \in arcs : Depth(d, v) <= Depth(d, u)}
  IN  Min(deepest)

(* Mutant: the arc goes to the neighbour of its head. *)
LiftToNeighbour(d) == [d EXCEPT !.head[deepest_arc(d)] = d.head[deepest_arc(d)] - 1]
Lift(d) ==
  LET u == deepest_arc(d)
  IN  [d EXCEPT !.head[u] = d.head[d.head[u]]]

ProjectivizeDone ==
  /\ stage = "projectivize" /\ documents # <<>>
  /\ NonProjectiveArcs(doc) = {}
  /\ Finish(<<doc>>)

ProjectivizeDiscard ==
  /\ stage = "projectivize" /\ documents # <<>>
  /\ NonProjectiveArcs(doc) # {} /\ discard_non_projective_
  /\ Finish(<<>>)

ProjectivizeLift ==
  /\ stage = "projectivize" /\ documents # <<>>
  /\ NonProjectiveArcs(doc) # {} /\ ~discard_non_projective_
  /\ \A u \in NonProjectiveArcs(doc) : DepthDefined(doc, u)
  /\ documents' = [documents EXCEPT ![1] = Lift(doc)]
  /\ UNCHANGED <<corpus_, flags, num_read, last, stage, output_documents, locals, sink>>

(* On the way up from a non-projective arc there is a loop: no way out. *)
ProjectivizeHangs ==
  /\ stage = "projectivize" /\ documents # <<>>
  /\ NonProjectiveArcs(doc) # {} /\ ~discard_non_projective_
  /\ \E u \in NonProjectiveArcs(doc) : ~DepthDefined(doc, u)
  /\ stage' = "hung"
  /\ UNCHANGED <<corpus_, flags, num_read, last, documents, output_documents, locals, sink>>

-----------------------------------------------------------------------------
(* DocumentSink::Compute, and the loop of parser_trainer.py around the ops. *)
DocumentSink ==
  /\ stage = "projectivize" /\ documents = <<>>
  /\ sink' = sink \o output_documents
  /\ output_documents' = <<>>
  /\ stage' = IF last THEN "done" ELSE "source"
  /\ UNCHANGED <<corpus_, flags, num_read, last, documents, locals>>

Init ==
  /\ corpus_ \in Corpora
  /\ keep_malformed_ \in BOOLEAN
  /\ discard_non_projective_ \in BOOLEAN
  /\ num_read = 0 /\ last = FALSE /\ stage = "source"
  /\ documents = <<>> /\ output_documents = <<>> /\ sink = <<>>
  /\ visited = <<>> /\ i = 0 /\ t = -1

Next ==
  \/ DocumentSource
  \/ StartWalk \/ Walk \/ AllVisited \/ WellFormedFilter
  \/ ProjectivizeDone \/ ProjectivizeDiscard \/ ProjectivizeLift \/ ProjectivizeHangs
  \/ DocumentSink

Spec == Init /\ [][Next]_vars /\ WF_vars(Next)
-----------------------------------------------------------------------------
Documents == Range(documents) \cup Range(output_documents) \cup Range(sink)
Original(d) == corpus_[d.id].head
IsTreeDoc(d) == IsTree(corpus_[d].head, corpus_[d].n)
IsProjectiveDoc(d) == IsProjective(corpus_[d].head, corpus_[d].n)

(* What reaches the sink is, in the order of the corpus and each once, exactly   *)
(* the documents the filters are documented to keep: trees, or with             *)
(* discard_non_projective_ projective trees only, and documents with cycles      *)
(* only under keep_malformed_.  ShouldKeep finds cycles with one pass of marks,   *)
(* Process finds crossing arcs with two bounds per token.                       *)
ShouldReachSink(d) ==
  IF IsTreeDoc(d)
  THEN discard_non_projective_ => IsProjectiveDoc(d)
  ELSE /\ keep_malformed_
       /\ discard_non_projective_ => NonProjectiveArcs(Document(d)) = {}
SinkHasTheFilteredCorpus ==
  stage = "done" =>
    [d \in DOMAIN sink |-> sink[d].id] =
      SelectSeq([d \in DOMAIN corpus_ |-> d], ShouldReachSink)

(* ProjectivizeFilter makes a document projective and leaves it a tree, which is *)
(* what the arc-standard oracle needs of the gold heads; one that is projective  *)
(* already goes through unchanged.                                            *)
OutputIsProjective ==
  \A d \in DOMAIN sink :
    IsTreeDoc(sink[d].id) =>
      /\ IsTree(sink[d].head, sink[d].n)
      /\ IsProjective(sink[d].head, sink[d].n)
      /\ IsProjectiveDoc(sink[d].id) => sink[d].head = Original(sink[d])

(* Lifting only moves a token up its own branch: the head of a token is at all   *)
(* times a token, or the root, above it in the tree the corpus has, so that no   *)
(* attachment is made up and every root token stays one.                       *)
HeadsAreLifted ==
  \A d \in Documents :
    IsTreeDoc(d.id) =>
      \A u \in 0 .. d.n - 1 : d.head[u] \in Upward(Original(d), d.n, u) \ {u}

(* Preprocessing ends: "Assumes that the document is well-formed in the sense    *)
(* of having no looping dependencies", which the first filter guarantees unless   *)
(* it is told to keep malformed documents.                                     *)
PreprocessingEnds == <>(stage = "done" \/ (stage = "hung" /\ keep_malformed_))
=============================================================================
