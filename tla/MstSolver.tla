------------------------------ MODULE MstSolver ------------------------------
(***************************************************************************)
(* The op MaximumSpanningTree on one digraph of its batch                      *)
(* (dragnn/mst/ops/mst_op_kernels.cc) and the solver it runs                   *)
(* (dragnn/mst/mst_solver.h): Tarjan's algorithm with contraction and           *)
(* expansion, on the disjoint-set forests of DisjointSetForest.  The digraphs   *)
(* of a batch share nothing.                                                 *)
(*                                                                         *)
(* The nodes of the op are 0 .. n - 1.  In the solver they are 1 .. n, 0 is the  *)
(* artificial root, and contracted nodes follow from n + 1 on.                  *)
(***************************************************************************)
EXTENDS DisjointSetForest, Sequences, SequencesExt, FiniteSetsExt

CONSTANTS
  Problems,   \* [n, input_dim, forest, scores]: scores by target and source
  NotFinite,  \* a score that stands for no arc
  MaxIndex    \* the greatest value of the type Index

ASSUME ProblemsAssumption == \A p \in Problems : p.n \in Nat /\ p.input_dim \in Nat
ASSUME MaxIndexAssumption == MaxIndex \in Nat

VARIABLES
  problem,             \* the digraph
  arcs_,               \* for each node after the root, its inbound arcs by source
  weak_components_, strong_components_, contracted_nodes_,
  contracted_into_, argmax_arcs_,
  phase,               \* "init", "contract", "expand", "done" or a failure
  at,                  \* the loop variable of the phase
  argmax_sources, max_score

forests == <<weak_components_, strong_components_, contracted_nodes_>>
vars == <<problem, arcs_, forests, contracted_into_, argmax_arcs_, phase, at,
          argmax_sources, max_score>>

num_initial_nodes_ == problem.n + 1
num_possible_nodes_ == 2 * problem.n
num_current_nodes_ == Len(arcs_) + 1
Sources == 0 .. problem.n
kNullIndex == -1

Arc(source, target, score) == [source |-> source, target |-> target, score |-> score]
NoArc == Arc(0, 0, 0)
Exists(arc) == arc.target # 0
IsRoot(arc) == arc.source = 0

-----------------------------------------------------------------------------
(* RunSolver up to Solve: its checks and those of Init, AddRoot and AddArc.  A size is not   *)
(* negative (ProblemsAssumption), and one that Index has no room for is refused before the    *)
(* cast, which therefore keeps it.                                                  *)
IsValid == problem.n <= problem.input_dim /\ problem.n > 0 /\ 2 * problem.n < MaxIndex
Score(target, source) == problem.scores[target][source]
InboundArcs(target) ==
  [source \in Sources |->
     LET score == IF source = 0 THEN Score(target - 1, target - 1)
                  ELSE IF source = target THEN NotFinite
                  ELSE Score(target - 1, source - 1)
     IN  IF score = NotFinite THEN NoArc ELSE Arc(source, target, score)]

(* A penalty on root arcs for trees: one root is better than two. *)
RootPenalty(arcs) ==
  LET existing == {arcs[t][s] : t \in DOMAIN arcs, s \in Sources} \ {NoArc}
      scores == {arc.score : arc \in existing}
  IN  IF problem.forest \/ scores = {} THEN 0
      ELSE 1 + num_initial_nodes_ * (Max(scores) - Min(scores))
MaybePenalizeRootScoresForTree(arcs) ==
  LET penalty == RootPenalty(arcs)
  IN  [t \in DOMAIN arcs |->
         [arcs[t] EXCEPT ![0] = IF Exists(@) THEN [@ EXCEPT !.score = @ - penalty] ELSE @]]

RunSolver ==
  /\ phase = "init" /\ IsValid
  /\ arcs_' = MaybePenalizeRootScoresForTree([t \in 1 .. problem.n |-> InboundArcs(t)])
  /\ phase' = "contract" /\ at' = 1
  /\ UNCHANGED <<problem, forests, contracted_into_, argmax_arcs_, argmax_sources, max_score>>

RejectDigraph ==
  /\ phase = "init" /\ ~IsValid
  /\ phase' = "invalid"
  /\ UNCHANGED <<problem, arcs_, forests, contracted_into_, argmax_arcs_, at, argmax_sources, max_score>>

-----------------------------------------------------------------------------
(* The last of the best inbound arcs, or NoArc. *)
MaximumInboundArc(node) ==
  LET inbound == {s \in Sources : Exists(arcs_[node][s])}
      best == {s \in inbound : \A r \in inbound : arcs_[node][r].score <= arcs_[node][s].score}
  IN  IF inbound = {} THEN NoArc ELSE arcs_[node][Max(best)]

(* The cycle through node in the arcs selected, as a sequence of nodes. *)
Cycle(node, selected) ==
  LET next[k \in 0 .. num_possible_nodes_] ==
        IF k = 0 THEN node ELSE FindRoot(contracted_nodes_, selected[next[k - 1]].source)
      length == Min({k \in 1 .. num_possible_nodes_ : next[k] \in {next[j] : j \in 0 .. k - 1}})
  IN  [k \in 1 .. length |-> next[k - 1]]

(* MergeInboundArcs of each node of the cycle in turn: the first of the best arcs     *)
(* from each source, less the arc of the cycle that it would replace, and without      *)
(* self-loops.  Mutant: the arc that is replaced is forgotten.                        *)
MergedArcsNoOffset(cycle, selected, strong) ==
  [s \in Sources |->
     LET arc(k) == arcs_[cycle[k]][s]
         merged == {k \in DOMAIN cycle : Exists(arc(k)) /\ ~SameSet(strong, arc(k).source, arc(k).target)}
         best == {k \in merged : \A j \in merged : arc(j).score <= arc(k).score}
     IN  IF merged = {} THEN NoArc ELSE arc(Min(best))]
MergedArcs(cycle, selected, strong) ==
  [s \in Sources |->
     LET arc(k) == arcs_[cycle[k]][s]
         score(k) == arc(k).score - selected[cycle[k]].score
         merged == {k \in DOMAIN cycle : Exists(arc(k)) /\ ~SameSet(strong, arc(k).source, arc(k).target)}
         best == {k \in merged : \A j \in merged : score(j) <= score(k)}
     IN  IF merged = {} THEN NoArc
         ELSE [arc(Min(best)) EXCEPT !.score = score(Min(best))]]
LookedUp(cycle) ==
  UNION {{arcs_[c][s].source, arcs_[c][s].target} : c \in Range(cycle), s \in Sources}

(* ContractCycle: the nodes of the cycle become one strong component and map to a     *)
(* new node, which gets their inbound arcs.                                       *)
ContractCycle(node, selected) ==
  LET cycle == Cycle(node, selected)
      contracted_node == num_current_nodes_
      strong == FoldLeft(LAMBDA f, c : Union(f, selected[c].source, selected[c].target),
                         strong_components_, cycle)
  IN  /\ strong_components_' = Compressed(strong, LookedUp(cycle))
      /\ contracted_nodes_' =
           FoldLeft(LAMBDA f, c : UnionIntoSecond(Compressed(f, {selected[c].source}), c,
                                                  contracted_node),
                    contracted_nodes_, cycle)
      /\ contracted_into_' = [c \in DOMAIN contracted_into_ |->
                                IF c \in Range(cycle) THEN contracted_node ELSE contracted_into_[c]]
      /\ arcs_' = Append(arcs_, MergedArcs(cycle, selected, strong))
      /\ phase' = IF num_current_nodes_ < num_possible_nodes_
                       /\ \A c \in Range(cycle) : ~IsRoot(selected[c])
                                                  /\ FindRoot(contracted_nodes_, c) = c
                  THEN phase ELSE "aborted"

(* One iteration of ContractionPhase. *)
ContractionPhase ==
  /\ phase = "contract" /\ at < num_current_nodes_
  /\ LET arc == MaximumInboundArc(at)
         selected == [argmax_arcs_ EXCEPT ![at] = arc]
         source_component == FindRoot(weak_components_, arc.source)
         target_component == FindRoot(weak_components_, arc.target)
     IN  IF ~Exists(arc)
         THEN /\ phase' = "infeasible"
              /\ UNCHANGED <<arcs_, forests, contracted_into_, argmax_arcs_, at>>
         ELSE /\ argmax_arcs_' = selected /\ at' = at + 1
              /\ \/ /\ IsRoot(arc)
                    /\ UNCHANGED <<arcs_, forests, contracted_into_, phase>>
                 \/ /\ ~IsRoot(arc)
                    /\ LET looked_up == Compressed(weak_components_, {arc.source, arc.target})
                       IN  IF source_component = target_component
                           THEN weak_components_' = looked_up /\ ContractCycle(at, selected)
                           ELSE /\ weak_components_' =
                                     UnionOfRoots(looked_up, source_component, target_component)
                                /\ UNCHANGED <<arcs_, strong_components_, contracted_nodes_,
                                               contracted_into_, phase>>
  /\ UNCHANGED <<problem, argmax_sources, max_score>>

EndContraction ==
  /\ phase = "contract" /\ at = num_current_nodes_
  /\ phase' = "expand" /\ at' = num_current_nodes_ - 1
  /\ UNCHANGED <<problem, arcs_, forests, contracted_into_, argmax_arcs_, argmax_sources, max_score>>

(* One iteration of ExpansionPhase: a contracted node that is left gives its arc to     *)
(* the arc's target, and all nodes between them are deleted.  Mutant: only the          *)
(* innermost is.                                                                *)
BrokenInnermost(target, root) == {contracted_into_[target]} \ {kNullIndex, root}
Broken(target, root) ==
  LET into == [c \in -1 .. num_possible_nodes_ - 1 |->
                 IF c \in {kNullIndex, root} THEN c ELSE contracted_into_[c]]
      passed == Climb(into, contracted_into_[target], num_possible_nodes_)
  IN  {passed[k] : k \in DOMAIN passed} \ {kNullIndex, root}

ExpansionPhase ==
  /\ phase = "expand" /\ at >= num_initial_nodes_
  /\ at' = at - 1
  /\ IF contracted_into_[at] = kNullIndex THEN UNCHANGED <<argmax_arcs_, contracted_into_>>
     ELSE LET arc == argmax_arcs_[at]
              broken == Broken(arc.target, at)
          IN  /\ argmax_arcs_' = [argmax_arcs_ EXCEPT ![arc.target] = arc]
              /\ contracted_into_' = [c \in DOMAIN contracted_into_ |->
                                        IF c \in broken THEN kNullIndex ELSE contracted_into_[c]]
  /\ UNCHANGED <<problem, arcs_, forests, phase, argmax_sources, max_score>>

(* The rest of ExpansionPhase and of RunSolver: the tree is written out, and padded. *)
EndExpansion ==
  /\ phase = "expand" /\ at < num_initial_nodes_
  /\ LET arc(t) == argmax_arcs_[t + 1]
         num_roots == Cardinality({t \in 0 .. problem.n - 1 : IsRoot(arc(t))})
         argmax == [t \in 0 .. problem.n - 1 |-> IF IsRoot(arc(t)) THEN t ELSE arc(t).source - 1]
     IN  IF num_roots = 0 \/ \E t \in 0 .. problem.n - 1 : arc(t).target # t + 1
         THEN phase' = "aborted" /\ UNCHANGED <<argmax_sources, max_score>>
         ELSE IF ~problem.forest /\ num_roots # 1
         THEN phase' = "infeasible" /\ UNCHANGED <<argmax_sources, max_score>>
         ELSE /\ phase' = "done"
              /\ argmax_sources' = [t \in 0 .. problem.input_dim - 1 |->
                                      IF t < problem.n THEN argmax[t] ELSE -1]
              /\ max_score' = MapThenSumSet(LAMBDA t : Score(t, argmax[t]), DOMAIN argmax)
  /\ UNCHANGED <<problem, arcs_, forests, contracted_into_, argmax_arcs_, at>>

-----------------------------------------------------------------------------
Init ==
  /\ problem \in Problems
  /\ arcs_ = <<>>
  /\ weak_components_ = NewForest(num_initial_nodes_)
  /\ strong_components_ = NewForest(num_initial_nodes_)
  /\ contracted_nodes_ = NewForest(num_possible_nodes_)
  /\ contracted_into_ = [t \in 0 .. num_possible_nodes_ - 1 |-> 0]
  /\ argmax_arcs_ = [t \in 0 .. num_possible_nodes_ - 1 |-> NoArc]
  /\ phase = "init" /\ at = 0
  /\ argmax_sources = <<>> /\ max_score = 0

Next ==
  RunSolver \/ RejectDigraph \/ ContractionPhase \/ EndContraction \/ ExpansionPhase \/ EndExpansion

(* Solve is not interrupted: weak fairness of Next, in a form that does not need        *)
(* ENABLED, which TLC takes too long to evaluate here.                              *)
Fairness == []<>(phase \in {"done", "infeasible", "invalid", "aborted"}) \/ []<><<TRUE>>_vars
Spec == Init /\ [][Next]_vars /\ Fairness

-----------------------------------------------------------------------------
(* SpanningTreeIterator: what the trees and the forests over n nodes are. *)
NumRoots(sources) == Cardinality({t \in DOMAIN sources : sources[t] = t})
HasCycle(sources) ==
  \E t \in DOMAIN sources :
    LET top == Top(sources, t, Cardinality(DOMAIN sources))
    IN  sources[top] # top
NextTree(n, forest) ==
  {sources \in [0 .. n - 1 -> 0 .. n - 1] :
     /\ IF forest THEN NumRoots(sources) >= 1 ELSE NumRoots(sources) = 1
     /\ ~HasCycle(sources)}

Feasible == {sources \in NextTree(problem.n, problem.forest) :
               \A t \in DOMAIN sources : Score(t, sources[t]) # NotFinite}
ScoreOf(sources) == MapThenSumSet(LAMBDA t : Score(t, sources[t]), DOMAIN sources)

(* The op returns a tree (or a forest) of the digraph that no other one beats, with its   *)
(* score, and pads it with -1; it fails only on a digraph that has none: "num_roots will   *)
(* be more than 1 if and only if the original digraph is infeasible for trees".           *)
SolutionIsOptimal ==
  /\ phase = "done" =>
       LET tree == [t \in 0 .. problem.n - 1 |-> argmax_sources[t]]
       IN  /\ tree \in Feasible
           /\ max_score = Max({ScoreOf(sources) : sources \in Feasible})
           /\ max_score = ScoreOf(tree)
           /\ \A t \in problem.n .. problem.input_dim - 1 : argmax_sources[t] = -1
  /\ phase = "infeasible" => Feasible = {}

(* The three forests tell the same story.  Two nodes are strongly connected exactly when   *)
(* they have been contracted into the same node, which is where contracted_into_ leads;    *)
(* and weakly connected exactly when arcs selected so far join them.                       *)
Nodes == 1 .. problem.n
Topmost(t) ==
  Top([c \in DOMAIN contracted_into_ |-> IF contracted_into_[c] = 0 THEN c ELSE contracted_into_[c]],
      t, num_possible_nodes_)
Joined ==
  LET links == {{argmax_arcs_[t].source, argmax_arcs_[t].target} : t \in 1 .. at - 1}
      grow(sets, link) == {s \in sets : s \cap link = {}} \cup {UNION {s \in sets : s \cap link # {}}}
  IN  FoldSet(LAMBDA link, sets : grow(sets, link), {{t} : t \in Nodes},
              {link \in links : link \subseteq Nodes})
ForestsAgree ==
  phase = "contract" =>
    /\ \A x, y \in Nodes :
         SameSet(strong_components_, x, y) <=> SameSet(contracted_nodes_, x, y)
    /\ \A x \in 1 .. num_current_nodes_ - 1 : FindRoot(contracted_nodes_, x) = Topmost(x)
    /\ \A x, y \in Nodes :
         SameSet(weak_components_, x, y) <=> \E s \in Joined : {x, y} \subseteq s

(* Solve returns: contractions are at most n - 1, the nodes they add have room in the 2n   *)
(* that Init reserves, and no DCHECK fails on the way.                                  *)
SolveReturns == <>(phase \in {"done", "infeasible", "invalid"})
=============================================================================
