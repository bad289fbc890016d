----------------------------- MODULE MCMstSolver -----------------------------
(* Digraphs for MstSolver. *)
EXTENDS MstSolver

Matrix(n, f) == [t \in 0 .. n - 1 |-> [s \in 0 .. n - 1 |-> f[t * n + s]]]
Digraphs(n, scores) ==
  {[n |-> n, input_dim |-> IF n = 2 THEN 3 ELSE n, forest |-> forest, scores |-> Matrix(n, f)] :
     forest \in BOOLEAN, f \in [0 .. n * n - 1 -> scores]}

(* Four nodes, all arcs, any of which may be better than the rest; one root. *)
Dense ==
  {[n |-> 4, input_dim |-> 4, forest |-> FALSE,
    scores |-> [t \in 0 .. 3 |-> [s \in 0 .. 3 |->
                  IF s = t THEN (IF t = 0 THEN 0 ELSE NotFinite)
                  ELSE IF <<t, s>> \in better THEN 3 - s ELSE -s]]] :
     better \in SUBSET {<<t, s>> \in (0 .. 3) \X (0 .. 3) : s # t /\ t # 0}}

(* No nodes, more than the input has, more than an index can hold. *)
Invalid == {[n |-> x[1], input_dim |-> x[2], forest |-> FALSE, scores |-> <<>>] :
              x \in {<<0, 1>>, <<3, 2>>, <<5, 5>>}}

(* Of the digraphs that differ in the names of the nodes, those with the best roots first. *)
Rank(score) == IF score = NotFinite THEN -1 ELSE score
BestRootsFirst(digraphs) ==
  {p \in digraphs : \A t \in 1 .. p.n - 1 : Rank(p.scores[t][t]) <= Rank(p.scores[t - 1][t - 1])}

MCProblems ==
  Digraphs(1, {NotFinite, 0}) \cup Digraphs(2, {NotFinite, -1, 0, 2})
    \cup BestRootsFirst(Digraphs(3, {NotFinite, 0, 1})) \cup Dense \cup Invalid
=============================================================================
