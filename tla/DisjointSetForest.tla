-------------------------- MODULE DisjointSetForest --------------------------
(***************************************************************************)
(* The data structure of dragnn/mst/disjoint_set_forest.h.  A forest over the   *)
(* elements 0 .. size - 1 is [parents, ranks]; a root is its own parent.        *)
(* FindRoot is given as two operators: the root it returns and the forest it     *)
(* leaves behind.                                                            *)
(***************************************************************************)
EXTENDS Integers, FiniteSets

NewForest(size) == [parents |-> [e \in 0 .. size - 1 |-> e],
                    ranks |-> [e \in 0 .. size - 1 |-> 0]]

(* The elements passed by n steps upwards from x, and where they lead. *)
Climb(up, x, n) ==
  LET passed[k \in 0 .. n] == IF k = 0 THEN x ELSE up[passed[k - 1]]
  IN  passed
Top(up, x, n) == Climb(up, x, n)[n]

Elements(forest) == DOMAIN forest.parents
Size(forest) == Cardinality(Elements(forest))
FindRoot(forest, element) == Top(forest.parents, element, Size(forest))
SameSet(forest, element1, element2) == FindRoot(forest, element1) = FindRoot(forest, element2)

(* Path compression for the elements looked up: all they passed is a child of the   *)
(* root.                                                                       *)
Compressed(forest, elements) ==
  LET passed == {Climb(forest.parents, e, Size(forest))[k] : e \in elements, k \in 0 .. Size(forest)}
  IN  [forest EXCEPT !.parents =
         [e \in Elements(forest) |-> IF e \in passed THEN FindRoot(forest, e) ELSE @[e]]]

(* Union by rank. *)
UnionOfRoots(forest, root1, root2) ==
  IF root1 = root2 THEN forest
  ELSE IF forest.ranks[root2] < forest.ranks[root1]
  THEN [forest EXCEPT !.parents[root2] = root1]
  ELSE IF forest.ranks[root1] < forest.ranks[root2]
  THEN [forest EXCEPT !.parents[root1] = root2]
  ELSE [forest EXCEPT !.parents[root1] = root2, !.ranks[root2] = @ + 1]

(* UnionOfRoots without union by rank: the second root is the root.  Mutant: the first. *)
UnionIntoFirst(forest, root1, root2) ==
  IF root1 = root2 THEN forest ELSE [forest EXCEPT !.parents[root2] = root1]
UnionIntoSecond(forest, root1, root2) ==
  IF root1 = root2 THEN forest ELSE [forest EXCEPT !.parents[root1] = root2]

Union(forest, element1, element2) ==
  UnionOfRoots(Compressed(forest, {element1, element2}),
               FindRoot(forest, element1), FindRoot(forest, element2))
=============================================================================
