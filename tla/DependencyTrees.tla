--------------------------- MODULE DependencyTrees ---------------------------
(***************************************************************************)
(* What a dependency analysis is, independently of any code: a function head  *)
(* from the tokens 0 .. n-1 to -1 .. n-1, where -1 is the artificial root.     *)
(* The modules of the document filters and of the transition systems state     *)
(* their properties with these definitions.                                   *)
(***************************************************************************)
EXTENDS Integers

(* The tokens, and perhaps the root, on the way up from t: t included. *)
Upward(head, n, t) ==
  LET up[k \in 0 .. n] ==
        IF k = 0 THEN {t} ELSE up[k - 1] \cup {head[u] : u \in up[k - 1] \ {-1}}
  IN  up[n]

IsTree(head, n) == \A t \in 0 .. n - 1 : -1 \in Upward(head, n, t)

(* Whatever lies under an arc is below the head of the arc. *)
IsProjective(head, n) ==
  \A t, u \in 0 .. n - 1 :
    (t < u /\ u < head[t]) \/ (head[t] < u /\ u < t) => head[t] \in Upward(head, n, u)

Analyses(n) == [0 .. n - 1 -> -1 .. n - 1]
Trees(n) == {h \in Analyses(n) : IsTree(h, n)}
ProjectiveTrees(n) == {h \in Trees(n) : IsProjective(h, n)}
=============================================================================
