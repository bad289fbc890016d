---------------------------- MODULE MCArcStandard ----------------------------
(* Gold analyses of up to five tokens for ArcStandard: the projective trees,   *)
(* which is what ProjectivizeFilter leaves (DocumentFilters, OutputIsProjective).*)
EXTENDS ArcStandard

(* A label map without "ROOT". *)
NoRootLabel == -1

(* Labels alternate between the two kinds of tokens. *)
Analysis(h, n, k) == [n |-> n, head |-> h, label |-> [t \in 0 .. n - 1 |-> (t + k) % 2]]

ProjectiveSentences ==
  UNION {{Analysis(h, n, k) : h \in ProjectiveTrees(n), k \in 0 .. 1} : n \in 0 .. 5}
SomeSentences == {Analysis([t \in 0 .. n - 1 |-> t - 1], n, 0) : n \in 0 .. 5}
=============================================================================
