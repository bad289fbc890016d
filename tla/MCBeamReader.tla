---------------------------- MODULE MCBeamReader ----------------------------
(* Sentences for BeamReader.  The arc-standard ones are computed from the        *)
(* definitions of ArcStandard, with one label: a parser state is the next token   *)
(* followed by the stack.  The uneven ones have paths of different lengths: an action      *)
(* consumes one token or two.                                                  *)
EXTENDS BeamReader

Parser(tree, x) ==
  INSTANCE ArcStandard WITH
    NumLabels <- 1, RootLabel <- 0, Sentences <- {}, Predicted <- {},
    sentence_ <- tree, next_ <- Head(x), stack_ <- Tail(x),
    head_ <- <<>>, label_ <- <<>>, step_for_token_ <- <<>>, parent_step_for_token_ <- <<>>,
    parent_for_token_ <- <<>>, num_steps_ <- 0, is_gold <- FALSE, aborted <- FALSE,
    touched <- <<>>, reduced <- <<>>

(* Shift, left arc, right arc. *)
After(x, action) ==
  CASE action = 0 -> <<Head(x) + 1>> \o Append(Tail(x), Head(x))
    [] action = 1 -> RemoveAt(x, Len(x) - 1)
    [] action = 2 -> Front(x)

Tree(heads) == [n |-> Len(heads), head |-> [t \in 0 .. Len(heads) - 1 |-> heads[t + 1]],
                label |-> [t \in 0 .. Len(heads) - 1 |-> 0]]
ArcStandardSentence(heads) ==
  LET tree == Tree(heads)
      start == <<0, -1>>
      allowed(x) == {a \in 0 .. 2 : Parser(tree, x)!IsAllowedAction(a)}
      reach[k \in 0 .. 2 * tree.n] ==
        IF k = 0 THEN {start}
        ELSE reach[k - 1] \cup UNION {{After(x, a) : a \in allowed(x)} : x \in reach[k - 1]}
      states == reach[2 * tree.n]
  IN  [start |-> start,
       final |-> {x \in states : Parser(tree, x)!IsFinalState},
       moves |-> [x \in states |-> [a \in allowed(x) |-> After(x, a)]],
       gold |-> [x \in states |-> Parser(tree, x)!GetNextGoldAction]]

UnevenSentence(n, gold) ==
  LET states == {<<x>> : x \in 0 .. n}
  IN  [start |-> <<0>>, final |-> {<<n>>},
       moves |-> [x \in states |-> [a \in {a \in 0 .. 1 : x[1] + a + 1 <= n} |-> <<x[1] + a + 1>>]],
       gold |-> [x \in states |-> gold]]

Training(corpus, batch, size, steps) ==
  [corpus |-> corpus, batch_size |-> batch, max_beam_size |-> size, max_steps |-> steps,
   continue_until_all_final |-> FALSE, always_start_new_sentences |-> FALSE]
Evaluation(corpus, batch, size, steps) ==
  [corpus |-> corpus, batch_size |-> batch, max_beam_size |-> size, max_steps |-> steps,
   continue_until_all_final |-> TRUE, always_start_new_sentences |-> TRUE]

One == ArcStandardSentence(<<-1>>)
Two == ArcStandardSentence(<<-1, 0>>)
Three == ArcStandardSentence(<<1, -1, 1>>)
(* The tokens 0 and 2 are joined across the arc from the root to token 1. *)
NonProjective == ArcStandardSentence(<<1, -1, 0>>)
Short == UnevenSentence(1, 0)
Uneven == UnevenSentence(3, 0)

(* Training relies on an oracle that only proposes what is allowed: projective trees. *)
MCRuns ==
  LET graphs == {<<<<Two>>, 1, 2, 3>>, <<<<Three>>, 1, 2, 4>>, <<<<Two, One>>, 1, 3, 4>>,
                 <<<<One, Two, One>>, 2, 2, 3>>, <<<<Two, One>>, 2, 1, 4>>,
                 <<<<Uneven, Short>>, 2, 2, 3>>, <<<<>>, 2, 2, 2>>}
  IN  {Training(g[1], g[2], g[3], g[4]) : g \in graphs}
        \cup {Evaluation(g[1], g[2], g[3], g[4]) : g \in graphs \cup {<<<<NonProjective>>, 1, 2, 6>>}}


(* No preference; a preference for each action; one that depends on the row. *)
MCScoreRules ==
  {[row \in 1 .. 3 |-> [a \in Actions |-> 0]],
   [row \in 1 .. 3 |-> [a \in Actions |-> IF a = 0 THEN 1 ELSE 0]],
   [row \in 1 .. 3 |-> [a \in Actions |-> IF a = 1 THEN 1 ELSE 0]],
   [row \in 1 .. 3 |-> [a \in Actions |-> IF a = row THEN 2 ELSE 1]]}
=============================================================================
