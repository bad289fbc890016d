-------------------------- MODULE MCDocumentFilters --------------------------
(* Corpora for DocumentFilters: each analysis of up to MaxTokens tokens and    *)
(* each tree of one token more alone, and sequences of documents of the        *)
(* different kinds that fill batches evenly and unevenly.                     *)
EXTENDS DocumentFilters

CONSTANT MaxTokens

Doc(n, head) == [n |-> n, head |-> head]
Chain == Doc(3, [u \in 0 .. 2 |-> u - 1])
Crossing == Doc(4, [u \in 0 .. 3 |-> <<-1, 3, 0, 0>>[u + 1]])
Cyclic == Doc(2, [u \in 0 .. 1 |-> 1 - u])

MCCorpora ==
  UNION {{<<Doc(n, h)>> : h \in Analyses(n)} : n \in 0 .. MaxTokens}
    \cup {<<Doc(MaxTokens + 1, h)>> : h \in Trees(MaxTokens + 1)}
    \cup UNION {[1 .. k -> {Chain, Crossing, Cyclic}] : k \in 0 .. 4}
=============================================================================
