------------------------- MODULE MCTransitionSystems -------------------------
(***************************************************************************)
(* Small sentences for the transition systems: all texts of up to four         *)
(* characters for those that read characters, all annotations of up to three    *)
(* tokens for the others.                                                     *)
(***************************************************************************)
EXTENDS TransitionSystems

MaxTokens == 3
MaxChars == 4

Char == [len : {1, 2}, break : {NO_BREAK}] \cup [len : {1}, break : 1 .. SENTENCE_BREAK]
ShortChar == [len : {1, 2}, break : {NO_BREAK}] \cup [len : {1}, break : {SPACE_BREAK}]

(* The ways to mark the characters of a text that start a token, those that end one and     *)
(* those outside of all, which are breaks: "B"egin, "I"nside, "O"utside.                *)
Marks(text) ==
  {m \in [DOMAIN text -> {"B", "I", "O"}] :
     \A c \in DOMAIN text :
       /\ m[c] = "O" => text[c].break # NO_BREAK
       /\ m[c] = "B" => text[c].break = NO_BREAK
       /\ m[c] = "I" => c > 1 /\ m[c - 1] # "O"
       /\ m[c] = "I" /\ text[c].break # NO_BREAK => c < Len(text) /\ m[c + 1] = "I"}
Marked(text, m) ==
  LET begins == SelectSeq([c \in DOMAIN text |-> c], LAMBDA c : m[c] = "B")
      EndOf(b) == CHOOSE e \in b .. Len(text) :
                    /\ \A c \in b + 1 .. e : m[c] = "I"
                    /\ e = Len(text) \/ m[e + 1] # "I"
  IN  [text |-> text,
       tokens |-> [t \in DOMAIN begins |->
         [start |-> CharStart(text)[begins[t]], end |-> CharEnd(text)[EndOf(begins[t])],
          tag |-> 0, head |-> -1, label |-> 0]]]
Texts(char) == UNION {[1 .. n -> char] : n \in 1 .. MaxChars}
Spelled(char) == UNION {{Marked(text, m) : m \in Marks(text)} : text \in Texts(char)}

(* Sentences of one-letter tokens, with all annotations; a token is no head of itself. *)
Annotated(tags, labels) ==
  UNION {{[text |-> [c \in 1 .. n |-> [len |-> 1, break |-> NO_BREAK]],
           tokens |-> [t \in 1 .. n |->
             [start |-> t - 1, end |-> t - 1, tag |-> a[t].tag, head |-> a[t].head,
              label |-> a[t].label]]] :
            a \in {f \in [1 .. n -> [tag : tags, head : -1 .. n - 1, label : labels]] :
                     \A t \in 1 .. n : f[t].head # t - 1}} : n \in 0 .. MaxTokens}

MCSize == 2
MCNumTags == 2
Chain(tags) ==
  {s \in Annotated(tags, {0}) : \A t \in DOMAIN s.tokens : s.tokens[t].head = t - 2}

(* A token that starts within a character. *)
Misaligned ==
  {[text |-> <<[len |-> 2, break |-> NO_BREAK]>>,
    tokens |-> <<[start |-> 1, end |-> 1, tag |-> 0, head |-> -1, label |-> 0]>>]}

MCCorpus ==
  [y \in Systems |->
     CASE y \in {"tagger", "morpher"} -> Chain(0 .. MCNumTags)
       [] y \in {"labels", "heads_labels"} -> Annotated({0}, 0 .. MCSize)
       [] y = "heads" -> Annotated({0}, {0})
       [] y = "char-shift-only" -> Spelled(ShortChar)
       [] y = "binary-segment-transitions" -> Spelled(Char) \cup Misaligned
       [] OTHER -> Chain({0})]
MCRootLabels == {-1, 0, 1}
=============================================================================
