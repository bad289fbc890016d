-------------------------- MODULE TransitionSystems --------------------------
(***************************************************************************)
(* The transition systems beside arc-standard, each over one ParserState:    *)
(* tagger and morpher, shift-only and char-shift-only in both directions,     *)
(* once, heads, labels, heads_labels, and binary-segment-transitions with     *)
(* the conversion of a sentence to characters that makes its training data.   *)
(*                                                                         *)
(* A sentence is [text, tokens]: a character has its length in bytes and the   *)
(* break level it causes (0 if it is no break character), a token its first    *)
(* and last byte, tag, head and label.  Tokens and characters are numbered     *)
(* from 0 in the state, as in the code.                                      *)
(***************************************************************************)
EXTENDS Integers, Sequences, SequencesExt, TLC

CONSTANTS
  Size,         \* of the label map; label Size stands for one that is not in it
  NumTags,      \* of the tag map; tag NumTags stands for one that is not in it
  Corpus,       \* for each system, the sentences that it is run on
  RootLabels    \* the indices of "ROOT" in the label map; -1 if it is not there

VARIABLES
  system, left_to_right_, root_label_,    \* the configuration
  sentence_, original,                    \* original: before it was cut into characters
  next_, stack_, head_, label_,           \* ParserState
  tag_, char_, done_,                     \* the transition states of the systems
  num_steps_, is_gold,                    \* steps taken, and whether all were the oracle's
  document, aborted                       \* what AddParseToDocument wrote; a CHECK failed

parserVars == <<next_, stack_, head_, label_>>
stateVars == <<tag_, char_, done_>>
inputVars == <<system, left_to_right_, root_label_, sentence_, original>>
vars == <<inputVars, parserVars, stateVars, num_steps_, is_gold, document, aborted>>

null == <<>>
NO_BREAK == 0
SPACE_BREAK == 1
LINE_BREAK == 2
SENTENCE_BREAK == 3

-----------------------------------------------------------------------------
(* The text. *)
(* The first byte of the c-th character. *)
CharStart(text) ==
  LET start[c \in 1 .. Len(text) + 1] ==
        IF c = 1 THEN 0 ELSE start[c - 1] + text[c - 1].len
  IN  start
CharEnd(text) == [c \in 1 .. Len(text) |-> CharStart(text)[c + 1] - 1]

DocTokensUTF8Consistent(s) ==
  \A t \in DOMAIN s.tokens :
    \E b, e \in DOMAIN s.text :
      CharStart(s.text)[b] = s.tokens[t].start /\ CharEnd(s.text)[e] = s.tokens[t].end

(* token_ids: the token that a byte is in, or -1. *)
TokenIds(s, byte) ==
  LET in == {t \in DOMAIN s.tokens : s.tokens[t].start <= byte /\ byte <= s.tokens[t].end}
  IN  IF in = {} THEN -1 ELSE CHOOSE t \in in : TRUE

(* A sentence with a token for each character, whose break level tells whether a word   *)
(* starts there.                                                                   *)
ConvertToCharTokenDoc(s) ==
  LET b == CharStart(s.text)
      e == CharEnd(s.text)
      IsSplit(c) ==
        c = 1 \/ TokenIds(s, b[c]) = -1 \/ TokenIds(s, b[c]) # TokenIds(s, e[c - 1])
  IN  [text |-> s.text,
       tokens |-> [c \in DOMAIN s.text |->
         [start |-> b[c], end |-> e[c], tag |-> 0, head |-> -1, label |-> 0,
          break_level |-> IF IsSplit(c) THEN SPACE_BREAK ELSE NO_BREAK]]]

-----------------------------------------------------------------------------
(* ParserState. *)
num_tokens_ == Len(sentence_.tokens)
Tokens == 0 .. num_tokens_ - 1
GetToken(index) == sentence_.tokens[index + 1]
NumLabels == Size + (IF root_label_ = -1 THEN 1 ELSE 0)
EndOfInput == next_ = num_tokens_
GoldHead(index) == GetToken(index).head
GoldLabel(index) == IF GetToken(index).label < Size THEN GetToken(index).label ELSE root_label_
GoldTag(index) == IF GetToken(index).tag < NumTags THEN GetToken(index).tag ELSE -1

-----------------------------------------------------------------------------
(* CharShiftTransitionState::Init: the characters from the first to the last token. *)
CharsOf(s) ==
  LET b == CharStart(s.text)
      e == CharEnd(s.text)
      in == SelectSeq([c \in DOMAIN s.text |-> c],
                      LAMBDA c : b[c] >= s.tokens[1].start /\ e[c] <= Last(s.tokens).end)
      Step(acc, c) ==
        [cur_token |-> IF s.tokens[acc.cur_token].end = e[c] THEN acc.cur_token + 1 ELSE acc.cur_token,
         starts |-> Append(acc.starts, s.tokens[acc.cur_token].start = b[c]),
         ends |-> Append(acc.ends, s.tokens[acc.cur_token].end = e[c])]
      all == FoldLeft(Step, [cur_token |-> 1, starts |-> <<>>, ends |-> <<>>], in)
  IN  [num_chars_ |-> Len(in),
       pos |-> [i \in 1 .. Len(in) |-> b[in[i]]],
       len |-> [i \in 1 .. Len(in) |-> s.text[in[i]].len],
       token_starts_ |-> {i \in 0 .. Len(in) - 1 : all.starts[i + 1]},
       token_ends_ |-> {i \in 0 .. Len(in) - 1 : all.ends[i + 1]}]

IsTokenStart(i) == i \in char_.token_starts_
IsTokenEnd(i) == i \in char_.token_ends_

-----------------------------------------------------------------------------
(* ParserState::Push and Advance, with their CHECKs. *)
PushAndAdvance(next) ==
  IF Len(stack_) <= num_tokens_ /\ next_ >= -1 /\ next <= num_tokens_
  THEN stack_' = Append(stack_, next_) /\ next_' = next /\ UNCHANGED aborted
  ELSE aborted' = TRUE /\ UNCHANGED <<stack_, next_>>

(* AddArc and Advance. *)
AddArc(head, label) ==
  /\ head_' = [head_ EXCEPT ![next_] = head]
  /\ label_' = [label_ EXCEPT ![next_] = label]
  /\ next_' = next_ + 1
  /\ UNCHANGED <<stack_, stateVars, aborted>>
Abort == aborted' = TRUE /\ UNCHANGED <<parserVars, stateVars>>

-----------------------------------------------------------------------------
(* tagger and morpher. *)
PerformTag(action) ==
  /\ system \in {"tagger", "morpher"}
  /\ tag_' = [tag_ EXCEPT ![next_] = action]
  /\ PushAndAdvance(next_ + 1)
  /\ UNCHANGED <<head_, label_, char_, done_>>

(* shift-only. *)
ShiftIsAllowed == IF left_to_right_ THEN ~EndOfInput ELSE next_ >= 0
ShiftIsFinal == IF left_to_right_ THEN EndOfInput ELSE next_ < 0
PerformShift ==
  /\ system = "shift-only"
  /\ PushAndAdvance(IF left_to_right_ THEN next_ + 1 ELSE next_ - 1)
  /\ UNCHANGED <<head_, label_, stateVars>>

(* once. *)
PerformOnce ==
  /\ system = "once"
  /\ done_' = TRUE
  /\ UNCHANGED <<parserVars, tag_, char_, aborted>>

(* char-shift-only.  Mutants: reading to the left stops before the first character; the   *)
(* token moves on after its first character was read, not before.                    *)
CharShiftEndsEarly ==
  IF left_to_right_ THEN char_.next = char_.num_chars_ ELSE char_.next <= 0
CharShiftIsFinal ==
  IF left_to_right_ THEN char_.next = char_.num_chars_ ELSE char_.next < 0
ShiftTokenLate(next) == IF left_to_right_ THEN IsTokenStart(next) ELSE IsTokenEnd(next - 1)
ShiftToken(next) == IF left_to_right_ THEN IsTokenStart(next + 1) ELSE IsTokenEnd(next - 1)
PerformCharShift ==
  LET step == IF left_to_right_ THEN 1 ELSE -1
  IN  /\ system = "char-shift-only"
      /\ IF ShiftToken(char_.next) THEN PushAndAdvance(next_ + step)
         ELSE UNCHANGED <<stack_, next_, aborted>>
      /\ char_' = [char_ EXCEPT !.next = @ + step]
      /\ UNCHANGED <<head_, label_, tag_, done_>>

(* The features first-char-focus and last-char-focus: for each token the index of the     *)
(* character that the byte is in, found in one pass over the text. *)
CharFocus(ByteFocus) ==
  LET chars == CharsOf(sentence_)
      Find(acc, i) ==
        IF /\ acc.cur_token < num_tokens_
           /\ LET byte == ByteFocus[acc.cur_token]
              IN  byte >= chars.pos[i] /\ byte < chars.pos[i] + chars.len[i]
        THEN [cur_token |-> acc.cur_token + 1, workspace |-> Append(acc.workspace, i - 1)]
        ELSE acc
  IN  FoldLeft(Find, [cur_token |-> 0, workspace |-> <<>>],
               [i \in DOMAIN chars.pos |-> i]).workspace
FirstCharFocus == CharFocus([t \in Tokens |-> GetToken(t).start])
LastCharFocus == CharFocus([t \in Tokens |-> GetToken(t).end])

(* heads: a root is written as a self-loop. *)
HeadIsAllowed(action) == ~EndOfInput /\ action \in Tokens
HeadGoldAction == IF GoldHead(next_) = -1 THEN next_ ELSE GoldHead(next_)
PerformHead(action) ==
  /\ system = "heads"
  /\ IF HeadIsAllowed(action) THEN AddArc(IF action = next_ THEN -1 ELSE action, 0) ELSE Abort

(* labels: the root label is allowed iff the head is the root. *)
LabelIsAllowed(action) ==
  /\ ~EndOfInput /\ action >= 0 /\ action < NumLabels
  /\ (GoldHead(next_) < 0) = (action = root_label_)
PerformLabel(action) ==
  /\ system = "labels"
  /\ IF LabelIsAllowed(action) THEN AddArc(GoldHead(next_), action) ELSE Abort

(* heads_labels.  Mutant: the label that a map without "ROOT" has in addition is not      *)
(* counted.                                                                         *)
EncodeBySize(head, label) == head * Size + label
EncodeActionWithState(head, label) == head * NumLabels + label
DecodeActionWithState(action) == [head |-> action \div NumLabels, label |-> action % NumLabels]
HeadLabelIsAllowed(action) == ~EndOfInput /\ action >= 0 /\ action < num_tokens_ * NumLabels
HeadLabelGoldAction ==
  EncodeActionWithState(IF GoldHead(next_) = -1 THEN next_ ELSE GoldHead(next_), GoldLabel(next_))
PerformHeadLabel(action) ==
  LET a == DecodeActionWithState(action)
  IN  /\ system = "heads_labels"
      /\ IF HeadLabelIsAllowed(action) THEN AddArc(IF a.head = next_ THEN -1 ELSE a.head, a.label)
         ELSE Abort

(* binary-segment-transitions: the starts of the words are on the stack. *)
START == 0
MERGE == 1
SegmentGoldAction ==
  IF next_ = 0 \/ GetToken(next_).break_level # NO_BREAK THEN START ELSE MERGE
PerformSegment(action) ==
  /\ system = "binary-segment-transitions"
  /\ IF action < 0 \/ action = START THEN PushAndAdvance(next_ + 1)
     ELSE next_' = next_ + 1 /\ UNCHANGED <<stack_, aborted>>
  /\ UNCHANGED <<head_, label_, stateVars>>

-----------------------------------------------------------------------------
(* The virtual methods.  The actions are those that the network gives scores for. *)
Actions ==
  CASE system \in {"tagger", "morpher"} -> 0 .. NumTags - 1
    [] system = "heads" -> Tokens
    [] system = "labels" -> 0 .. NumLabels - 1
    [] system = "heads_labels" -> 0 .. num_tokens_ * NumLabels - 1
    [] system = "binary-segment-transitions" -> {START, MERGE}
    [] OTHER -> {0}
IsFinalState ==
  CASE system = "shift-only" -> ShiftIsFinal
    [] system = "char-shift-only" -> CharShiftIsFinal
    [] system = "once" -> done_
    [] OTHER -> EndOfInput
IsAllowedAction(action) ==
  CASE system = "shift-only" -> ShiftIsAllowed
    [] system = "heads" -> HeadIsAllowed(action)
    [] system = "labels" -> LabelIsAllowed(action)
    [] system = "heads_labels" -> HeadLabelIsAllowed(action)
    [] system = "binary-segment-transitions" -> TRUE
    [] system = "once" -> action = 0 /\ ~done_
    [] OTHER -> ~IsFinalState
GetNextGoldAction ==
  CASE system \in {"tagger", "morpher"} -> GoldTag(next_)
    [] system = "heads" -> HeadGoldAction
    [] system = "labels" -> GoldLabel(next_)
    [] system = "heads_labels" -> HeadLabelGoldAction
    [] system = "binary-segment-transitions" -> SegmentGoldAction
    [] OTHER -> 0
PerformAction(action) ==
  \/ PerformTag(action) \/ PerformShift \/ PerformOnce \/ PerformCharShift
  \/ PerformHead(action) \/ PerformLabel(action) \/ PerformHeadLabel(action)
  \/ PerformSegment(action)

-----------------------------------------------------------------------------
(* AddParseToDocument. *)
(* A label as a string: -2 is the empty one, and the root label stands for "ROOT". *)
LabelAsString(label) == IF label = root_label_ \/ label \in 0 .. Size - 1 THEN label ELSE -2
LabelOf(i, rewrite_root_labels) ==
  IF rewrite_root_labels /\ head_[i] = -1 THEN LabelAsString(root_label_)
  ELSE LabelAsString(label_[i])

(* The words: a character that is no break starts one or is appended to the last.  The     *)
(* break level of a word is that of the character before it, so that a first word at the    *)
(* start of the text gets NO_BREAK, and not the SPACE_BREAK that its character has.          *)
(* Mutant: a break character is appended, too.                                      *)
SegmentWithBreaks ==
  LET Step(acc, c) ==
        LET t == sentence_.tokens[c]
            is_break == sentence_.text[c].break # NO_BREAK
            starts == (\E k \in DOMAIN stack_ : stack_[k] = c - 1) \/ acc.words = <<>>
        IN  [words |->
               IF starts /\ is_break THEN acc.words
               ELSE IF starts
                    THEN Append(acc.words, [start |-> t.start, end |-> t.end, word |-> <<c>>,
                                            break_level |-> acc.break_level])
                    ELSE [acc.words EXCEPT ![Len(acc.words)].word = Append(@, c),
                                           ![Len(acc.words)].end = t.end],
             break_level |-> IF sentence_.text[c].break >= LINE_BREAK THEN LINE_BREAK
                             ELSE sentence_.text[c].break]
  IN  FoldLeft(Step, [words |-> <<>>, break_level |-> NO_BREAK],
               [c \in DOMAIN sentence_.text |-> c]).words
Segment ==
  LET Step(acc, c) ==
        LET t == sentence_.tokens[c]
            is_break == sentence_.text[c].break # NO_BREAK
            starts == (\E k \in DOMAIN stack_ : stack_[k] = c - 1) \/ acc.words = <<>>
        IN  [words |->
               IF is_break THEN acc.words
               ELSE IF starts
                    THEN Append(acc.words, [start |-> t.start, end |-> t.end, word |-> <<c>>,
                                            break_level |-> acc.break_level])
                    ELSE [acc.words EXCEPT ![Len(acc.words)].word = Append(@, c),
                                           ![Len(acc.words)].end = t.end],
             break_level |-> IF sentence_.text[c].break >= LINE_BREAK THEN LINE_BREAK
                             ELSE sentence_.text[c].break]
  IN  FoldLeft(Step, [words |-> <<>>, break_level |-> NO_BREAK],
               [c \in DOMAIN sentence_.text |-> c]).words

(* What the systems write into the tokens; -1 is the empty tag. *)
ParsedToken(i, rewrite_root_labels) ==
  LET t == GetToken(i)
  IN  CASE system \in {"tagger", "morpher"} -> [t EXCEPT !.tag = tag_[i]]
        [] system = "heads" -> [t EXCEPT !.head = head_[i]]
        [] system = "labels" -> [t EXCEPT !.label = LabelOf(i, rewrite_root_labels)]
        [] system = "heads_labels" ->
             [t EXCEPT !.head = head_[i], !.label = LabelOf(i, rewrite_root_labels)]
        [] OTHER -> t

AddParseToDocument ==
  /\ ~aborted /\ IsFinalState /\ document = null
  /\ \E rewrite_root_labels \in BOOLEAN :
       document' = IF system = "binary-segment-transitions" THEN Segment
                   ELSE [i \in DOMAIN sentence_.tokens |-> ParsedToken(i - 1, rewrite_root_labels)]
  /\ UNCHANGED <<inputVars, parserVars, stateVars, num_steps_, is_gold, aborted>>

-----------------------------------------------------------------------------
(* Beam::AdvanceFromOracle and AdvanceFromPrediction, which leave final states alone. *)
AdvanceFromOracle ==
  /\ ~aborted /\ ~IsFinalState
  /\ PerformAction(GetNextGoldAction)
  /\ num_steps_' = num_steps_ + 1
  /\ UNCHANGED <<inputVars, is_gold, document>>

AdvanceFromPrediction ==
  /\ ~aborted /\ ~IsFinalState
  /\ \E action \in Actions :
       /\ IsAllowedAction(action)
       /\ PerformAction(action)
       /\ is_gold' = (is_gold /\ action = GetNextGoldAction)
  /\ num_steps_' = num_steps_ + 1
  /\ UNCHANGED <<inputVars, document>>

-----------------------------------------------------------------------------
Systems ==
  {"tagger", "morpher", "shift-only", "char-shift-only", "once", "heads", "labels",
   "heads_labels", "binary-segment-transitions"}
Directed == {"shift-only", "char-shift-only"}

(* Where the Init of a transition state has the ParserState advance to. *)
FirstToken(s, left_to_right) == IF left_to_right THEN 0 ELSE Len(s.tokens) - 1

(* The sentence that a system is run on: the segmenter is given the characters. *)
Converted(s) ==
  IF system = "binary-segment-transitions" THEN ConvertToCharTokenDoc(s) ELSE s
CharState(s) ==
  IF system # "char-shift-only" THEN null
  ELSE CharsOf(s) @@ [next |-> IF left_to_right_ THEN 0 ELSE CharsOf(s).num_chars_ - 1]

(* What the systems take for granted.  The characters start with those of the first token.    *)
(* Only texts whose tokens consist of whole characters are converted.  Without "ROOT" in    *)
(* the map, labels has no action for a root, and an unknown label, -1, makes heads_labels      *)
(* encode another head; labels CHECKs that roots, and only they, have the root label.       *)
Precondition(s) ==
  CASE system = "char-shift-only" -> s.tokens # <<>>
    [] system = "binary-segment-transitions" -> DocTokensUTF8Consistent(s)
    [] system = "labels" ->
         /\ root_label_ # -1
         /\ \A t \in DOMAIN s.tokens :
              (s.tokens[t].head = -1) = (s.tokens[t].label \in {root_label_, Size})
    [] system = "heads_labels" ->
         root_label_ # -1 \/ \A t \in DOMAIN s.tokens : s.tokens[t].label < Size
    [] OTHER -> TRUE

Init ==
  /\ system \in Systems
  /\ left_to_right_ \in IF system \in Directed THEN BOOLEAN ELSE {TRUE}
  /\ root_label_ \in RootLabels
  /\ original \in Corpus[system]
  /\ Precondition(original)
  /\ sentence_ = Converted(original)
  /\ next_ = FirstToken(sentence_, left_to_right_)
  /\ stack_ = <<>>
  /\ head_ = [i \in Tokens |-> -1]
  /\ label_ = [i \in Tokens |-> root_label_]
  /\ tag_ = IF system \in {"tagger", "morpher"} THEN [i \in Tokens |-> -1] ELSE null
  /\ char_ = CharState(sentence_)
  /\ done_ = FALSE
  /\ num_steps_ = 0
  /\ is_gold = TRUE
  /\ document = null
  /\ aborted = FALSE

Next == AdvanceFromOracle \/ AdvanceFromPrediction \/ AddParseToDocument
Spec == Init /\ [][Next]_vars

-----------------------------------------------------------------------------

(* Following the oracle and writing the result gives the annotation back: the tags and        *)
(* labels that the maps know (others become empty, or the root's), every head, and for the   *)
(* segmenter, through the characters, the bytes of every token.                          *)
OracleRestoresAnnotation ==
  is_gold /\ document # null =>
    /\ Len(document) = Len(original.tokens)
    /\ \A i \in DOMAIN document :
         LET t == original.tokens[i]
         IN  IF system = "binary-segment-transitions"
             THEN document[i].start = t.start /\ document[i].end = t.end
             ELSE /\ document[i].head = t.head
                  /\ document[i].tag = IF system \in {"tagger", "morpher"} /\ t.tag >= NumTags
                                       THEN -1 ELSE t.tag
                  /\ \/ document[i].label = t.label
                     \/ (t.label >= Size \/ t.head = -1) /\ document[i].label = root_label_

(* Whether the oracle or the network chooses the actions, no CHECK fails and until the end    *)
(* some action is allowed.  A run takes one step for each token (each character, or one), and  *)
(* in step k the focus is on the k-th of them from the side that reading starts from: the     *)
(* translations between the steps of components (identity, reverse-token, reverse-char) count  *)
(* on it.                                                                              *)
StepsFollowTheInput ==
  LET n == CASE system = "once" -> 1
             [] system = "char-shift-only" -> char_.num_chars_
             [] OTHER -> num_tokens_
      focus == IF system = "char-shift-only" THEN char_.next ELSE next_
  IN  /\ ~aborted
      /\ IsFinalState \/ \E action \in Actions : IsAllowedAction(action)
      /\ IsFinalState = (num_steps_ = n)
      /\ num_steps_ <= n
      /\ system # "once" =>
           focus = IF left_to_right_ THEN num_steps_ ELSE n - 1 - num_steps_

(* While char-shift-only reads a character, the ParserState is at its token (at the one that   *)
(* was read before, for a character between two), and all that were left are on the stack.   *)
(* The focus features, which find the characters of the tokens on their own, agree: they give  *)
(* every token's first and last character.                                             *)
StateIsAtToken ==
  LET byte == char_.pos[char_.next + 1]
  IN  /\ next_ \in Tokens
      /\ IF left_to_right_
         THEN \A t \in Tokens : t <= next_ <=> GetToken(t).start <= byte
         ELSE \A t \in Tokens : t >= next_ <=> GetToken(t).end >= byte
      /\ Len(stack_) = IF left_to_right_ THEN next_ ELSE num_tokens_ - 1 - next_
FocusFindsTokens ==
  /\ Len(FirstCharFocus) = num_tokens_ /\ Len(LastCharFocus) = num_tokens_
  /\ \A t \in Tokens :
       LET first == FirstCharFocus[t + 1]
           last == LastCharFocus[t + 1]
       IN  /\ IsTokenStart(first) /\ char_.pos[first + 1] = GetToken(t).start
           /\ IsTokenEnd(last) /\ char_.pos[last + 1] + char_.len[last + 1] = GetToken(t).end + 1
CharAndTokenAgree ==
  system = "char-shift-only" => (~IsFinalState => StateIsAtToken) /\ FocusFindsTokens

(* Whatever the segmenter predicts, the words have every character that is no break exactly     *)
(* once and in order, with their bytes, and a break before a word is kept as a space or a line   *)
(* break: no sentence break is introduced.  A word at the start of the text gets NO_BREAK,  *)
(* as in the code; the comment at binary_segment_state.cc:78-79 says that it keeps its old     *)
(* level, which is SPACE_BREAK.                                                     *)
SegmentsKeepTheText ==
  system = "binary-segment-transitions" /\ document # null =>
    LET char(c) == sentence_.tokens[c]
        level(c) == IF c = 1 THEN NO_BREAK ELSE sentence_.text[c - 1].break
    IN  /\ FlattenSeq([w \in DOMAIN document |-> document[w].word])
             = SelectSeq([c \in DOMAIN sentence_.text |-> c],
                         LAMBDA c : sentence_.text[c].break = NO_BREAK)
        /\ \A w \in DOMAIN document :
             LET d == document[w]
             IN  /\ d.start = char(d.word[1]).start /\ d.end = char(Last(d.word)).end
                 /\ d.break_level = IF level(d.word[1]) = SENTENCE_BREAK THEN LINE_BREAK
                                    ELSE level(d.word[1])
=============================================================================
