----------------------------- MODULE ArcStandard -----------------------------
(***************************************************************************)
(* One parse with the arc-standard transition system: ParserState, the       *)
(* transition system of syntaxnet/arc_standard_transitions.cc, and the step   *)
(* maps that SyntaxNetComponent::Advance keeps beside the parser state for    *)
(* the linked features of later steps.                                       *)
(*                                                                         *)
(* Tokens are 0 .. n-1 and -1 is the artificial root.  Actions are the        *)
(* integers of the code: 0 shifts, odd numbers are left arcs, even ones right  *)
(* arcs, each with a label.                                                  *)
(***************************************************************************)
EXTENDS Integers, Sequences, Functions, DependencyTrees

CONSTANTS
  NumLabels,    \* labels are 0 .. NumLabels - 1
  RootLabel,    \* the label a token has before an arc gives it one: the index of
                \* "ROOT" in the label map, or -1 (kDefaultRootLabel) if it has none
  Sentences,    \* gold analyses [n, head, label]: heads and labels by token, with
                \* labels that are in the map
  Predicted     \* those of them that a model's predictions may parse, too

ASSUME NumLabelsAssumption == NumLabels \in Nat \ {0}
ASSUME RootLabelAssumption == RootLabel \in -1 .. NumLabels - 1
ASSUME SentencesAssumption ==
  \A s \in Sentences :
    /\ s.n \in Nat
    /\ s.head \in [0 .. s.n - 1 -> -1 .. s.n - 1]
    /\ s.label \in [0 .. s.n - 1 -> 0 .. NumLabels - 1]

VARIABLES
  sentence_,                      \* the sentence, with its gold analysis
  next_, stack_, head_, label_,   \* ParserState; the top of stack_ is its end
  step_for_token_, parent_step_for_token_, parent_for_token_,
  num_steps_,                     \* of the beam the state is in
  is_gold,      \* history: every action was the oracle's
  aborted,      \* a CHECK failed
  touched,      \* history: the last step that shifted a token or gave it a child
  reduced       \* history: the step that gave a token its head, or -1

parserVars == <<next_, stack_, head_, label_>>
mapVars == <<step_for_token_, parent_step_for_token_, parent_for_token_>>
vars == <<sentence_, parserVars, mapVars, num_steps_, is_gold, aborted, touched, reduced>>

num_tokens_ == sentence_.n
Tokens == 0 .. num_tokens_ - 1

-----------------------------------------------------------------------------
(* ParserState. *)
EndOfInput == next_ = num_tokens_
StackSize == Len(stack_)
Stack(position) ==
  IF position \in 0 .. StackSize - 1 THEN stack_[StackSize - position] ELSE -2
GoldHead(index) == IF index = -1 THEN -1 ELSE sentence_.head[index]
GoldLabel(index) == IF index = -1 THEN RootLabel ELSE sentence_.label[index]

-----------------------------------------------------------------------------
(* The encoding of actions. *)
SHIFT == 0
LEFT_ARC == 1
RIGHT_ARC == 2
NumActions == 1 + 2 * NumLabels
LeftArcAction(label) == 1 + 2 * label
RightArcAction(label) == 1 + (2 * label + 1)
ActionType(action) == IF action < 1 THEN action ELSE 1 + ((action + 1) % 2)
Label(action) == IF action < 1 THEN -1 ELSE (action - 1) \div 2

IsAllowedShift == ~EndOfInput
IsAllowedLeftArc == StackSize > 2
IsAllowedRightArc == StackSize > 1
IsAllowedAction(action) ==
  \/ ActionType(action) = SHIFT /\ IsAllowedShift
  \/ ActionType(action) = LEFT_ARC /\ IsAllowedLeftArc
  \/ ActionType(action) = RIGHT_ARC /\ IsAllowedRightArc

(* Mutant: the stack is not looked at. *)
IsFinalStateAtEnd == EndOfInput
IsFinalState == EndOfInput /\ StackSize < 2

(* Whether no token of the remaining input has head as its gold head.  A      *)
(* token whose head is to its right makes the scan jump there.                *)
DoneChildrenRightOf(head) ==
  LET done[index \in next_ .. num_tokens_] ==
        IF index = num_tokens_ THEN TRUE
        ELSE IF GoldHead(index) = head THEN FALSE
        ELSE IF GoldHead(index) > index THEN done[GoldHead(index)]
        ELSE done[index + 1]
  IN  done[next_]

(* The oracle.  Mutant: a left arc gets the label of its head. *)
GetNextGoldActionHeadLabel ==
  IF StackSize < 2 THEN SHIFT
  ELSE IF GoldHead(Stack(0)) = Stack(1) /\ DoneChildrenRightOf(Stack(0))
  THEN RightArcAction(GoldLabel(Stack(0)))
  ELSE IF GoldHead(Stack(1)) = Stack(0) THEN LeftArcAction(GoldLabel(Stack(0)))
  ELSE SHIFT
GetNextGoldAction ==
  IF StackSize < 2 THEN SHIFT
  ELSE IF GoldHead(Stack(0)) = Stack(1) /\ DoneChildrenRightOf(Stack(0))
  THEN RightArcAction(GoldLabel(Stack(0)))
  ELSE IF GoldHead(Stack(1)) = Stack(0) THEN LeftArcAction(GoldLabel(Stack(1)))
  ELSE SHIFT

ChildIndex(action) ==
  CASE ActionType(action) = SHIFT -> -1
    [] ActionType(action) = LEFT_ARC -> Stack(1)
    [] ActionType(action) = RIGHT_ARC -> Stack(0)
ParentIndex(action) ==
  CASE ActionType(action) = SHIFT -> -1
    [] ActionType(action) = LEFT_ARC -> Stack(0)
    [] ActionType(action) = RIGHT_ARC -> Stack(1)

-----------------------------------------------------------------------------
(* The three actions, with the CHECKs of Push, Advance, Pop and AddArc. *)
Abort == aborted' = TRUE /\ UNCHANGED parserVars

PerformShift ==
  IF StackSize <= num_tokens_ /\ next_ < num_tokens_
  THEN /\ stack_' = Append(stack_, next_)
       /\ next_' = next_ + 1
       /\ UNCHANGED <<head_, label_, aborted>>
  ELSE Abort

AddArc(index, head, label) ==
  /\ head_' = [head_ EXCEPT ![index] = head]
  /\ label_' = [label_ EXCEPT ![index] = label]

(* Mutant: the dependent stays on the stack instead of its head. *)
PerformLeftArcKeepsChild(label) ==
  IF StackSize >= 2 /\ Stack(1) \in Tokens
  THEN /\ AddArc(Stack(1), Stack(0), label)
       /\ stack_' = SubSeq(stack_, 1, StackSize - 1)
       /\ UNCHANGED <<next_, aborted>>
  ELSE Abort

PerformLeftArc(label) ==
  IF StackSize >= 2 /\ Stack(1) \in Tokens
  THEN /\ AddArc(Stack(1), Stack(0), label)
       /\ stack_' = Append(SubSeq(stack_, 1, StackSize - 2), Stack(0))
       /\ UNCHANGED <<next_, aborted>>
  ELSE Abort

PerformRightArc(label) ==
  IF StackSize >= 2 /\ Stack(0) \in Tokens
  THEN /\ AddArc(Stack(0), Stack(1), label)
       /\ stack_' = SubSeq(stack_, 1, StackSize - 1)
       /\ UNCHANGED <<next_, aborted>>
  ELSE Abort

PerformAction(action) ==
  CASE ActionType(action) = SHIFT -> PerformShift
    [] ActionType(action) = LEFT_ARC -> PerformLeftArc(Label(action))
    [] ActionType(action) = RIGHT_ARC -> PerformRightArc(Label(action))

(* The setters of SyntaxNetTransitionState insert into the vectors, so that   *)
(* the entries from the token on move up by one.  Mutant: one place too far.  *)
SetForTokenAfter(map, token, value) ==
  SubSeq(map, 1, token + 1) \o <<value>> \o SubSeq(map, token + 2, Len(map))
SetForToken(map, token, value) ==
  SubSeq(map, 1, token) \o <<value>> \o SubSeq(map, token + 1, Len(map))
ForToken(map, token) == IF token \in 0 .. Len(map) - 1 THEN map[token + 1] ELSE -1

(* The part of Advance that maintains the step maps, before the action is     *)
(* performed.  A right arc from the root has parent -1, which is also what a   *)
(* shift has.                                                                *)
UpdateStepMaps(action) ==
  LET parent_idx == ParentIndex(action)
      child_idx == ChildIndex(action)
  IN  IF parent_idx = -1
      THEN /\ step_for_token_' = IF next_ \in Tokens
                                 THEN SetForToken(step_for_token_, next_, num_steps_)
                                 ELSE step_for_token_
           /\ UNCHANGED <<parent_step_for_token_, parent_for_token_>>
      ELSE /\ step_for_token_' = SetForToken(step_for_token_, parent_idx, num_steps_)
           /\ parent_for_token_' = SetForToken(parent_for_token_, child_idx, parent_idx)
           /\ parent_step_for_token_' =
                SetForToken(parent_step_for_token_, child_idx, num_steps_)

RecordStep(action) ==
  LET type == ActionType(action)
      toucher == IF type = SHIFT THEN next_ ELSE ParentIndex(action)
  IN  /\ touched' = [t \in Tokens |-> IF t = toucher THEN num_steps_ ELSE touched[t]]
      /\ reduced' = [t \in Tokens |->
                       IF type # SHIFT /\ t = ChildIndex(action) THEN num_steps_
                                                                 ELSE reduced[t]]
      /\ is_gold' = (is_gold /\ action = GetNextGoldAction)

Advance(action) ==
  /\ UpdateStepMaps(action)
  /\ PerformAction(action)
  /\ num_steps_' = num_steps_ + 1
  /\ RecordStep(action)
  /\ UNCHANGED sentence_

-----------------------------------------------------------------------------
(* SyntaxNetComponent::CreateState: a fresh parser state, root on the stack.  *)
Fresh(s) ==
  [next |-> 0, stack |-> <<-1>>, head |-> [t \in 0 .. s.n - 1 |-> -1],
   label |-> [t \in 0 .. s.n - 1 |-> RootLabel], map |-> [k \in 1 .. s.n |-> -1]]

Init ==
  /\ sentence_ \in Sentences
  /\ next_ = Fresh(sentence_).next
  /\ stack_ = Fresh(sentence_).stack
  /\ head_ = Fresh(sentence_).head
  /\ label_ = Fresh(sentence_).label
  /\ step_for_token_ = Fresh(sentence_).map
  /\ parent_step_for_token_ = Fresh(sentence_).map
  /\ parent_for_token_ = Fresh(sentence_).map
  /\ num_steps_ = 0
  /\ is_gold = TRUE
  /\ aborted = FALSE
  /\ touched = [t \in Tokens |-> -1]
  /\ reduced = [t \in Tokens |-> -1]

(* A beam advanced from a prediction takes one of the allowed actions. *)
AdvanceFromPrediction ==
  /\ sentence_ \in Predicted /\ ~aborted
  /\ \E action \in 0 .. NumActions - 1 : IsAllowedAction(action) /\ Advance(action)

(* A beam advanced from the oracle takes the gold action, unless it is final. *)
AdvanceFromOracle ==
  /\ is_gold /\ ~aborted /\ ~IsFinalState
  /\ Advance(GetNextGoldAction)

Next == AdvanceFromPrediction \/ AdvanceFromOracle

Spec == Init /\ [][Next]_vars

-----------------------------------------------------------------------------

(* Every parse of n tokens takes exactly 2n steps, and until then some action  *)
(* is allowed.  Beam relies on it: a state that were final earlier than its    *)
(* neighbours would have no allowed action and would drop out of the beam.    *)
EndsTogether ==
  ~aborted =>
    /\ IsFinalState <=> num_steps_ = 2 * num_tokens_
    /\ IsFinalState <=> \A action \in 0 .. NumActions - 1 : ~IsAllowedAction(action)

(* Whatever actions are predicted, and also when the oracle gives them, no     *)
(* CHECK of ParserState fails, and the finished analysis that FinalizeData     *)
(* writes to the sentence is a projective tree.                               *)
ParsesAreTrees ==
  /\ ~aborted
  /\ IsFinalState => head_ \in ProjectiveTrees(num_tokens_)

(* Following the oracle to the end gives exactly the gold heads and labels.   *)
OracleIsRight ==
  IsFinalState /\ is_gold => head_ = sentence_.head /\ label_ = sentence_.label

(* For the tokens on the stack, step_for_token is the last step that shifted  *)
(* the token or gave it a child, although the setter shifts the entries of     *)
(* later tokens and a right arc from the root is taken for a shift.           *)
StepsOfStackTokens ==
  \A t \in Range(stack_) \ {-1} : ForToken(step_for_token_, t) = touched[t]

(* What syntaxnet_transition_state.h:151-152 says of parent_step_for_token_:  *)
(* for every token that was reduced, the step that gave it its parent.        *)
StepsOfReducedTokens ==
  \A t \in Tokens :
    reduced[t] # -1 /\ head_[t] # -1 => ForToken(parent_step_for_token_, t) = reduced[t]
=============================================================================
