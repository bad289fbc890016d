-------------------------- MODULE ArcStandardProofs --------------------------
(***************************************************************************)
(* For sentences of any length and any number of labels: every parse with    *)
(* the arc-standard system takes exactly 2n steps and is stuck only there,    *)
(* the step maps are right for the tokens on the stack, a parse that follows   *)
(* the oracle ends with the gold analysis, every finished analysis is a        *)
(* projective tree, and on projective sentences no CHECK fails.               *)
(*                                                                         *)
(* The inductive invariant has one part per property:                         *)
(*   - IndInv: the parser state is a stack of tokens in the order of the       *)
(*     sentence with the root at its bottom, all of them shifted, and the       *)
(*     steps taken are twice the tokens shifted less those on the stack;       *)
(*   - Mapped: step_for_token is right for the tokens on the stack;            *)
(*   - Exact: the arcs that the oracle has drawn are gold arcs;                *)
(*   - Forested: what is reduced is below a token of the stack, without gaps;   *)
(*   - Kept: a reduced token has no gold dependents left, and every token below *)
(*     the top of the stack has a gold arc to a later token that is not reduced. *)
(***************************************************************************)
EXTENDS ArcStandard, TreeLemmas

Words == -1 .. num_tokens_ - 1

-----------------------------------------------------------------------------
(* The parts of the invariant that every step keeps. *)
Typed ==
  /\ sentence_ \in Sentences
  /\ next_ \in 0 .. num_tokens_
  /\ head_ \in [Tokens -> Words]
  /\ label_ \in [Tokens -> -1 .. NumLabels - 1]
  /\ num_steps_ \in Nat
  /\ aborted \in BOOLEAN
  /\ is_gold \in BOOLEAN

Stacked == IsStack(stack_, next_, num_tokens_)

Counted == ~aborted => num_steps_ = 2 * next_ - (Len(stack_) - 1)

IndInv == Typed /\ Stacked /\ Counted

(* What an action does to the parser state. *)
Pushed ==
  /\ next_ < num_tokens_ /\ next_' = next_ + 1
  /\ stack_' \in Seq(Words) /\ Grown(stack_, stack_', next_)
  /\ UNCHANGED <<head_, label_, aborted>>

Popped(child, top, label) ==
  /\ stack_' \in Seq(Words) /\ Shrunk(stack_, stack_', top)
  /\ AddArc(child, top, label)
  /\ UNCHANGED <<next_, aborted>>

Shifts(action) == ActionType(action) = SHIFT /\ Pushed
LeftArcs(action) ==
  /\ ActionType(action) = LEFT_ARC /\ Len(stack_) >= 3
  /\ Popped(stack_[Len(stack_) - 1], stack_[Len(stack_)], Label(action))
RightArcs(action) ==
  /\ ActionType(action) = RIGHT_ARC /\ Len(stack_) >= 2
  /\ Popped(stack_[Len(stack_)], stack_[Len(stack_) - 1], Label(action))
Aborts(action) == ActionType(action) = SHIFT /\ EndOfInput /\ Abort

(* The actions that the drivers perform. *)
Legal(action) ==
  /\ action \in 0 .. NumActions - 1 /\ ~aborted
  /\ IsAllowedAction(action) \/ action = GetNextGoldAction

(* The type of an action is one of the three that PerformAction handles. *)
LEMMA ActionTypes ==
  ASSUME NEW action \in 0 .. NumActions - 1
  PROVE  /\ action \in Nat
         /\ ActionType(action) \in {SHIFT, LEFT_ARC, RIGHT_ARC}
         /\ ActionType(action) # SHIFT => Label(action) \in 0 .. NumLabels - 1
BY NumLabelsAssumption DEF ActionType, SHIFT, LEFT_ARC, RIGHT_ARC, NumActions, Label

(* The encoding of arcs is undone by ActionType and Label. *)
LEMMA Decoded ==
  ASSUME NEW label \in 0 .. NumLabels - 1
  PROVE  /\ LeftArcAction(label) \in 0 .. NumActions - 1
         /\ ActionType(LeftArcAction(label)) = LEFT_ARC
         /\ Label(LeftArcAction(label)) = label
         /\ RightArcAction(label) \in 0 .. NumActions - 1
         /\ ActionType(RightArcAction(label)) = RIGHT_ARC
         /\ Label(RightArcAction(label)) = label
         /\ SHIFT \in 0 .. NumActions - 1 /\ ActionType(SHIFT) = SHIFT
BY NumLabelsAssumption DEF LeftArcAction, RightArcAction, ActionType, SHIFT, LEFT_ARC,
   RIGHT_ARC, NumActions, Label
(* Push and Pop, as the invariant sees them. *)
LEMMA AppendGrows ==
  ASSUME NEW S, NEW seq \in Seq(S), NEW c \in S
  PROVE  Append(seq, c) \in Seq(S) /\ Grown(seq, Append(seq, c), c)
BY DEF Grown

(* The two topmost tokens: the first is one of the sentence, and so is the     *)
(* second unless it is the root.                                             *)
LEMMA TopOfStack ==
  ASSUME IndInv
  PROVE  /\ num_tokens_ \in Nat /\ next_ \in Nat /\ Len(stack_) \in Nat
         /\ IsOrdered(stack_, Len(stack_), next_)
         /\ stack_ \in Seq(Words)
         /\ \A i \in 1 .. Len(stack_) : stack_[i] \in Words
         /\ \A i \in 2 .. Len(stack_) : stack_[i] \in Tokens
         /\ Len(stack_) >= 2 => /\ Stack(0) = stack_[Len(stack_)]
                                /\ Stack(1) = stack_[Len(stack_) - 1]
<1>1. num_tokens_ \in Nat /\ next_ \in Nat
  BY SentencesAssumption DEF IndInv, Typed, num_tokens_
<1>2. IsOrdered(stack_, Len(stack_), next_) /\ stack_ \in Seq(Words)
  BY <1>1, StackIsOrdered, Zenon DEF IndInv, Stacked, Words
<1>3. Len(stack_) \in Nat
  BY <1>2, LenProperties
<1>4. \A i \in 1 .. Len(stack_) : stack_[i] \in Words
  BY <1>2, ElementOfSeq
<1>5. ASSUME NEW i \in 2 .. Len(stack_)
      PROVE  stack_[i] \in Tokens
  <2>1. i \in 1 .. Len(stack_) /\ 1 \in 1 .. Len(stack_) /\ 1 < i
    BY <1>3
  <2>2. stack_[1] = -1 /\ stack_[1] < stack_[i]
    BY <1>2, <2>1 DEF IsOrdered
  <2> QED
    BY <1>4, <2>1, <2>2, <1>1 DEF Words, Tokens
<1>6. ASSUME Len(stack_) >= 2
      PROVE  /\ Stack(0) = stack_[Len(stack_)]
             /\ Stack(1) = stack_[Len(stack_) - 1]
  <2>1. 0 \in 0 .. Len(stack_) - 1 /\ 1 \in 0 .. Len(stack_) - 1 /\ Len(stack_) - 0 = Len(stack_)
    BY <1>3, <1>6
  <2> QED
    BY <2>1, Zenon DEF Stack, StackSize
<1> QED
  BY <1>1, <1>2, <1>3, <1>4, <1>5, <1>6

(* The oracle's action: a right arc to the second token of the stack, a left    *)
(* arc to the first one, or a shift.  A left arc never reduces the root.       *)
GoldRight ==
  /\ Len(stack_) >= 2
  /\ GoldHead(Stack(0)) = Stack(1) /\ DoneChildrenRightOf(Stack(0))
  /\ GetNextGoldAction = RightArcAction(GoldLabel(Stack(0)))
GoldLeft ==
  /\ Len(stack_) >= 3
  /\ GoldHead(Stack(1)) = Stack(0)
  /\ GetNextGoldAction = LeftArcAction(GoldLabel(Stack(1)))
GoldShift ==
  /\ Len(stack_) >= 2 =>
       /\ ~(GoldHead(Stack(0)) = Stack(1) /\ DoneChildrenRightOf(Stack(0)))
       /\ GoldHead(Stack(1)) # Stack(0)
  /\ GetNextGoldAction = SHIFT
LEMMA OracleCases ==
  ASSUME IndInv
  PROVE  GoldRight \/ GoldLeft \/ GoldShift
<1>1. CASE Len(stack_) < 2
  BY <1>1, TopOfStack DEF GetNextGoldAction, StackSize, GoldShift
<1>2. CASE Len(stack_) >= 2
  <2>1. ASSUME GoldHead(Stack(1)) = Stack(0)
        PROVE  Len(stack_) >= 3
    <3>1. ASSUME Len(stack_) = 2
          PROVE  FALSE
      <4>1. Stack(1) = -1 /\ Stack(0) \in Tokens
        BY <3>1, TopOfStack DEF IsOrdered
      <4> QED
        BY <2>1, <4>1, TopOfStack DEF GoldHead, Tokens
    <3>2. \A k \in Nat : k >= 2 /\ k # 2 => k >= 3
      OBVIOUS
    <3>3. Len(stack_) \in Nat /\ Len(stack_) >= 2
      BY <1>2, TopOfStack
    <3> QED
      BY <3>1, <3>2, <3>3, Zenon
  <2>2. ~(Len(stack_) < 2)
    BY <1>2, TopOfStack
  <2> HIDE DEF GoldHead, DoneChildrenRightOf, Stack
  <2> QED
    BY <1>2, <2>1, <2>2, Zenon DEF GetNextGoldAction, StackSize, GoldRight, GoldLeft, GoldShift
<1> QED
  BY <1>1, <1>2, TopOfStack

(* So it is one of the system's actions, of the type that the case names. *)
LEMMA OracleActions ==
  ASSUME IndInv
  PROVE  /\ GetNextGoldAction \in 0 .. NumActions - 1
         /\ GoldRight => /\ ActionType(GetNextGoldAction) = RIGHT_ARC
                         /\ Label(GetNextGoldAction) = GoldLabel(Stack(0))
         /\ GoldLeft => /\ ActionType(GetNextGoldAction) = LEFT_ARC
                        /\ Label(GetNextGoldAction) = GoldLabel(Stack(1))
         /\ GoldShift => ActionType(GetNextGoldAction) = SHIFT
<1>1. \A t \in Tokens : GoldLabel(t) \in 0 .. NumLabels - 1
  BY SentencesAssumption, SMTT(60) DEF GoldLabel, Tokens, num_tokens_, IndInv, Typed
<1>2. /\ Len(stack_) >= 2 => Stack(0) \in Tokens
      /\ Len(stack_) >= 3 => Stack(1) \in Tokens
  BY TopOfStack
<1>3. 0 \in 0 .. NumLabels - 1
  BY NumLabelsAssumption
<1>4. GoldRight => /\ GetNextGoldAction \in 0 .. NumActions - 1
                   /\ ActionType(GetNextGoldAction) = RIGHT_ARC
                   /\ Label(GetNextGoldAction) = GoldLabel(Stack(0))
  BY <1>1, <1>2, Decoded, Zenon DEF GoldRight
<1>5. GoldLeft => /\ GetNextGoldAction \in 0 .. NumActions - 1
                  /\ ActionType(GetNextGoldAction) = LEFT_ARC
                  /\ Label(GetNextGoldAction) = GoldLabel(Stack(1))
  BY <1>1, <1>2, Decoded, Zenon DEF GoldLeft
<1>6. GoldShift => /\ GetNextGoldAction \in 0 .. NumActions - 1
                   /\ ActionType(GetNextGoldAction) = SHIFT
  BY <1>3, Decoded, Zenon DEF GoldShift
<1> QED
  BY <1>4, <1>5, <1>6, OracleCases, Zenon
(* An arc that a driver performs has its tokens on the stack. *)
LEMMA LegalArcs ==
  ASSUME IndInv, NEW action, Legal(action)
  PROVE  /\ ActionType(action) = LEFT_ARC => Len(stack_) >= 3
         /\ ActionType(action) = RIGHT_ARC => Len(stack_) >= 2
<1>1. CASE IsAllowedAction(action)
  <2>1. \A k \in Nat : (k > 2 => k >= 3) /\ (k > 1 => k >= 2)
    OBVIOUS
  <2>2. Len(stack_) \in Nat
    BY TopOfStack
  <2>3. SHIFT # LEFT_ARC /\ SHIFT # RIGHT_ARC /\ LEFT_ARC # RIGHT_ARC
    BY DEF SHIFT, LEFT_ARC, RIGHT_ARC
  <2> QED
    BY <1>1, <2>1, <2>2, <2>3, Zenon
    DEF IsAllowedAction, IsAllowedLeftArc, IsAllowedRightArc, StackSize
<1>2. CASE action = GetNextGoldAction
  <2>1. SHIFT # LEFT_ARC /\ SHIFT # RIGHT_ARC /\ LEFT_ARC # RIGHT_ARC
    BY DEF SHIFT, LEFT_ARC, RIGHT_ARC
  <2>2. /\ GoldLeft => Len(stack_) >= 3
        /\ GoldRight => Len(stack_) >= 2
    BY DEF GoldLeft, GoldRight
  <2> QED
    BY <1>2, <2>1, <2>2, OracleCases, OracleActions, Zenon
<1> QED
  BY <1>1, <1>2 DEF Legal

(* A step shifts, draws an arc between the two topmost tokens and pops the     *)
(* dependent, or fails the CHECK of a shift at the end of the input.  The      *)
(* other CHECKs of ParserState never fail.                                   *)
LEMMA StepKinds ==
  ASSUME IndInv, NEW action, Legal(action), Advance(action)
  PROVE  Shifts(action) \/ LeftArcs(action) \/ RightArcs(action) \/ Aborts(action)
<1> DEFINE L == Len(stack_)
<1>1. /\ ActionType(action) = SHIFT => PerformShift
      /\ ActionType(action) = LEFT_ARC => PerformLeftArc(Label(action))
      /\ ActionType(action) = RIGHT_ARC => PerformRightArc(Label(action))
  <2>1. ASSUME ActionType(action) = SHIFT PROVE PerformShift
    BY <2>1 DEF Advance, PerformAction, SHIFT, LEFT_ARC, RIGHT_ARC
  <2>2. ASSUME ActionType(action) = LEFT_ARC PROVE PerformLeftArc(Label(action))
    BY <2>2 DEF Advance, PerformAction, SHIFT, LEFT_ARC, RIGHT_ARC
  <2>3. ASSUME ActionType(action) = RIGHT_ARC PROVE PerformRightArc(Label(action))
    BY <2>3 DEF Advance, PerformAction, SHIFT, LEFT_ARC, RIGHT_ARC
  <2> QED
    BY <2>1, <2>2, <2>3, Zenon
<1>2. ActionType(action) \in {SHIFT, LEFT_ARC, RIGHT_ARC}
  BY ActionTypes DEF Legal
<1>3. L \in 1 .. next_ + 1 /\ stack_ \in Seq(Words)
  BY TopOfStack DEF IsOrdered
<1>4. num_tokens_ \in Nat /\ next_ \in Nat /\ next_ <= num_tokens_ /\ L \in Nat
  BY TopOfStack DEF IndInv, Typed
<1>5. CASE ActionType(action) = SHIFT
  <2>1. CASE next_ = num_tokens_
    <3>1. ~(next_ < num_tokens_)
      BY <1>4, <2>1
    <3> QED
      BY <1>1, <1>5, <2>1, <3>1, Zenon DEF PerformShift, Aborts, EndOfInput
  <2>2. CASE next_ # num_tokens_
    <3>1. next_ < num_tokens_ /\ L <= num_tokens_ /\ next_ \in Words
      BY <1>3, <1>4, <2>2 DEF Words
    <3>2. /\ stack_' = Append(stack_, next_) /\ next_' = next_ + 1
          /\ UNCHANGED <<head_, label_, aborted>>
      BY <1>1, <1>5, <3>1 DEF PerformShift, StackSize
    <3>3. stack_' \in Seq(Words) /\ Grown(stack_, stack_', next_)
      BY <1>3, <3>1, <3>2, AppendGrows, Zenon
    <3> QED
      BY <1>5, <3>1, <3>2, <3>3, SMTT(60) DEF Shifts, Pushed
  <2> QED
    BY <2>1, <2>2
<1>6. CASE ActionType(action) = LEFT_ARC
  <2>1. L >= 3
    BY <1>6, LegalArcs
  <2>2. L >= 2 /\ L - 1 \in 2 .. L /\ L - 2 \in 0 .. L /\ L \in 1 .. L
    BY <1>4, <2>1
  <2>3. Stack(0) = stack_[L] /\ Stack(1) = stack_[L - 1] /\ stack_[L - 1] \in Tokens
    BY <2>2, TopOfStack
  <2>4. /\ AddArc(stack_[L - 1], stack_[L], Label(action))
        /\ stack_' = Append(SubSeq(stack_, 1, L - 2), stack_[L])
        /\ UNCHANGED <<next_, aborted>>
    BY <1>1, <1>6, <2>2, <2>3, Zenon DEF PerformLeftArc, StackSize
  <2> DEFINE s == SubSeq(stack_, 1, L - 2)
  <2>5. s \in Seq(Words) /\ Len(s) = L - 2 /\ \A i \in 1 .. L - 2 : s[i] = stack_[i]
    BY <1>3, <2>2, Dropped, Zenon
  <2>6. stack_[L] \in Words
    BY <2>2, TopOfStack
  <2> HIDE DEF s
  <2>7. Append(s, stack_[L]) \in Seq(Words) /\ Grown(s, Append(s, stack_[L]), stack_[L])
    BY <2>5, <2>6, AppendGrows, Zenon
  <2>8. (L - 2) + 1 = L - 1
    BY <1>4
  <2>9. stack_' \in Seq(Words) /\ Shrunk(stack_, stack_', stack_[L])
    BY <2>4, <2>5, <2>7, <2>8, Zenon DEF Grown, Shrunk, s
  <2> QED
    BY <1>6, <2>1, <2>4, <2>9, Zenon DEF LeftArcs, Popped
<1>7. CASE ActionType(action) = RIGHT_ARC
  <2>1. L >= 2
    BY <1>7, LegalArcs
  <2>2. L \in 2 .. L /\ L - 1 \in 0 .. L /\ L - 1 \in 1 .. L - 1 /\ \A i \in 1 .. L - 2 : i \in 1 .. L - 1
    BY <1>4, <2>1
  <2>3. Stack(0) = stack_[L] /\ Stack(1) = stack_[L - 1] /\ stack_[L] \in Tokens
    BY <2>1, <2>2, TopOfStack
  <2>4. /\ AddArc(stack_[L], stack_[L - 1], Label(action))
        /\ stack_' = SubSeq(stack_, 1, L - 1)
        /\ UNCHANGED <<next_, aborted>>
    BY <1>1, <1>7, <2>1, <2>3, Zenon DEF PerformRightArc, StackSize
  <2>5. /\ SubSeq(stack_, 1, L - 1) \in Seq(Words) /\ Len(SubSeq(stack_, 1, L - 1)) = L - 1
        /\ \A i \in 1 .. L - 1 : SubSeq(stack_, 1, L - 1)[i] = stack_[i]
    BY <1>3, <2>2, Dropped, Zenon
  <2>6. stack_' \in Seq(Words) /\ Shrunk(stack_, stack_', stack_[L - 1])
    BY <2>2, <2>4, <2>5, Zenon DEF Shrunk
  <2> QED
    BY <1>7, <2>1, <2>4, <2>6, Zenon DEF RightArcs, Popped
<1> QED
  BY <1>2, <1>5, <1>6, <1>7
-----------------------------------------------------------------------------
(* The invariant holds for a fresh state. *)
LEMMA InitIndInv == Init => IndInv
<1> SUFFICES ASSUME Init PROVE IndInv
  OBVIOUS
<1>1. num_tokens_ \in Nat
  BY SentencesAssumption DEF Init, num_tokens_
<1>2. /\ stack_ = <<-1>> /\ next_ = 0 /\ num_steps_ = 0 /\ sentence_ \in Sentences
      /\ aborted = FALSE /\ is_gold = TRUE
      /\ head_ = [t \in Tokens |-> -1] /\ label_ = [t \in Tokens |-> RootLabel]
  BY DEF Init, Fresh, Tokens, num_tokens_
<1>3. Typed
  <2>1. 0 \in 0 .. num_tokens_ /\ 0 \in Nat
    BY <1>1
  <2>2. head_ \in [Tokens -> Words]
    BY <1>1, <1>2 DEF Words
  <2>3. label_ \in [Tokens -> -1 .. NumLabels - 1]
    BY <1>2, RootLabelAssumption, Zenon
  <2> QED
    BY <1>2, <2>1, <2>2, <2>3, Zenon DEF Typed
<1>4. Stacked
  <2>1. <<-1>> \in Seq(-1 .. num_tokens_ - 1) /\ Len(<<-1>>) = 1 /\ <<-1>>[1] = -1
    BY <1>1
  <2> QED
    BY <1>2, <2>1 DEF Stacked, IsStack
<1>5. Counted
  <2>1. Len(stack_) = 1 /\ 0 = 2 * 0 - (1 - 1)
    BY <1>2
  <2> QED
    BY <1>2, <2>1, Zenon DEF Counted
<1> QED
  BY <1>3, <1>4, <1>5 DEF IndInv

(* Either driver performs a legal action. *)
LEMMA NextIsLegal ==
  ASSUME IndInv, Next
  PROVE  \E action : Legal(action) /\ Advance(action)
<1>1. CASE AdvanceFromPrediction
  BY <1>1 DEF AdvanceFromPrediction, Legal
<1>2. CASE AdvanceFromOracle
  BY <1>2, OracleActions, Zenon DEF AdvanceFromOracle, Legal
<1> QED
  BY <1>1, <1>2 DEF Next

(* A step leaves the sentence alone. *)
LEMMA SentenceStays ==
  ASSUME NEW action, Advance(action)
  PROVE  /\ sentence_' = sentence_ /\ num_tokens_' = num_tokens_
         /\ Tokens' = Tokens /\ Words' = Words
BY DEF Advance, num_tokens_, Tokens, Words

LEMMA AdvanceIndInv ==
  ASSUME IndInv, NEW action, Legal(action), Advance(action)
  PROVE  IndInv'
<1> DEFINE L == Len(stack_)
<1>1. /\ sentence_' = sentence_ /\ num_tokens_' = num_tokens_
      /\ Tokens' = Tokens /\ Words' = Words
  BY SentenceStays
<1>2. num_steps_' = num_steps_ + 1 /\ num_steps_ \in Nat
  BY DEF Advance, IndInv, Typed
<1>3. num_steps_' \in Nat
  BY <1>2
<1>4. num_tokens_ \in Nat /\ next_ \in 0 .. num_tokens_ /\ L \in Nat
  BY TopOfStack DEF IndInv, Typed
<1>5. num_steps_ = 2 * next_ - (L - 1)
  BY DEF IndInv, Counted, Legal
<1>6. is_gold' \in BOOLEAN
  BY DEF Advance, RecordStep
<1>7. CASE Shifts(action)
  <2>1. /\ next_' = next_ + 1 /\ next_ \in 0 .. num_tokens_ - 1 /\ UNCHANGED <<head_, label_, aborted>>
        /\ Grown(stack_, stack_', next_) /\ stack_' \in Seq(Words)
    BY <1>4, <1>7 DEF Shifts, Pushed
  <2>2. next_' \in 0 .. num_tokens_
    BY <1>4, <2>1
  <2>3. Typed'
    BY <1>1, <1>3, <1>6, <2>1, <2>2, Zenon DEF Typed, IndInv
  <2>4. IsStack(stack_', next_ + 1, num_tokens_)
    BY <1>4, <2>1, GrownIsStack, Zenon DEF Words, IndInv, Stacked
  <2>5. Stacked'
    BY <1>1, <2>1, <2>4, Zenon DEF Stacked
  <2>6. num_steps_ + 1 = 2 * (next_ + 1) - ((L + 1) - 1)
    BY <1>2, <1>4, <1>5
  <2>7. Counted'
    BY <1>2, <2>1, <2>6, Zenon DEF Counted, Grown
  <2> QED
    BY <2>3, <2>5, <2>7 DEF IndInv
<1>8. ASSUME NEW child \in Tokens, NEW top \in Words, Popped(child, top, Label(action)),
             Label(action) \in 0 .. NumLabels - 1, OneOfTwo(stack_, L, top)
      PROVE  IndInv'
  <2>1. /\ head_' = [head_ EXCEPT ![child] = top]
        /\ label_' = [label_ EXCEPT ![child] = Label(action)]
        /\ UNCHANGED <<next_, aborted>> /\ stack_' \in Seq(Words) /\ Shrunk(stack_, stack_', top)
    BY <1>8 DEF Popped, AddArc
  <2>2. head_' \in [Tokens -> Words] /\ label_' \in [Tokens -> -1 .. NumLabels - 1]
    BY <1>8, <2>1 DEF IndInv, Typed
  <2>3. Typed'
    BY <1>1, <1>3, <1>6, <2>1, <2>2, Zenon DEF Typed, IndInv
  <2>4. IsStack(stack_', next_, num_tokens_)
    BY <1>4, <1>8, <2>1, ShrunkIsStack, Zenon DEF Words, IndInv, Stacked
  <2>5. Stacked'
    BY <1>1, <2>1, <2>4, Zenon DEF Stacked
  <2>6. num_steps_ + 1 = 2 * next_ - ((L - 1) - 1)
    BY <1>2, <1>4, <1>5
  <2>7. Counted'
    BY <1>2, <2>1, <2>6, Zenon DEF Counted, Shrunk
  <2> QED
    BY <2>3, <2>5, <2>7, SMTT(60) DEF IndInv
<1>9. ActionType(action) # SHIFT => Label(action) \in 0 .. NumLabels - 1
  BY ActionTypes DEF Legal
<1>10. CASE LeftArcs(action)
  <2>1. L >= 3 /\ ActionType(action) # SHIFT
    BY <1>10 DEF LeftArcs, SHIFT, LEFT_ARC
  <2>2. L - 1 \in 2 .. L /\ L \in 1 .. L
    BY <1>4, <2>1
  <2>3. stack_[L - 1] \in Tokens /\ stack_[L] \in Words
    BY <2>2, TopOfStack
  <2>4. OneOfTwo(stack_, L, stack_[L])
    BY <2>1 DEF OneOfTwo
  <2> QED
    BY <1>8, <1>9, <1>10, <2>1, <2>3, <2>4, Zenon DEF LeftArcs
<1>11. CASE RightArcs(action)
  <2>1. L >= 2 /\ ActionType(action) # SHIFT
    BY <1>11 DEF RightArcs, SHIFT, RIGHT_ARC
  <2>2. L - 1 \in 1 .. L /\ L \in 2 .. L
    BY <1>4, <2>1
  <2>3. stack_[L] \in Tokens /\ stack_[L - 1] \in Words
    BY <2>2, TopOfStack
  <2>4. OneOfTwo(stack_, L, stack_[L - 1])
    BY <2>1, Zenon DEF OneOfTwo
  <2> QED
    BY <1>8, <1>9, <1>11, <2>1, <2>3, <2>4, Zenon DEF RightArcs
<1>12. CASE Aborts(action)
  <2>1. aborted' = TRUE /\ UNCHANGED parserVars
    BY <1>12 DEF Aborts, Abort
  <2>2. Typed' /\ Stacked' /\ Counted'
    BY <1>1, <1>3, <1>6, <2>1, SMTT(60) DEF parserVars, IndInv, Typed, Stacked, Counted
  <2> QED
    BY <2>2 DEF IndInv
<1> QED
  BY <1>7, <1>10, <1>11, <1>12, StepKinds, SMTT(60)

LEMMA NextIndInv == IndInv /\ [Next]_vars => IndInv'
<1> SUFFICES ASSUME IndInv, [Next]_vars PROVE IndInv'
  OBVIOUS
<1>1. CASE Next
  BY <1>1, NextIsLegal, AdvanceIndInv, Zenon
<1>2. CASE UNCHANGED vars
  <2>1. num_tokens_' = num_tokens_ /\ Words' = Words /\ Tokens' = Tokens
    BY <1>2 DEF vars, num_tokens_, Words, Tokens
  <2> QED
    BY <1>2, <2>1, Zenon DEF vars, parserVars, IndInv, Typed, Stacked, Counted
<1> QED
  BY <1>1, <1>2

(* The state of every parse, for sentences of any length. *)
THEOREM ParserStates == Spec => []IndInv
BY InitIndInv, NextIndInv, PTL DEF Spec
-----------------------------------------------------------------------------
(* The count says when a parse ends. *)
LEMMA CountedEnds == IndInv => EndsTogether
<1> SUFFICES ASSUME IndInv, ~aborted
             PROVE  /\ IsFinalState <=> num_steps_ = 2 * num_tokens_
                    /\ IsFinalState <=>
                         \A action \in 0 .. NumActions - 1 : ~IsAllowedAction(action)
  BY DEF EndsTogether
<1>1. /\ num_tokens_ \in Nat /\ next_ \in 0 .. num_tokens_ /\ Len(stack_) \in Nat
      /\ Len(stack_) >= 1
  BY TopOfStack DEF IndInv, Typed, IsOrdered
<1>2. IsFinalState <=> num_steps_ = 2 * num_tokens_
  BY <1>1 DEF IndInv, Counted, IsFinalState, EndOfInput, StackSize
<1>3. ASSUME IsFinalState, NEW action \in 0 .. NumActions - 1
      PROVE  ~IsAllowedAction(action)
  BY <1>1, <1>3 DEF IsFinalState, StackSize, IsAllowedAction, IsAllowedShift,
     IsAllowedLeftArc, IsAllowedRightArc
<1>4. /\ 0 \in 0 .. NumActions - 1 /\ ActionType(0) = SHIFT
      /\ 2 \in 0 .. NumActions - 1 /\ ActionType(2) = RIGHT_ARC
  BY NumLabelsAssumption DEF NumActions, ActionType, SHIFT, RIGHT_ARC
<1>5. ASSUME ~IsFinalState
      PROVE  IsAllowedAction(0) \/ IsAllowedAction(2)
  BY <1>1, <1>4, <1>5 DEF IsFinalState, StackSize, IsAllowedAction, IsAllowedShift,
     IsAllowedRightArc
<1> QED
  BY <1>2, <1>3, <1>4, <1>5, SMTT(60)

(* For every sentence and label set: a parse driven by any predictions or by  *)
(* the oracle is final after exactly 2n steps and has an allowed action until  *)
(* then, so the states of one beam become final together.                     *)
THEOREM ParsesEndTogether == Spec => []EndsTogether
BY ParserStates, CountedEnds, PTL

-----------------------------------------------------------------------------
(* The step maps.  The setter moves the entries of later tokens, but the       *)
(* tokens on the stack are in the order of the sentence: a shift inserts       *)
(* behind all of them, and an arc at its head, where only the dependent could   *)
(* be later on the stack.                                                    *)
Mapped ==
  /\ step_for_token_ \in Seq(Int) /\ Len(step_for_token_) >= num_tokens_
  /\ touched \in [Tokens -> Int]
  /\ \A i \in 2 .. Len(stack_) : step_for_token_[stack_[i] + 1] = touched[stack_[i]]

LEMMA InitMapped == Init => Mapped
<1> SUFFICES ASSUME Init PROVE Mapped
  OBVIOUS
<1>1. num_tokens_ \in Nat
  BY SentencesAssumption DEF Init, num_tokens_
<1>2. step_for_token_ = [k \in 1 .. num_tokens_ |-> -1] /\ stack_ = <<-1>>
  BY DEF Init, Fresh, num_tokens_
<1>3. step_for_token_ \in [1 .. num_tokens_ -> Int]
  BY <1>2
<1>4. step_for_token_ \in Seq(Int) /\ Len(step_for_token_) = num_tokens_
  BY <1>1, <1>3, TableIsSeq, Zenon
<1>5. touched \in [Tokens -> Int]
  BY DEF Init
<1>6. Len(stack_) = 1
  BY <1>2
<1> QED
  BY <1>1, <1>4, <1>5, <1>6, SMTT(60) DEF Mapped

(* A token that is set reads back the value, and earlier ones are unchanged. *)
IsSet(new, map, token, value) ==
  /\ new \in Seq(Int) /\ Len(new) = Len(map) + 1
  /\ new[token + 1] = value
  /\ \A t \in 0 .. token - 1 : new[t + 1] = map[t + 1]
LEMMA SetSets ==
  ASSUME NEW map \in Seq(Int), NEW token \in Nat, token < Len(map), NEW value \in Int
  PROVE  IsSet(SetForToken(map, token, value), map, token, value)
<1> DEFINE new == SetForToken(map, token, value)
<1>1. token \in 0 .. Len(map)
  BY LenProperties
<1>2. new \in Seq(Int) /\ IsInsertion(new, map, token, value)
  BY <1>1, Inserted, Zenon DEF SetForToken
<1> HIDE DEF new
<1>3. \A t \in 0 .. token - 1 : t + 1 \in 1 .. token
  OBVIOUS
<1>4. IsSet(new, map, token, value)
  BY <1>2, <1>3 DEF IsInsertion, IsSet
<1> QED
  BY <1>4 DEF new
(* The head and the dependent of each kind of step. *)
LEMMA Indices ==
  ASSUME IndInv, NEW action
  PROVE  /\ ActionType(action) = SHIFT => ParentIndex(action) = -1
         /\ LeftArcs(action) => /\ ParentIndex(action) = stack_[Len(stack_)]
                                /\ ChildIndex(action) = stack_[Len(stack_) - 1]
         /\ RightArcs(action) => /\ ParentIndex(action) = stack_[Len(stack_) - 1]
                                 /\ ChildIndex(action) = stack_[Len(stack_)]
<1>1. ASSUME ActionType(action) = SHIFT
      PROVE  ParentIndex(action) = -1
  BY <1>1 DEF ParentIndex, SHIFT, LEFT_ARC, RIGHT_ARC
<1>2. ASSUME ActionType(action) = LEFT_ARC
      PROVE  ParentIndex(action) = Stack(0) /\ ChildIndex(action) = Stack(1)
  BY <1>2 DEF ParentIndex, ChildIndex, SHIFT, LEFT_ARC, RIGHT_ARC
<1>3. ASSUME ActionType(action) = RIGHT_ARC
      PROVE  ParentIndex(action) = Stack(1) /\ ChildIndex(action) = Stack(0)
  BY <1>3 DEF ParentIndex, ChildIndex, SHIFT, LEFT_ARC, RIGHT_ARC
<1>4. \A k \in Nat : k >= 3 => k >= 2
  OBVIOUS
<1>5. /\ Len(stack_) \in Nat
      /\ Len(stack_) >= 2 => /\ Stack(0) = stack_[Len(stack_)]
                             /\ Stack(1) = stack_[Len(stack_) - 1]
  BY TopOfStack
<1> QED
  BY <1>1, <1>2, <1>3, <1>4, <1>5, Zenon DEF LeftArcs, RightArcs

LEMMA AdvanceMapped ==
  ASSUME IndInv, Mapped, NEW action, Legal(action), Advance(action)
  PROVE  Mapped'
<1> DEFINE L == Len(stack_)
           K == Len(stack_')
           Touched(t) == [u \in Tokens |-> IF u = t THEN num_steps_ ELSE touched[u]]
<1>1. /\ num_tokens_' = num_tokens_ /\ Tokens' = Tokens /\ num_tokens_ \in Nat
      /\ next_ \in 0 .. num_tokens_ /\ L \in Nat /\ num_steps_ \in Int
  BY SentenceStays, TopOfStack DEF IndInv, Typed
<1>2. IndInv'
  BY AdvanceIndInv
<1>3. /\ IsOrdered(stack_', K, next_') /\ K \in Nat /\ next_' \in Nat
      /\ \A i \in 2 .. K : stack_'[i] \in Tokens
  <2>1. IsStack(stack_', next_', num_tokens_) /\ next_' \in 0 .. num_tokens_
    BY <1>1, <1>2, Zenon DEF IndInv, Stacked, Typed
  <2>2. next_' \in Nat /\ IsOrdered(stack_', K, next_') /\ stack_' \in Seq(-1 .. num_tokens_ - 1)
    BY <1>1, <2>1, StackIsOrdered
  <2>3. K \in Nat /\ \A i \in 1 .. K : stack_'[i] \in -1 .. num_tokens_ - 1
    BY <2>2, LenProperties, ElementOfSeq, Zenon
  <2>4. ASSUME NEW i \in 2 .. K
        PROVE  stack_'[i] \in Tokens
    <3>1. i \in 1 .. K /\ 1 \in 1 .. K /\ 1 < i
      BY <2>3
    <3>2. stack_'[1] = -1 /\ stack_'[1] < stack_'[i]
      BY <2>2, <3>1 DEF IsOrdered
    <3> QED
      BY <1>1, <2>3, <3>1, <3>2 DEF Tokens
  <2> QED
    BY <2>2, <2>3, <2>4
<1>4. touched \in [Tokens -> Int] /\ \A t : Touched(t) \in [Tokens -> Int]
  BY <1>1 DEF Mapped
<1>5. ASSUME NEW top \in Tokens, K >= 2, stack_'[K] = top,
             step_for_token_' = SetForToken(step_for_token_, top, num_steps_),
             touched' = Touched(top),
             \A i \in 2 .. K - 1 : \E j \in 2 .. L : stack_'[i] = stack_[j]
      PROVE  Mapped'
  <2>1. IsSet(step_for_token_', step_for_token_, top, num_steps_)
    <3>1. top \in Nat /\ top < num_tokens_
      BY <1>1, <1>5 DEF Tokens
    <3>2. top < Len(step_for_token_) /\ step_for_token_ \in Seq(Int)
      BY <1>1, <3>1, LenProperties, SMTT(60) DEF Mapped
    <3> QED
      BY <1>1, <1>5, <3>1, <3>2, SetSets, Zenon
  <2>2. \A i \in 2 .. K - 1 : step_for_token_[stack_'[i] + 1] = touched[stack_'[i]]
    BY <1>5, SMTT(60) DEF Mapped
  <2>3. ASSUME NEW i \in 2 .. K
        PROVE  step_for_token_'[stack_'[i] + 1] = touched'[stack_'[i]]
    <3>1. stack_'[i] \in Tokens
      BY <1>3
    <3>2. CASE i = K
      BY <1>5, <2>1, <3>2, SMTT(60) DEF IsSet
    <3>3. CASE i # K
      <4> HIDE DEF K
      <4>1. i \in 2 .. K - 1 /\ i \in 1 .. K /\ K \in 1 .. K /\ i < K
        BY <1>3, <3>3
      <4>2. stack_'[i] < stack_'[K]
        BY <1>3, <4>1 DEF IsOrdered
      <4>3. stack_'[i] \in 0 .. top - 1 /\ stack_'[i] # top
        BY <1>1, <1>5, <3>1, <4>2, SMTT(60) DEF Tokens
      <4>4. step_for_token_'[stack_'[i] + 1] = step_for_token_[stack_'[i] + 1]
        BY <2>1, <4>3, SMTT(60) DEF IsSet
      <4>5. touched'[stack_'[i]] = touched[stack_'[i]]
        BY <1>5, <3>1, <4>3
      <4> QED
        BY <2>2, <4>1, <4>4, <4>5, SMTT(60)
    <3> QED
      BY <3>2, <3>3
  <2>4. step_for_token_' \in Seq(Int) /\ Len(step_for_token_') >= num_tokens_
    BY <1>1, <2>1, LenProperties, SMTT(60) DEF IsSet, Mapped
  <2> QED
    BY <1>1, <1>4, <1>5, <2>3, <2>4, Zenon DEF Mapped
<1>6. step_for_token_ \in Seq(Int) /\ Len(step_for_token_) >= num_tokens_
  BY DEF Mapped
<1>7. touched' = Touched(IF ActionType(action) = SHIFT THEN next_ ELSE ParentIndex(action))
  BY DEF Advance, RecordStep
<1>8. /\ ParentIndex(action) = -1 =>
           step_for_token_' = IF next_ \in Tokens
                              THEN SetForToken(step_for_token_, next_, num_steps_)
                              ELSE step_for_token_
      /\ ParentIndex(action) # -1 =>
           step_for_token_' = SetForToken(step_for_token_, ParentIndex(action), num_steps_)
  BY DEF Advance, UpdateStepMaps
<1>9. CASE Shifts(action)
  <2>1. /\ ParentIndex(action) = -1 /\ ActionType(action) = SHIFT
        /\ Grown(stack_, stack_', next_) /\ next_ \in Tokens
    BY <1>1, <1>9, Indices DEF Shifts, Pushed, Tokens
  <2>2. K = L + 1 /\ stack_'[K] = next_ /\ \A i \in 1 .. L : stack_'[i] = stack_[i]
    BY <2>1, Zenon DEF Grown
  <2>3. L >= 1
    BY TopOfStack DEF IsOrdered
  <2>4. K >= 2 /\ \A i \in 2 .. K - 1 : i \in 2 .. L /\ i \in 1 .. L
    BY <1>1, <2>2, <2>3, SMTT(60)
  <2>5. \A i \in 2 .. K - 1 : \E j \in 2 .. L : stack_'[i] = stack_[j]
    BY <2>2, <2>4, Zenon
  <2> QED
    BY <1>5, <1>7, <1>8, <2>1, <2>2, <2>4, <2>5, Zenon
<1>10. ASSUME NEW top \in Words, Shrunk(stack_, stack_', top), L >= 2, top = -1 => K = 1,
              ParentIndex(action) = top, ActionType(action) # SHIFT
       PROVE  Mapped'
  <2>1. K = L - 1 /\ stack_'[K] = top /\ \A i \in 1 .. L - 2 : stack_'[i] = stack_[i]
    BY <1>10, Zenon DEF Shrunk
  <2>2. K \in Nat /\ K >= 1 /\ \A i \in 2 .. K - 1 : i \in 2 .. L /\ i \in 1 .. L - 2
    BY <1>1, <1>10, <2>1
  <2>3. CASE top # -1
    <3>1. top \in Tokens
      BY <1>1, <1>10, <2>3, SMTT(60) DEF Words, Tokens
    <3>2. K # 1
      <4>1. K = 1 => stack_'[1] = top
        BY <2>1, Zenon
      <4> QED
        BY <1>3, <2>3, <4>1, SMTT(60) DEF IsOrdered
    <3>3. K >= 2
      <4>1. \A k \in Nat : k >= 1 /\ k # 1 => k >= 2
        OBVIOUS
      <4> QED
        BY <2>2, <3>2, <4>1, Zenon
    <3>4. \A i \in 2 .. K - 1 : \E j \in 2 .. L : stack_'[i] = stack_[j]
      BY <2>1, <2>2, Zenon
    <3> QED
      BY <1>5, <1>7, <1>8, <1>10, <2>1, <2>3, <3>1, <3>3, <3>4, Zenon
  <2>4. CASE top = -1
    <3>1. K = 1
      BY <1>10, <2>4
    <3>2. step_for_token_' \in Seq(Int) /\ Len(step_for_token_') >= num_tokens_
      <4>1. CASE next_ \in Tokens
        <5>1. next_ \in Nat /\ next_ < num_tokens_
          BY <1>1, <4>1 DEF Tokens
        <5>2. next_ < Len(step_for_token_) /\ step_for_token_ \in Seq(Int)
          BY <1>1, <1>6, <5>1, LenProperties, SMTT(60)
        <5>3. IsSet(step_for_token_', step_for_token_, next_, num_steps_)
          BY <1>1, <1>8, <1>10, <2>4, <4>1, <5>1, <5>2, SetSets, Zenon
        <5> QED
          BY <1>1, <1>6, <5>3, LenProperties, SMTT(60) DEF IsSet
      <4>2. CASE next_ \notin Tokens
        BY <1>6, <1>8, <1>10, <2>4, <4>2, Zenon
      <4> QED
        BY <4>1, <4>2
    <3>3. ~\E i \in 2 .. K : TRUE
      BY <3>1
    <3>4. touched' \in [Tokens -> Int]
      BY <1>4, <1>7
    <3> QED
      BY <1>1, <3>2, <3>3, <3>4, Zenon DEF Mapped
  <2> QED
    BY <2>3, <2>4
<1>11. CASE LeftArcs(action)
  <2>1. /\ L >= 3 /\ Shrunk(stack_, stack_', stack_[L]) /\ ActionType(action) # SHIFT
        /\ ParentIndex(action) = stack_[L]
    BY <1>11, Indices DEF LeftArcs, Popped, SHIFT, LEFT_ARC
  <2>2. L >= 2 /\ L \in 2 .. L
    BY <1>1, <2>1, SMTT(60)
  <2>3. stack_[L] \in Words /\ stack_[L] # -1
    BY <1>1, <2>2, TopOfStack, SMTT(60) DEF Tokens, Words
  <2> QED
    BY <1>10, <2>1, <2>2, <2>3, Zenon
<1>12. CASE RightArcs(action)
  <2>1. /\ L >= 2 /\ Shrunk(stack_, stack_', stack_[L - 1]) /\ ActionType(action) # SHIFT
        /\ ParentIndex(action) = stack_[L - 1]
    BY <1>12, Indices DEF RightArcs, Popped, SHIFT, RIGHT_ARC
  <2>2. L - 1 \in 1 .. L /\ (L - 1 = 1 \/ L - 1 \in 2 .. L)
    <3>1. \A k \in Nat : k >= 2 => k - 1 \in 1 .. k /\ (k - 1 = 1 \/ k - 1 \in 2 .. k)
      OBVIOUS
    <3> QED
      BY <1>1, <2>1, <3>1, Zenon
  <2>3. stack_[L - 1] \in Words /\ (L - 1 = 1 \/ stack_[L - 1] \in Tokens)
    BY <2>2, TopOfStack
  <2>4. stack_[L - 1] = -1 => L - 1 = 1
    BY <1>1, <2>3 DEF Tokens
  <2>5. K = L - 1
    BY <2>1 DEF Shrunk
  <2> QED
    BY <1>10, <2>1, <2>3, <2>4, <2>5, Zenon
<1>13. CASE Aborts(action)
  <2>1. next_ \notin Tokens /\ ActionType(action) = SHIFT /\ stack_' = stack_
    BY <1>1, <1>13 DEF Aborts, EndOfInput, Tokens, Abort, parserVars
  <2>2. step_for_token_' = step_for_token_
    BY <1>8, <2>1, Indices, Zenon
  <2>3. touched' = touched
    BY <1>4, <1>7, <2>1, SMTT(60)
  <2> QED
    BY <1>1, <2>1, <2>2, <2>3, Zenon DEF Mapped
<1> QED
  BY <1>9, <1>11, <1>12, <1>13, StepKinds, SMTT(60)
LEMMA NextMapped == IndInv /\ Mapped /\ [Next]_vars => Mapped'
<1> SUFFICES ASSUME IndInv, Mapped, [Next]_vars PROVE Mapped'
  OBVIOUS
<1>1. CASE Next
  BY <1>1, NextIsLegal, AdvanceMapped, Zenon
<1>2. CASE UNCHANGED vars
  <2>1. num_tokens_' = num_tokens_ /\ Tokens' = Tokens
    BY <1>2 DEF vars, num_tokens_, Tokens
  <2> QED
    BY <1>2, <2>1, Zenon DEF vars, parserVars, mapVars, Mapped
<1> QED
  BY <1>1, <1>2

LEMMA MappedSteps == IndInv /\ Mapped => StepsOfStackTokens
<1> SUFFICES ASSUME IndInv, Mapped, NEW t \in Range(stack_) \ {-1}
             PROVE  ForToken(step_for_token_, t) = touched[t]
  BY DEF StepsOfStackTokens
<1>1. stack_ \in Seq(Words)
  BY TopOfStack
<1>2. PICK i \in 1 .. Len(stack_) : t = stack_[i]
  BY <1>1 DEF Range
<1>3. stack_[1] = -1 /\ Len(stack_) \in Nat /\ num_tokens_ \in Nat
  BY TopOfStack DEF IsOrdered
<1>4. i # 1
  BY <1>2, <1>3
<1>5. i \in 2 .. Len(stack_)
  <2>1. \A k \in Nat : \A m \in 1 .. k : m # 1 => m \in 2 .. k
    OBVIOUS
  <2> QED
    BY <1>3, <1>4, <2>1, Zenon
<1>6. t \in 0 .. num_tokens_ - 1 /\ step_for_token_[t + 1] = touched[t]
  BY <1>2, <1>5, TopOfStack, Zenon DEF Mapped, Tokens
<1>7. Len(step_for_token_) \in Nat /\ Len(step_for_token_) >= num_tokens_
  BY LenProperties DEF Mapped
<1>8. t \in 0 .. Len(step_for_token_) - 1
  BY <1>3, <1>6, <1>7
<1> QED
  BY <1>6, <1>8, Zenon DEF ForToken

(* For every sentence: step_for_token is right for the tokens on the stack,     *)
(* although each insertion moves the entries of the later tokens.              *)
THEOREM StackStepsAreRight == Spec => []StepsOfStackTokens
<1>1. Spec => []Mapped
  BY ParserStates, InitMapped, NextMapped, PTL DEF Spec
<1> QED
  BY <1>1, ParserStates, MappedSteps, PTL

-----------------------------------------------------------------------------
(* What a shift and an arc of the parser reduce. *)
LEMMA ShiftReduces ==
  ASSUME IndInv, Pushed, NEW t \in Int
  PROVE  Gone(t, stack_', Len(stack_'), next_') <=> Gone(t, stack_, Len(stack_), next_)
<1>1. Len(stack_) \in Nat /\ next_ \in Nat
  BY TopOfStack
<1>2. /\ Len(stack_') = Len(stack_) + 1 /\ next_' = next_ + 1
      /\ \A i \in 1 .. Len(stack_) : stack_'[i] = stack_[i]
      /\ stack_'[Len(stack_) + 1] = next_
  BY Zenon DEF Pushed, Grown
<1>3. Gone(t, stack_', Len(stack_) + 1, next_ + 1) <=> Gone(t, stack_, Len(stack_), next_)
  BY <1>1, <1>2, GrownGone, Zenon
<1> QED
  BY <1>2, <1>3, Zenon

LEMMA ArcReduces ==
  ASSUME IndInv, NEW child, NEW top, NEW label, Popped(child, top, label),
         IsArcOf(stack_, Len(stack_), child, top), NEW t \in Int
  PROVE  Gone(t, stack_', Len(stack_'), next_')
           <=> Gone(t, stack_, Len(stack_), next_) \/ t = child
<1>1. Len(stack_) \in Nat /\ next_ \in Nat /\ IsOrdered(stack_, Len(stack_), next_)
  BY TopOfStack
<1>2. /\ Len(stack_') = Len(stack_) - 1 /\ next_' = next_
      /\ IsShrunk(stack_, Len(stack_), stack_', top)
  BY Zenon DEF Popped, Shrunk, IsShrunk
<1>3. Gone(t, stack_', Len(stack_) - 1, next_)
        <=> Gone(t, stack_, Len(stack_), next_) \/ t = child
  BY <1>1, <1>2, ShrunkGone, Zenon
<1> QED
  BY <1>2, <1>3, Zenon

(* Both kinds of arcs, with their tokens. *)
LEMMA ArcTokens ==
  ASSUME IndInv, NEW action, LeftArcs(action) \/ RightArcs(action)
  PROVE  \E child \in Tokens, top \in Words :
           /\ Popped(child, top, Label(action))
           /\ IsArcOf(stack_, Len(stack_), child, top)
           /\ LeftArcs(action) => child = Stack(1) /\ top = Stack(0)
           /\ RightArcs(action) => child = Stack(0) /\ top = Stack(1)
<1> DEFINE L == Len(stack_)
<1>1. \A k \in Nat : (k >= 2 => k \in 2 .. k /\ k - 1 \in 1 .. k)
                     /\ (k >= 3 => k \in 1 .. k /\ k - 1 \in 2 .. k /\ k >= 2)
  OBVIOUS
<1>2. /\ L \in Nat
      /\ \A i \in 1 .. L : stack_[i] \in Words
      /\ \A i \in 2 .. L : stack_[i] \in Tokens
      /\ L >= 2 => Stack(0) = stack_[L] /\ Stack(1) = stack_[L - 1]
  BY TopOfStack
<1>3. LEFT_ARC # RIGHT_ARC
  BY DEF LEFT_ARC, RIGHT_ARC
<1>4. CASE LeftArcs(action)
  <2>1. /\ L >= 3 /\ Popped(stack_[L - 1], stack_[L], Label(action)) /\ ~RightArcs(action)
    BY <1>3, <1>4, Zenon DEF LeftArcs, RightArcs
  <2>2. stack_[L] \in Words /\ stack_[L - 1] \in Tokens /\ L >= 2
    BY <1>1, <1>2, <2>1, Zenon
  <2>3. IsArcOf(stack_, L, stack_[L - 1], stack_[L])
    BY <2>1, Zenon DEF IsArcOf
  <2> QED
    BY <1>2, <2>1, <2>2, <2>3, Zenon
<1>5. CASE RightArcs(action)
  <2>1. /\ L >= 2 /\ Popped(stack_[L], stack_[L - 1], Label(action)) /\ ~LeftArcs(action)
    BY <1>3, <1>5, Zenon DEF LeftArcs, RightArcs
  <2>2. stack_[L] \in Tokens /\ stack_[L - 1] \in Words
    BY <1>1, <1>2, <2>1, Zenon
  <2>3. IsArcOf(stack_, L, stack_[L], stack_[L - 1])
    BY <2>1, Zenon DEF IsArcOf
  <2> QED
    BY <1>2, <2>1, <2>2, <2>3, Zenon
<1> QED
  BY <1>4, <1>5

(* Every arc that the oracle has drawn is one of the gold analysis. *)
Exact ==
  is_gold => \A t \in Tokens : Gone(t, stack_, Len(stack_), next_) =>
               head_[t] = sentence_.head[t] /\ label_[t] = sentence_.label[t]

LEMMA InitExact == Init => Exact
<1> SUFFICES ASSUME Init PROVE Exact
  OBVIOUS
<1>1. next_ = 0 /\ num_tokens_ \in Nat
  BY SentencesAssumption DEF Init, Fresh, num_tokens_
<1>2. \A t \in Tokens : ~(t < next_)
  BY <1>1 DEF Tokens
<1> QED
  BY <1>2, SMTT(60) DEF Exact, Gone

(* An arc of the oracle is a gold arc. *)
LEMMA OracleArcs ==
  ASSUME IndInv, NEW action, action = GetNextGoldAction, NEW child \in Tokens, NEW top,
         LeftArcs(action) \/ RightArcs(action),
         LeftArcs(action) => child = Stack(1) /\ top = Stack(0),
         RightArcs(action) => child = Stack(0) /\ top = Stack(1)
  PROVE  /\ top = sentence_.head[child] /\ Label(action) = sentence_.label[child]
         /\ LeftArcs(action) => GoldLeft
         /\ RightArcs(action) => GoldRight
<1>1. SHIFT # LEFT_ARC /\ SHIFT # RIGHT_ARC /\ LEFT_ARC # RIGHT_ARC
  BY DEF SHIFT, LEFT_ARC, RIGHT_ARC
<1>2. child # -1
  BY TopOfStack DEF Tokens
<1>3. GoldHead(child) = sentence_.head[child] /\ GoldLabel(child) = sentence_.label[child]
  BY <1>2, Zenon DEF GoldHead, GoldLabel
<1>4. (LeftArcs(action) => GoldLeft) /\ (RightArcs(action) => GoldRight)
  BY <1>1, OracleCases, OracleActions, Zenon DEF LeftArcs, RightArcs
<1>5. /\ GoldLeft => /\ GoldHead(Stack(1)) = Stack(0)
                     /\ Label(GetNextGoldAction) = GoldLabel(Stack(1))
      /\ GoldRight => /\ GoldHead(Stack(0)) = Stack(1)
                      /\ Label(GetNextGoldAction) = GoldLabel(Stack(0))
  BY OracleActions, Zenon DEF GoldLeft, GoldRight
<1> QED
  BY <1>3, <1>4, <1>5, Zenon

LEMMA AdvanceExact ==
  ASSUME IndInv, Exact, NEW action, Legal(action), Advance(action)
  PROVE  Exact'
<1>1. sentence_' = sentence_ /\ Tokens' = Tokens /\ num_tokens_ \in Nat
  BY SentenceStays, TopOfStack
<1> SUFFICES ASSUME is_gold', NEW t \in Tokens, Gone(t, stack_', Len(stack_'), next_')
             PROVE  head_'[t] = sentence_.head[t] /\ label_'[t] = sentence_.label[t]
  BY <1>1, Zenon DEF Exact
<1>2. is_gold /\ action = GetNextGoldAction
  BY Zenon DEF Advance, RecordStep
<1>3. t \in Int
  BY <1>1 DEF Tokens
<1>4. Gone(t, stack_, Len(stack_), next_) =>
        head_[t] = sentence_.head[t] /\ label_[t] = sentence_.label[t]
  BY <1>2, Zenon DEF Exact
<1>5. CASE Shifts(action)
  <2>1. head_' = head_ /\ label_' = label_ /\ Pushed
    BY <1>5 DEF Shifts, Pushed
  <2> QED
    BY <1>3, <1>4, <2>1, ShiftReduces, Zenon
<1>6. CASE LeftArcs(action) \/ RightArcs(action)
  <2>1. PICK child \in Tokens, top \in Words :
           /\ Popped(child, top, Label(action))
           /\ IsArcOf(stack_, Len(stack_), child, top)
           /\ LeftArcs(action) => child = Stack(1) /\ top = Stack(0)
           /\ RightArcs(action) => child = Stack(0) /\ top = Stack(1)
    BY <1>6, ArcTokens, Zenon
  <2>2. top = sentence_.head[child] /\ Label(action) = sentence_.label[child]
    BY <1>2, <1>6, <2>1, OracleArcs, Zenon
  <2>3. Gone(t, stack_, Len(stack_), next_) \/ t = child
    BY <1>3, <2>1, ArcReduces, Zenon
  <2>4. /\ head_' = [head_ EXCEPT ![child] = top]
        /\ label_' = [label_ EXCEPT ![child] = Label(action)]
    BY <2>1 DEF Popped, AddArc
  <2>5. head_ \in [Tokens -> Words] /\ label_ \in [Tokens -> -1 .. NumLabels - 1]
    BY DEF IndInv, Typed
  <2> QED
    BY <1>4, <2>2, <2>3, <2>4, <2>5, SMTT(60)
<1>7. CASE Aborts(action)
  <2>1. UNCHANGED parserVars
    BY <1>7, SMTT(60) DEF Aborts, Abort
  <2> QED
    BY <1>4, <2>1 DEF parserVars
<1> QED
  BY <1>5, <1>6, <1>7, StepKinds, SMTT(60)
LEMMA NextExact == IndInv /\ Exact /\ [Next]_vars => Exact'
<1> SUFFICES ASSUME IndInv, Exact, [Next]_vars PROVE Exact'
  OBVIOUS
<1>1. CASE Next
  BY <1>1, NextIsLegal, AdvanceExact, Zenon
<1>2. CASE UNCHANGED vars
  <2>1. Tokens' = Tokens
    BY <1>2 DEF vars, num_tokens_, Tokens
  <2> QED
    BY <1>2, <2>1, Zenon DEF vars, parserVars, Exact
<1> QED
  BY <1>1, <1>2

(* In a final state every token is reduced. *)
LEMMA FinalGone ==
  ASSUME IndInv, IsFinalState
  PROVE  /\ next_ = num_tokens_ /\ Len(stack_) = 1 /\ stack_[1] = -1
         /\ \A t \in Tokens : Gone(t, stack_, Len(stack_), next_)
<1>1. next_ = num_tokens_ /\ Len(stack_) < 2
  BY DEF IsFinalState, EndOfInput, StackSize
<1>2. /\ Len(stack_) \in Nat /\ Len(stack_) >= 1 /\ stack_[1] = -1 /\ num_tokens_ \in Nat
  BY TopOfStack DEF IsOrdered
<1>3. Len(stack_) = 1
  <2>1. \A k \in Nat : k >= 1 /\ k < 2 => k = 1
    OBVIOUS
  <2> QED
    BY <1>1, <1>2, <2>1, Zenon
<1>4. \A t \in Tokens : t < next_ /\ t # -1 /\ \A i \in 1 .. 1 : i = 1
  BY <1>1, <1>2, SMTT(60) DEF Tokens
<1> QED
  BY <1>1, <1>2, <1>3, <1>4, SMTT(60) DEF Gone

LEMMA ExactIsRight == IndInv /\ Exact => OracleIsRight
<1> SUFFICES ASSUME IndInv, Exact, IsFinalState, is_gold
             PROVE  head_ = sentence_.head /\ label_ = sentence_.label
  BY DEF OracleIsRight
<1>1. \A t \in Tokens : head_[t] = sentence_.head[t] /\ label_[t] = sentence_.label[t]
  BY FinalGone, Zenon DEF Exact
<1>2. head_ \in [Tokens -> Words] /\ label_ \in [Tokens -> -1 .. NumLabels - 1]
  BY DEF IndInv, Typed
<1>3. sentence_.head \in [Tokens -> Words] /\ sentence_.label \in [Tokens -> 0 .. NumLabels - 1]
  BY SentencesAssumption, SMTT(60) DEF IndInv, Typed, Tokens, Words, num_tokens_
<1> QED
  BY <1>1, <1>2, <1>3, SMTT(60)

(* For every sentence, projective or not: a parse that follows the oracle to a  *)
(* final state has exactly the gold heads and labels.                         *)
THEOREM OracleParses == Spec => []OracleIsRight
<1>1. Spec => []Exact
  BY ParserStates, InitExact, NextExact, PTL DEF Spec
<1> QED
  BY <1>1, ParserStates, ExactIsRight, PTL

-----------------------------------------------------------------------------
(* The analysis under construction.  dom[x] holds x and what is known to be     *)
(* below x, and rank numbers the arcs in the order in which they were drawn.   *)
(* Whatever lies between two neighbours on the stack is below one of them,     *)
(* what lies behind the topmost token is below it, and what lies under an arc  *)
(* is below its head.                                                        *)
GoneTokens == {t \in Tokens : Gone(t, stack_, Len(stack_), next_)}
Fits(dom, rank) ==
  /\ DomFits(head_, GoneTokens, num_tokens_, dom)
  /\ RankFits(head_, GoneTokens, next_ - (Len(stack_) - 1), num_tokens_, rank)
  /\ BlocksFit(stack_, Len(stack_), next_, num_tokens_, dom)
  /\ ArcsFit(head_, GoneTokens, num_tokens_, dom)
Forested == \E dom, rank : Fits(dom, rank)

LEMMA InitForested == Init => Forested
<1> SUFFICES ASSUME Init PROVE Forested
  OBVIOUS
<1> DEFINE n == num_tokens_
           dom == [x \in -1 .. n - 1 |-> {x}]
           rank == [t \in 0 .. n - 1 |-> 1]
<1>1. n \in Nat /\ next_ = 0 /\ stack_ = <<-1>>
  BY SentencesAssumption DEF Init, Fresh, num_tokens_
<1>2. Len(stack_) = 1 /\ stack_[1] = -1
  BY <1>1
<1>3. GoneTokens = {}
  BY <1>1 DEF GoneTokens, Tokens, Gone
<1>4. DomFits(head_, {}, n, dom)
  BY DEF DomFits
<1>5. RankFits(head_, {}, next_ - (Len(stack_) - 1), n, rank)
  BY <1>1 DEF RankFits
<1>6. BlocksFit(stack_, 1, 0, n, dom)
  BY <1>1, <1>2, SMTT(60) DEF BlocksFit
<1>7. ArcsFit(head_, {}, n, dom)
  BY DEF ArcsFit
<1> HIDE DEF dom, rank
<1>8. Fits(dom, rank)
  BY <1>1, <1>2, <1>3, <1>4, <1>5, <1>6, <1>7, Zenon DEF Fits
<1> QED
  BY <1>8, Zenon DEF Forested

LEMMA AdvanceForested ==
  ASSUME IndInv, Forested, NEW action, Legal(action), Advance(action)
  PROVE  Forested'
<1> DEFINE n == num_tokens_
           L == Len(stack_)
           gone == {t \in Tokens : Gone(t, stack_', Len(stack_'), next_')}
<1>1. PICK dom, rank : Fits(dom, rank)
  BY DEF Forested
<1>2. /\ DomFits(head_, GoneTokens, n, dom)
      /\ RankFits(head_, GoneTokens, next_ - (L - 1), n, rank)
      /\ BlocksFit(stack_, L, next_, n, dom)
      /\ ArcsFit(head_, GoneTokens, n, dom)
  BY <1>1 DEF Fits
<1>3. /\ num_tokens_' = n /\ Tokens' = Tokens /\ n \in Nat /\ next_ \in Nat /\ L \in Nat
      /\ next_ \in 0 .. n /\ IsOrdered(stack_, L, next_) /\ head_ \in [0 .. n - 1 -> -1 .. n - 1]
      /\ \A i \in 1 .. L : stack_[i] \in -1 .. n - 1
  BY SentenceStays, TopOfStack, Zenon DEF IndInv, Typed, Tokens, Words
<1>4. GoneTokens' = gone /\ \A t \in Tokens : t \in Int
  BY <1>3 DEF GoneTokens, Tokens
<1>5. ASSUME NEW d, NEW r, DomFits(head_', gone, n, d),
             RankFits(head_', gone, next_' - (Len(stack_') - 1), n, r),
             BlocksFit(stack_', Len(stack_'), next_', n, d), ArcsFit(head_', gone, n, d)
      PROVE  Forested'
  <2> HIDE DEF n, gone
  <2> QED
    BY <1>3, <1>4, <1>5, Zenon DEF Forested, Fits
<1>6. CASE Shifts(action)
  <2>1. Pushed
    BY <1>6 DEF Shifts
  <2>2. /\ Len(stack_') = L + 1 /\ next_' = next_ + 1 /\ head_' = head_
        /\ \A i \in 1 .. L : stack_'[i] = stack_[i]
        /\ stack_'[L + 1] = next_
    BY <2>1, Zenon DEF Pushed, Grown
  <2>3. gone = GoneTokens
    BY <1>4, <2>1, ShiftReduces, SMTT(60) DEF GoneTokens
  <2>4. BlocksFit(stack_', L + 1, next_ + 1, n, dom)
    BY <1>2, <1>3, <2>2, ShiftBlocks, Zenon
  <2>5. (next_ + 1) - ((L + 1) - 1) = next_ - (L - 1)
    BY <1>3
  <2> HIDE DEF gone
  <2> QED
    BY <1>2, <1>5, <2>2, <2>3, <2>4, <2>5, Zenon
<1>7. CASE LeftArcs(action) \/ RightArcs(action)
  <2>1. PICK c \in Tokens, p \in Words :
           /\ Popped(c, p, Label(action))
           /\ IsArcOf(stack_, L, c, p)
    BY <1>7, ArcTokens, Zenon
  <2>2. /\ next_' = next_ /\ Len(stack_') = L - 1 /\ IsShrunk(stack_, L, stack_', p)
        /\ head_' = [head_ EXCEPT ![c] = p]
    BY <2>1, Zenon DEF Popped, Shrunk, IsShrunk, AddArc
  <2>3. gone = GoneTokens \cup {c}
    BY <1>4, <2>1, ArcReduces, SMTT(60) DEF GoneTokens
  <2>4. c \in 0 .. n - 1 /\ p \in -1 .. n - 1 /\ GoneTokens \in SUBSET (0 .. n - 1)
    BY <2>1, SMTT(60) DEF Tokens, Words, GoneTokens
  <2>5. L - 1 \in 1 .. L /\ L \in 1 .. L /\ L - 1 < L /\ L >= 2
    BY <1>3, <2>1, SMTT(60) DEF IsArcOf
  <2>6. c # p /\ c \notin GoneTokens /\ p \notin GoneTokens
    BY <2>1, <2>5, <1>3, SMTT(60) DEF IsArcOf, IsOrdered, GoneTokens, Gone
  <2> DEFINE dom2 == [dom EXCEPT ![p] = dom[p] \cup dom[c]]
             arcs == next_ - (L - 1)
             rank2 == [rank EXCEPT ![c] = arcs + 1]
  <2>7. arcs \in Nat /\ arcs < n /\ arcs + 1 = next_ - ((L - 1) - 1)
    BY <1>3, <2>5 DEF IsOrdered
  <2>8. DomFits(head_', gone, n, dom2)
    <3> HIDE DEF dom2, gone
    <3>1. dom2 = [dom EXCEPT ![p] = dom[p] \cup dom[c]]
      BY DEF dom2
    <3> QED
      BY <1>2, <1>3, <2>2, <2>3, <2>4, <2>6, <3>1, ArcDom, Zenon
  <2>9. RankFits(head_', gone, arcs + 1, n, rank2)
    <3> HIDE DEF arcs, rank2, gone
    <3>1. RankFits(head_, GoneTokens, arcs, n, rank) /\ rank2 = [rank EXCEPT ![c] = arcs + 1]
      BY <1>2, SMTT(60) DEF arcs, rank2
    <3> QED
      BY <1>3, <2>2, <2>3, <2>4, <2>6, <2>7, <3>1, ArcRank, Zenon
  <2>10. /\ dom \in [-1 .. n - 1 -> SUBSET (-1 .. n - 1)]
         /\ \A x \in -1 .. n - 1 : x \in dom[x]
    BY <1>2 DEF DomFits
  <2>11. /\ \A x \in -1 .. n - 1 : dom[x] \subseteq dom2[x]
         /\ dom[c] \subseteq dom2[p] /\ c \in dom[c]
    BY <2>4, <2>10, SMTT(60)
  <2> HIDE DEF dom2, rank2, arcs, gone
  <2>12. /\ BlocksFit(stack_', L - 1, next_, n, dom2)
         /\ Covered(c, p, n, dom2)
    BY <1>2, <1>3, <2>1, <2>2, <2>4, <2>11, ArcBlocks, ZenonT(60)
  <2>13. ArcsFit(head_', gone, n, dom2)
    BY <1>2, <1>3, <2>2, <2>3, <2>4, <2>6, <2>11, <2>12, ArcArcs, Zenon
  <2> QED
    BY <1>5, <2>2, <2>7, <2>8, <2>9, <2>12, <2>13, Zenon
<1>8. CASE Aborts(action)
  <2>1. head_' = head_ /\ stack_' = stack_ /\ next_' = next_
    BY <1>8 DEF Aborts, Abort, parserVars
  <2>2. gone = GoneTokens
    BY <2>1, SMTT(60) DEF GoneTokens
  <2> HIDE DEF gone
  <2> QED
    BY <1>2, <1>5, <2>1, <2>2, Zenon
<1> QED
  BY <1>6, <1>7, <1>8, StepKinds, SMTT(60)
LEMMA NextForested == IndInv /\ Forested /\ [Next]_vars => Forested'
<1> SUFFICES ASSUME IndInv, Forested, [Next]_vars PROVE Forested'
  OBVIOUS
<1>1. CASE Next
  BY <1>1, NextIsLegal, AdvanceForested, Zenon
<1>2. CASE UNCHANGED vars
  <2>1. /\ num_tokens_' = num_tokens_ /\ Tokens' = Tokens /\ head_' = head_
        /\ stack_' = stack_ /\ next_' = next_
    BY <1>2 DEF vars, parserVars, num_tokens_, Tokens
  <2>2. GoneTokens' = GoneTokens
    BY <2>1 DEF GoneTokens
  <2> QED
    BY <2>1, <2>2, Zenon DEF Forested, Fits
<1> QED
  BY <1>1, <1>2

(* When everything is reduced, everything is below the root. *)
LEMMA ForestIsTree == IndInv /\ Forested => (IsFinalState => head_ \in ProjectiveTrees(num_tokens_))
<1> SUFFICES ASSUME IndInv, Forested, IsFinalState
             PROVE  head_ \in ProjectiveTrees(num_tokens_)
  OBVIOUS
<1> DEFINE n == num_tokens_
<1>1. PICK dom, rank : Fits(dom, rank)
  BY SMTT(60) DEF Forested
<1>2. /\ next_ = n /\ Len(stack_) = 1 /\ stack_[1] = -1 /\ n \in Nat
      /\ GoneTokens = 0 .. n - 1 /\ head_ \in Analyses(n)
  BY FinalGone, TopOfStack, SMTT(60) DEF GoneTokens, Tokens, Analyses, IndInv, Typed, Words
<1>3. /\ DomFits(head_, 0 .. n - 1, n, dom)
      /\ RankFits(head_, 0 .. n - 1, next_ - (Len(stack_) - 1), n, rank)
      /\ BlocksFit(stack_, 1, n, n, dom)
      /\ ArcsFit(head_, 0 .. n - 1, n, dom)
  BY <1>1, <1>2 DEF Fits
<1>4. /\ dom \in [-1 .. n - 1 -> SUBSET (-1 .. n - 1)]
      /\ \A x \in -1 .. n - 1 : x \in dom[x]
      /\ \A x \in -1 .. n - 1 : \A u \in dom[x] : u # x => u \in 0 .. n - 1 /\ head_[u] \in dom[x]
  BY <1>3 DEF DomFits
<1>5. /\ rank \in [0 .. n - 1 -> 1 .. n]
      /\ \A u \in 0 .. n - 1 : head_[u] \in 0 .. n - 1 => rank[u] < rank[head_[u]]
  BY <1>3 DEF RankFits
<1>6. ASSUME NEW x \in -1 .. n - 1, NEW t \in dom[x]
      PROVE  x \in Upward(head_, n, t)
  <2>1. dom[x] \in SUBSET (-1 .. n - 1)
    BY <1>4
  <2>2. ASSUME NEW v \in dom[x], v # x
        PROVE  /\ v # -1 /\ head_[v] \in dom[x]
               /\ head_[v] # x => rank[v] < rank[head_[v]]
    BY <1>4, <1>5, <2>2, SMTT(60)
  <2> HIDE DEF n
  <2> QED
    BY <1>2, <1>5, <2>1, <2>2, ClimbReaches, Zenon
<1>7. IsTree(head_, n)
  <2>1. \A t \in 0 .. n - 1 : t \in dom[-1]
    BY <1>2, <1>3, SMTT(60) DEF BlocksFit
  <2>2. -1 \in -1 .. n - 1
    BY <1>2
  <2> HIDE DEF n
  <2> QED
    BY <1>6, <2>1, <2>2, Zenon DEF IsTree
<1>8. IsProjective(head_, n)
  <2>1. \A t, u \in 0 .. n - 1 : Between(u, t, head_[t]) => u \in dom[head_[t]]
    BY <1>3 DEF ArcsFit
  <2>2. \A t \in 0 .. n - 1 : head_[t] \in -1 .. n - 1
    BY <1>2 DEF Analyses
  <2> HIDE DEF n
  <2> QED
    BY <1>6, <2>1, <2>2, Zenon DEF IsProjective, Between
<1> QED
  BY <1>2, <1>7, <1>8, Zenon DEF ProjectiveTrees, Trees

(* Whatever actions are predicted, the finished analysis is a projective tree. *)
THEOREM FinishedParsesAreTrees ==
  Spec => [](IsFinalState => head_ \in ProjectiveTrees(num_tokens_))
<1>1. Spec => []Forested
  BY ParserStates, InitForested, NextForested, PTL DEF Spec
<1> QED
  BY <1>1, ParserStates, ForestIsTree, PTL
-----------------------------------------------------------------------------
(* The oracle on a projective sentence.  The loop of DoneChildrenRightOf finds  *)
(* a dependent exactly if there is one.                                        *)
LEMMA ScanIsRight ==
  ASSUME IndInv, IsPlanar(sentence_.head, num_tokens_), NEW x \in Words, x < next_
  PROVE  DoneChildrenRightOf(x) <=> Childless(sentence_.head, x, next_, num_tokens_)
<1> DEFINE n == num_tokens_
           h == sentence_.head
           Free(i) == Childless(h, x, i, n)
           Scan(f, i) == IF i = n THEN TRUE
                         ELSE IF GoldHead(i) = x THEN FALSE
                         ELSE IF GoldHead(i) > i THEN f[GoldHead(i)]
                         ELSE f[i + 1]
           Loop(f) == [i \in next_ .. n |-> Scan(f, i)]
           done == CHOOSE f : f = Loop(f)
<1>1. /\ n \in Nat /\ next_ \in 0 .. n /\ h \in Analyses(n) /\ x \in -1 .. n - 1
  BY TopOfStack, SentencesAssumption, SMTT(60) DEF IndInv, Typed, Words, num_tokens_, Analyses
<1>2. \A i \in next_ .. n : i # -1 /\ GoldHead(i) = h[i]
  BY <1>1, SMTT(60) DEF GoldHead
<1>3. \A i \in next_ .. n :
        /\ i = n => Free(i)
        /\ i # n => /\ i \in 0 .. n - 1
                    /\ h[i] = x => ~Free(i)
                    /\ h[i] # x /\ h[i] > i => h[i] \in next_ .. n /\ (Free(i) <=> Free(h[i]))
                    /\ h[i] # x /\ ~(h[i] > i) =>
                         i + 1 \in next_ .. n /\ (Free(i) <=> Free(i + 1))
  <2> HIDE DEF n, h
  <2>1. IsPlanar(h, n)
    BY DEF n, h
  <2> QED
    BY <1>1, <2>1, ScanSteps, SMTT(60)
<1> HIDE DEF Free, n, h
<1> DEFINE g == [i \in next_ .. n |-> Free(i)]
<1>4. g = Loop(g)
  <2>1. ASSUME NEW i \in next_ .. n
        PROVE  g[i] = Scan(g, i)
    <3>1. g[i] = Free(i) /\ Free(i) \in BOOLEAN
      BY DEF Free, Childless
    <3>2. \A j \in next_ .. n : g[j] = Free(j)
      OBVIOUS
    <3>3. GoldHead(i) = h[i]
      BY <1>2
    <3> HIDE DEF g, GoldHead
    <3>4. CASE i = n
      BY <1>3, <3>1, <3>4, Zenon
    <3>5. CASE i # n /\ h[i] = x
      BY <1>3, <3>1, <3>3, <3>5, Zenon
    <3>6. CASE i # n /\ h[i] # x /\ h[i] > i
      <4>1. g[h[i]] = Free(h[i]) /\ (Free(i) <=> Free(h[i]))
        BY <1>3, <3>2, <3>6, Zenon
      <4>2. Scan(g, i) = g[h[i]]
        BY <3>3, <3>6, Zenon
      <4>3. Free(i) = Free(h[i])
        BY <4>1 DEF Free, Childless
      <4> QED
        BY <3>1, <4>1, <4>2, <4>3, Zenon
    <3>7. CASE i # n /\ h[i] # x /\ ~(h[i] > i)
      <4>1. g[i + 1] = Free(i + 1) /\ (Free(i) <=> Free(i + 1))
        BY <1>3, <3>2, <3>7, Zenon
      <4>2. Scan(g, i) = g[i + 1]
        BY <3>3, <3>7, Zenon
      <4>3. Free(i) = Free(i + 1)
        BY <4>1 DEF Free, Childless
      <4> QED
        BY <3>1, <4>1, <4>2, <4>3, Zenon
    <3> QED
      BY <3>4, <3>5, <3>6, <3>7, Zenon
  <2> QED
    BY <2>1, Zenon
<1>5. done = Loop(done)
  <2> HIDE DEF Loop
  <2> QED
    BY <1>4, Zenon
<1>6. \A i \in next_ .. n : done[i] = Scan(done, i)
  <2>1. \A f : \A i \in next_ .. n : Loop(f)[i] = Scan(f, i)
    OBVIOUS
  <2> HIDE DEF done, Loop, Scan
  <2> QED
    BY <1>5, <2>1, Zenon
<1>7. DoneChildrenRightOf(x) = done[next_]
  BY DEF DoneChildrenRightOf, n
<1> HIDE DEF done
<1>8. ASSUME NEW i \in next_ .. n, ~(done[i] <=> Free(i)),
             \A j \in next_ .. n : j > i => (done[j] <=> Free(j))
      PROVE  FALSE
  <2>1. done[i] = Scan(done, i)
    BY <1>6, Zenon
  <2>2. i + 1 > i
    BY <1>1
  <2>3. GoldHead(i) = h[i]
    BY <1>2
  <2> HIDE DEF GoldHead
  <2>4. CASE i = n
    BY <1>3, <1>8, <2>1, <2>4, Zenon
  <2>5. CASE i # n /\ h[i] = x
    BY <1>3, <1>8, <2>1, <2>3, <2>5, Zenon
  <2>6. CASE i # n /\ h[i] # x /\ h[i] > i
    <3>1. (done[h[i]] <=> Free(h[i])) /\ (Free(i) <=> Free(h[i]))
      BY <1>3, <1>8, <2>6, Zenon
    <3>2. Scan(done, i) = done[h[i]]
      BY <2>3, <2>6, Zenon
    <3> QED
      BY <1>8, <2>1, <3>1, <3>2, Zenon
  <2>7. CASE i # n /\ h[i] # x /\ ~(h[i] > i)
    <3>1. (done[i + 1] <=> Free(i + 1)) /\ (Free(i) <=> Free(i + 1))
      BY <1>3, <1>8, <2>2, <2>7, Zenon
    <3>2. Scan(done, i) = done[i + 1]
      BY <2>3, <2>7, Zenon
    <3> QED
      BY <1>8, <2>1, <3>1, <3>2, Zenon
  <2> QED
    BY <2>4, <2>5, <2>6, <2>7, Zenon
<1>9. ASSUME ~(done[next_] <=> Free(next_))
      PROVE  FALSE
  <2> DEFINE T == {i \in next_ .. n : ~(done[i] <=> Free(i))}
  <2>1. T \subseteq 0 .. n /\ T # {} /\ n \in Nat
    BY <1>1, <1>9
  <2>2. PICK i \in T : \A y \in T : i >= y
    <3> HIDE DEF T
    <3> QED
      BY <2>1, GreatestElement, Zenon
  <2>3. \A j \in next_ .. n : j > i => ~(i >= j)
    BY <1>1
  <2>4. \A j \in next_ .. n : j > i => j \notin T
    <3> HIDE DEF T
    <3> QED
      BY <2>2, <2>3, Zenon
  <2> QED
    BY <1>8, <2>4, Zenon
<1> QED
  BY <1>7, <1>9, Zenon DEF Free, n, h
(* What ProjectivizeFilter leaves of a corpus. *)
ProjectiveGold == \A s \in Sentences : s.head \in ProjectiveTrees(s.n)

Kept ==
  /\ ~aborted
  /\ is_gold => OnTrack(sentence_.head, stack_, Len(stack_), next_, num_tokens_)

LEMMA InitKept == Init => Kept
<1> SUFFICES ASSUME Init PROVE Kept
  OBVIOUS
<1>1. stack_ = <<-1>> /\ next_ = 0 /\ aborted = FALSE /\ num_tokens_ \in Nat
      /\ sentence_.head \in [0 .. num_tokens_ - 1 -> -1 .. num_tokens_ - 1]
  BY SentencesAssumption, SMTT(60) DEF Init, Fresh, num_tokens_
<1>2. Len(stack_) = 1
  BY <1>1, SMTT(60)
<1>3. \A v \in 0 .. num_tokens_ - 1 : sentence_.head[v] # -1 => ~(sentence_.head[v] < 0)
  BY <1>1
<1> QED
  BY <1>1, <1>2, <1>3, SMTT(60) DEF Kept, OnTrack, Gone

LEMMA GoldSituation ==
  ASSUME ProjectiveGold, IndInv, Kept, is_gold
  PROVE  /\ IsPlanar(sentence_.head, num_tokens_)
         /\ Situation(sentence_.head, stack_, Len(stack_), next_, num_tokens_)
<1>1. /\ num_tokens_ \in Nat /\ sentence_.head \in ProjectiveTrees(num_tokens_)
      /\ sentence_.head \in Analyses(num_tokens_)
  BY TopOfStack DEF ProjectiveGold, IndInv, Typed, num_tokens_, ProjectiveTrees, Trees
<1>2. IsPlanar(sentence_.head, num_tokens_)
  BY <1>1, ProjectiveIsPlanar, Zenon
<1>3. Len(stack_) \in Nat /\ next_ \in 0 .. num_tokens_ /\ IsOrdered(stack_, Len(stack_), next_)
  BY TopOfStack, Zenon DEF IndInv, Typed
<1> QED
  BY <1>1, <1>2, <1>3, Zenon DEF Kept, Situation

(* The tokens that the oracle compares. *)
LEMMA TopTokens ==
  ASSUME ProjectiveGold, IndInv, Kept, is_gold, Len(stack_) >= 2
  PROVE  LET L == Len(stack_)
             h == sentence_.head
         IN  /\ Stack(0) = stack_[L] /\ Stack(1) = stack_[L - 1] /\ stack_[L] # stack_[L - 1]
             /\ GoldHead(stack_[L]) = h[stack_[L]]
             /\ L >= 3 => GoldHead(stack_[L - 1]) = h[stack_[L - 1]]
             /\ DoneChildrenRightOf(stack_[L]) <=> Childless(h, stack_[L], next_, num_tokens_)
<1> DEFINE L == Len(stack_)
<1>1. /\ L \in Nat /\ IsOrdered(stack_, L, next_)
      /\ \A i \in 1 .. L : stack_[i] \in Words
      /\ \A i \in 2 .. L : stack_[i] \in Tokens
      /\ Stack(0) = stack_[L] /\ Stack(1) = stack_[L - 1]
  BY TopOfStack, Zenon
<1>2. L - 1 \in 1 .. L /\ L \in 2 .. L /\ L \in 1 .. L /\ L - 1 < L /\ (L >= 3 => L - 1 \in 2 .. L)
  BY <1>1, SMTT(60)
<1> HIDE DEF L
<1>3. stack_[L] < next_ /\ stack_[L] \in Words /\ stack_[L] # stack_[L - 1]
  BY <1>1, <1>2, SMTT(60) DEF IsOrdered
<1>4. \A t \in Tokens : GoldHead(t) = sentence_.head[t]
  BY TopOfStack DEF Tokens, GoldHead
<1>5. DoneChildrenRightOf(stack_[L]) <=> Childless(sentence_.head, stack_[L], next_, num_tokens_)
  BY <1>3, GoldSituation, ScanIsRight, Zenon
<1> QED
  BY <1>1, <1>2, <1>3, <1>4, <1>5, Zenon DEF L

(* When the oracle shifts. *)
LEMMA GoldShifts ==
  ASSUME ProjectiveGold, IndInv, Kept, is_gold, GoldShift
  PROVE  OracleShifts(sentence_.head, stack_, Len(stack_), next_, num_tokens_)
BY TopTokens, Zenon DEF OracleShifts, GoldShift

(* No step fails the CHECK of a shift. *)
LEMMA NeverAborts ==
  ASSUME ProjectiveGold, IndInv, Kept, NEW action,
         IsAllowedAction(action) \/ (is_gold /\ ~IsFinalState /\ action = GetNextGoldAction)
  PROVE  ~Aborts(action)
<1> SUFFICES ASSUME ActionType(action) = SHIFT, EndOfInput
             PROVE  FALSE
  BY DEF Aborts
<1>1. SHIFT # LEFT_ARC /\ SHIFT # RIGHT_ARC /\ LEFT_ARC # RIGHT_ARC
  BY DEF SHIFT, LEFT_ARC, RIGHT_ARC
<1>2. ~IsAllowedAction(action)
  BY <1>1, Zenon DEF IsAllowedAction, IsAllowedShift
<1>3. is_gold /\ ~IsFinalState /\ action = GetNextGoldAction
  BY <1>2
<1>4. GoldShift
  BY <1>1, <1>3, OracleCases, OracleActions, Zenon
<1>5. Len(stack_) >= 2
  <2>1. \A k \in Nat : ~(k < 2) => k >= 2
    OBVIOUS
  <2> QED
    BY <1>3, <2>1, TopOfStack, Zenon DEF IsFinalState, StackSize
<1>6. Situation(sentence_.head, stack_, Len(stack_), next_, num_tokens_)
  BY <1>3, GoldSituation, Zenon
<1>7. OracleShifts(sentence_.head, stack_, Len(stack_), next_, num_tokens_)
  BY <1>3, <1>4, GoldShifts, Zenon
<1>8. \E x \in next_ .. num_tokens_ - 1 : Arc(sentence_.head, stack_[Len(stack_)], x)
  BY <1>5, <1>6, <1>7, FirstWaits, Zenon
<1> QED
  BY <1>8, TopOfStack, SMTT(60) DEF EndOfInput

LEMMA AdvanceKept ==
  ASSUME ProjectiveGold, IndInv, Kept, NEW action, Legal(action), Advance(action),
         IsAllowedAction(action) \/ (is_gold /\ ~IsFinalState /\ action = GetNextGoldAction)
  PROVE  Kept'
<1> DEFINE L == Len(stack_)
           h == sentence_.head
           n == num_tokens_
<1>1. sentence_' = sentence_ /\ num_tokens_' = n
  BY SentenceStays, SMTT(60)
<1>2. is_gold' => is_gold /\ action = GetNextGoldAction
  BY Zenon DEF Advance, RecordStep
<1>3. SHIFT # LEFT_ARC /\ SHIFT # RIGHT_ARC /\ LEFT_ARC # RIGHT_ARC
  BY DEF SHIFT, LEFT_ARC, RIGHT_ARC
<1>4. ~aborted
  BY DEF Kept
<1>5. CASE Shifts(action)
  <2>1. /\ Len(stack_') = L + 1 /\ next_' = next_ + 1 /\ aborted' = aborted
        /\ \A i \in 1 .. L : stack_'[i] = stack_[i]
        /\ stack_'[L + 1] = next_
    BY <1>5, Zenon DEF Shifts, Pushed, Grown
  <2>2. ASSUME is_gold'
        PROVE  OnTrack(h, stack_', L + 1, next_ + 1, n)
    <3>1. is_gold /\ GoldShift
      BY <1>2, <1>3, <1>5, <2>2, OracleCases, OracleActions, Zenon DEF Shifts
    <3>2. Situation(h, stack_, L, next_, n) /\ OracleShifts(h, stack_, L, next_, n)
      BY <3>1, GoldSituation, GoldShifts, Zenon
    <3> HIDE DEF L, h, n
    <3> QED
      BY <2>1, <3>2, ShiftOnTrack, Zenon
  <2> QED
    BY <1>1, <1>4, <2>1, <2>2, Zenon DEF Kept
<1>6. CASE LeftArcs(action) \/ RightArcs(action)
  <2>1. PICK c \in Tokens, p \in Words :
           /\ Popped(c, p, Label(action))
           /\ IsArcOf(stack_, Len(stack_), c, p)
           /\ LeftArcs(action) => c = Stack(1) /\ p = Stack(0)
           /\ RightArcs(action) => c = Stack(0) /\ p = Stack(1)
    BY <1>6, ArcTokens, Zenon
  <2>2. /\ next_' = next_ /\ Len(stack_') = L - 1 /\ IsShrunk(stack_, L, stack_', p)
        /\ aborted' = aborted
    BY <2>1, Zenon DEF Popped, Shrunk, IsShrunk
  <2>3. ASSUME is_gold'
        PROVE  OnTrack(h, stack_', L - 1, next_, n)
    <3>1. is_gold /\ action = GetNextGoldAction
      BY <1>2, <2>3
    <3>2. h[c] = p /\ (LeftArcs(action) => GoldLeft) /\ (RightArcs(action) => GoldRight)
      BY <1>6, <2>1, <3>1, OracleArcs, Zenon
    <3>3. L >= 2
      BY <2>1, TopOfStack, SMTT(60) DEF IsArcOf
    <3>4. ASSUME c = stack_[L]
          PROVE  Childless(h, c, next_, n)
      <4>1. /\ Stack(0) = stack_[L] /\ Stack(1) = stack_[L - 1] /\ stack_[L] # stack_[L - 1]
            /\ DoneChildrenRightOf(stack_[L]) <=> Childless(h, stack_[L], next_, n)
        BY <3>1, <3>3, TopTokens, Zenon
      <4>2. RightArcs(action)
        BY <1>6, <2>1, <3>4, <4>1, Zenon
      <4> QED
        BY <3>2, <3>4, <4>1, <4>2, Zenon DEF GoldRight
    <3>5. Situation(h, stack_, L, next_, n) /\ IsArcOf(stack_, L, c, p)
      BY <2>1, <3>1, GoldSituation, Zenon
    <3>6. c \in 0 .. n - 1 /\ p \in -1 .. n - 1
      BY <2>1 DEF Tokens, Words
    <3> HIDE DEF L, h, n
    <3> QED
      BY <2>2, <3>2, <3>4, <3>5, <3>6, ArcOnTrack, Zenon
  <2> QED
    BY <1>1, <1>4, <2>2, <2>3, Zenon DEF Kept
<1> QED
  BY <1>5, <1>6, StepKinds, NeverAborts, SMTT(60)
LEMMA NextKept == ProjectiveGold => (IndInv /\ Kept /\ [Next]_vars => Kept')
<1> SUFFICES ASSUME ProjectiveGold, IndInv, Kept, [Next]_vars PROVE Kept'
  OBVIOUS
<1>1. CASE AdvanceFromPrediction
  <2>1. PICK action \in 0 .. NumActions - 1 : IsAllowedAction(action) /\ Advance(action)
    BY <1>1, SMTT(60) DEF AdvanceFromPrediction
  <2>2. Legal(action)
    BY <2>1 DEF Legal, Kept
  <2> QED
    BY <2>1, <2>2, AdvanceKept, Zenon
<1>2. CASE AdvanceFromOracle
  <2>1. is_gold /\ ~IsFinalState /\ Advance(GetNextGoldAction)
    BY <1>2 DEF AdvanceFromOracle
  <2>2. Legal(GetNextGoldAction)
    BY OracleActions, Zenon DEF Legal, Kept
  <2> QED
    BY <2>1, <2>2, AdvanceKept, Zenon
<1>3. CASE UNCHANGED vars
  <2>1. num_tokens_' = num_tokens_
    BY <1>3 DEF vars, num_tokens_
  <2> QED
    BY <1>3, <2>1, Zenon DEF vars, parserVars, Kept
<1> QED
  BY <1>1, <1>2, <1>3, SMTT(60) DEF Next

(* If the gold analyses are projective trees, no CHECK of ParserState fails,    *)
(* whether the actions are predicted or the oracle's, and every finished        *)
(* analysis is a projective tree.                                            *)
THEOREM ParsesAreProjective == ProjectiveGold => (Spec => []ParsesAreTrees)
<1> SUFFICES ASSUME ProjectiveGold PROVE Spec => []ParsesAreTrees
  OBVIOUS
<1>1. IndInv /\ Kept /\ [Next]_vars => Kept'
  BY NextKept
<1>2. Spec => []Kept
  BY <1>1, ParserStates, InitKept, PTL DEF Spec
<1>3. Kept /\ (IsFinalState => head_ \in ProjectiveTrees(num_tokens_)) => ParsesAreTrees
  BY DEF Kept, ParsesAreTrees
<1> QED
  BY <1>2, <1>3, FinishedParsesAreTrees, PTL
=============================================================================
