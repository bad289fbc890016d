----------------------------- MODULE BeamReader -----------------------------
(***************************************************************************)
(* Structured training and evaluation with a beam: the ops BeamParseReader,     *)
(* BeamParser, BeamParserOutput and BeamEvalOutput of                          *)
(* syntaxnet/beam_reader_ops.cc over a BatchState, the SentenceBatch it reads    *)
(* from, and the loop of structured_graph_builder.py that runs them.            *)
(*                                                                         *)
(* A sentence is what the transition system makes of it: the parser state it     *)
(* starts in, the final states, the moves the allowed actions make and the       *)
(* oracle's action for each state.                                            *)
(***************************************************************************)
EXTENDS Integers, Sequences, SequencesExt, FiniteSets

CONSTANTS
  num_actions,   \* actions are 0 .. num_actions - 1
  Runs,         \* what a graph is built with: see Init
  ScoreRules,   \* scores of the network: functions from row and action to a score
  NumEpochs     \* the flag num_epochs of the trainer

ASSUME ActionsAssumption == num_actions \in Nat \ {0}
ASSUME NumEpochsAssumption == NumEpochs \in Nat

Actions == 0 .. num_actions - 1
null == <<>>   \* no parser state: a parser state is a sequence that is not empty

VARIABLES
  options_,        \* one of Runs
  sentence_batch_, \* the sentence of each beam or 0, how many there are, what is read
  beams_,          \* BeamState of each beam
  epoch_,
  beam_offsets_, step_offsets_,
  phase,           \* "read", "loop" or, after a CHECK, "aborted"
  step,            \* iterations of the loop
  concat_scores,   \* the rows of scores of all iterations
  reads,           \* history: how often each sentence was read since the last rewind
  gold_path        \* history: the actions gold_ performed since Reset, by beam

histories == <<reads, gold_path>>
vars == <<options_, sentence_batch_, beams_, epoch_, beam_offsets_, step_offsets_,
          phase, step, concat_scores, histories>>

Beams == 1 .. options_.batch_size
Sentence(b) == options_.corpus[sentence_batch_.sentences[b]]

-----------------------------------------------------------------------------
(* The transition system, through the interface the beam uses. *)
IsFinalState(s, state) == state \in s.final
IsAllowedAction(s, action, state) == action \in DOMAIN s.moves[state]
PerformAction(s, action, state) == s.moves[state][action]
GetNextGoldAction(s, state) == s.gold[state]

-----------------------------------------------------------------------------
(* SentenceBatch::AdvanceSentence, with the count of sentences it keeps. *)
AdvanceSentence(batch, corpus, b) ==
  LET size == batch.size + IF batch.sentences[b] = 0 THEN 1 ELSE 0
  IN  IF batch.read = Len(corpus)
      THEN [batch EXCEPT !.sentences[b] = 0, !.size = size - 1]
      ELSE [sentences |-> [batch.sentences EXCEPT ![b] = batch.read + 1],
            size |-> size, read |-> batch.read + 1]

-----------------------------------------------------------------------------
(* BeamState. *)
NewBeam == [gold |-> null, slots |-> <<>>, state |-> "ALIVE", all_final |-> FALSE]

(* Whether Reset reads another sentence.  Mutant: a sentence that is done stays. *)
StartsNewIfNone(beam, s) == options_.always_start_new_sentences \/ beam.gold = null
StartsNewSentence(beam, s) ==
  \/ options_.always_start_new_sentences
  \/ beam.gold = null
  \/ IsFinalState(s, beam.gold)

(* Reset, once the sentence is read: the gold state is the only slot.  The flag   *)
(* all_final_ keeps its value.                                                *)
ResetBeam(beam, gold) ==
  [beam EXCEPT
     !.gold = gold,
     !.slots = IF gold = null THEN <<>>
               ELSE <<[score |-> 0, is_gold |-> TRUE, state |-> gold,
                       slot_history |-> <<>>, action_history |-> <<>>]>>,
     !.state = IF gold = null THEN "DEAD" ELSE "ALIVE"]

(* The agenda is a multimap: a slot goes behind the slots whose key is not        *)
(* greater, and of two slots with the same score the gold one comes first.        *)
KeyAtMost(x, y) == x.score < y.score \/ (x.score = y.score /\ (x.is_gold \/ ~y.is_gold))
Emplace(slots, item) ==
  SelectSeq(slots, LAMBDA x : KeyAtMost(x, item)) \o <<item>>
    \o SelectSeq(slots, LAMBDA x : ~KeyAtMost(x, item))

(* PruneBeam: the lowest slot goes, but in training the gold one stays and its     *)
(* beam is dying.  Mutant: the gold slot goes as well.                               *)
PruneBeamGold(beam) ==
  IF Len(beam.slots) <= options_.max_beam_size THEN beam
  ELSE [beam EXCEPT !.slots = Tail(@),
                    !.state = IF beam.slots[1].is_gold THEN "DYING" ELSE @]
PruneBeam(beam) ==
  IF Len(beam.slots) <= options_.max_beam_size THEN beam
  ELSE IF ~options_.continue_until_all_final /\ beam.slots[1].is_gold
  THEN [beam EXCEPT !.slots = RemoveAt(@, 2), !.state = "DYING"]
  ELSE [beam EXCEPT !.slots = Tail(@)]

(* MaybeInsert and MaybeInsertWithNewAction, each followed by PruneBeam.           *)
(* Mutant: a full beam takes only what beats its best slot.                      *)
MaybeInsertIfBest(beam, item) ==
  IF item.is_gold \/ Len(beam.slots) < options_.max_beam_size
       \/ item.score > Last(beam.slots).score
  THEN PruneBeam([beam EXCEPT !.slots = Emplace(@, item)])
  ELSE beam
MaybeInsert(beam, item) ==
  IF item.is_gold \/ Len(beam.slots) < options_.max_beam_size
       \/ item.score > Head(beam.slots).score
  THEN PruneBeam([beam EXCEPT !.slots = Emplace(@, item)])
  ELSE beam

(* What a slot of the previous beam is offered as: itself when it is final, and    *)
(* otherwise its successors under the allowed actions.                           *)
Successor(s, item, slot, scores, gold_action, action) ==
  [score |-> item.score + scores[slot][action],
   is_gold |-> item.is_gold /\ action = gold_action,
   state |-> PerformAction(s, action, item.state),
   slot_history |-> Append(item.slot_history, slot - 1),
   action_history |-> Append(item.action_history, action)]

Offers(s, slots, scores, gold_action) ==
  FlattenSeq(
    [slot \in DOMAIN slots |->
       IF IsFinalState(s, slots[slot].state) THEN <<slots[slot]>>
       ELSE LET allowed == SelectSeq([a \in 1 .. num_actions |-> a - 1],
                                     LAMBDA a : IsAllowedAction(s, a, slots[slot].state))
            IN  [k \in DOMAIN allowed |->
                   Successor(s, slots[slot], slot, scores, gold_action, allowed[k])]])

(* AdvanceGold: an oracle's action that is not allowed is not performed. *)
GoldAction(s, gold) == IF IsFinalState(s, gold) THEN -1 ELSE GetNextGoldAction(s, gold)
AdvancesGold(s, gold) ==
  ~IsFinalState(s, gold) /\ IsAllowedAction(s, GetNextGoldAction(s, gold), gold)

(* Mutant: a beam with one final slot is done. *)
UpdateAllFinalFirst(s, beam) ==
  LET all == IsFinalState(s, beam.slots[1].state)
  IN  [beam EXCEPT !.all_final = all, !.state = IF all THEN "DEAD" ELSE @]
UpdateAllFinal(s, beam) ==
  LET all == \A k \in DOMAIN beam.slots : IsFinalState(s, beam.slots[k].state)
  IN  [beam EXCEPT !.all_final = all, !.state = IF all THEN "DEAD" ELSE @]

Advance(s, beam, scores) ==
  IF beam.state = "DYING" THEN [beam EXCEPT !.state = "DEAD"]
  ELSE IF beam.state = "DEAD" \/ beam.gold = null THEN beam
  ELSE LET action == GoldAction(s, beam.gold)
           gold == IF AdvancesGold(s, beam.gold) THEN PerformAction(s, action, beam.gold)
                   ELSE beam.gold
       IN  UpdateAllFinal(s, FoldLeft(MaybeInsert, [beam EXCEPT !.gold = gold, !.slots = <<>>],
                                      Offers(s, beam.slots, scores, action)))

-----------------------------------------------------------------------------
(* BatchState: a dead beam has no rows. *)
OffsetsOf(beams) ==
  FoldLeft(LAMBDA offsets, beam :
             Append(offsets, Last(offsets) + IF beam.state = "DEAD" THEN 0 ELSE Len(beam.slots)),
           <<0>>, beams)

(* Reset of every beam in turn; the corpus is rewound once no beam has a           *)
(* sentence.  Mutant: the rewind comes as soon as one beam has none.              *)
ResetAll ==
  FoldLeft(LAMBDA acc, b :
             LET beam == beams_[b]
                 new == beam.gold = null \/ StartsNewSentence(beam, Sentence(b))
                 batch == IF new THEN AdvanceSentence(acc.batch, options_.corpus, b) ELSE acc.batch
                 gold == IF ~new THEN beam.gold
                         ELSE IF batch.sentences[b] = 0 THEN null
                         ELSE options_.corpus[batch.sentences[b]].start
             IN  [batch |-> batch, beams |-> Append(acc.beams, ResetBeam(beam, gold))],
           [batch |-> sentence_batch_, beams |-> <<>>], [b \in Beams |-> b])

RewindsEarly(batch) == batch.size < options_.batch_size
Rewinds(batch) == batch.size = 0

(* The op BeamParseReader: ResetBeams and ResetOffsets.  The trainer runs the      *)
(* graph again until it has seen enough epochs.                                *)
BeamParseReader ==
  /\ phase = "read" /\ epoch_ < NumEpochs
  /\ LET reset == ResetAll
         batch == reset.batch
         rewind == Rewinds(batch)
     IN  /\ beams_' = reset.beams
         /\ sentence_batch_' = IF rewind THEN [batch EXCEPT !.read = 0] ELSE batch
         /\ epoch_' = IF rewind THEN epoch_ + 1 ELSE epoch_
         /\ beam_offsets_' = <<OffsetsOf(reset.beams)>>
         /\ step_offsets_' = <<0, Last(OffsetsOf(reset.beams))>>
         /\ reads' = [d \in DOMAIN options_.corpus |->
                        IF rewind THEN 0
                        ELSE reads[d] + IF d \in sentence_batch_.read + 1 .. batch.read
                                        THEN 1 ELSE 0]
  /\ gold_path' = [b \in Beams |-> <<>>]
  /\ phase' = "loop" /\ step' = 0 /\ concat_scores' = <<>>
  /\ UNCHANGED options_

KeepGoing ==
  /\ step < options_.max_steps
  /\ step = 0 \/ \E b \in Beams : beams_[b].state = "ALIVE"

(* The rows of a beam in the scores of the current step. *)
Rows(offsets, b) == offsets[b + 1] - offsets[b]
BeamScores(rules, offsets, b) ==
  [row \in 1 .. Rows(offsets, b) |-> [a \in Actions |-> rules[b][row][a]]]

(* The op BeamParser: AdvanceBeam for each beam with its slice of the scores,      *)
(* then UpdateOffsets.                                                        *)
BeamParser ==
  /\ phase = "loop" /\ KeepGoing
  /\ \E rules \in [Beams -> ScoreRules] :
       LET offsets == Last(beam_offsets_)
           scores == [b \in Beams |-> BeamScores(rules, offsets, b)]
           advanced == [b \in Beams |-> IF beams_[b].gold = null THEN Advance(null, beams_[b], <<>>)
                                        ELSE Advance(Sentence(b), beams_[b], scores[b])]
       IN  /\ beams_' = advanced
           /\ concat_scores' = concat_scores \o FlattenSeq(scores)
           /\ beam_offsets_' = Append(beam_offsets_, OffsetsOf(advanced))
           /\ step_offsets_' = Append(step_offsets_, Last(step_offsets_) + Last(OffsetsOf(advanced)))
  /\ gold_path' = [b \in Beams |->
       IF beams_[b].state = "ALIVE" /\ beams_[b].gold # null
            /\ AdvancesGold(Sentence(b), beams_[b].gold)
       THEN Append(gold_path[b], GetNextGoldAction(Sentence(b), beams_[b].gold))
       ELSE gold_path[b]]
  /\ step' = step + 1
  /\ UNCHANGED <<options_, sentence_batch_, epoch_, phase, reads>>

(* BeamParserOutput, in the training graph.  A path is a list of indices into the   *)
(* flattened scores, one for each of its actions.  Mutant: the rows of the beams     *)
(* before are not skipped.                                                    *)
GetOffsetOfStep(k, b) == step_offsets_[k]
GetOffset(k, b) == step_offsets_[k] + beam_offsets_[k][b]
Indices(b, item) ==
  [k \in DOMAIN item.slot_history |->
     num_actions * (GetOffset(k, b) + item.slot_history[k]) + item.action_history[k]]
GoldSlots(b) == {k \in DOMAIN beams_[b].slots : beams_[b].slots[k].is_gold}

BeamParserOutput ==
  /\ phase = "loop" /\ ~KeepGoing /\ ~options_.continue_until_all_final
  /\ phase' = IF \A b \in Beams : beams_[b].gold # null => Cardinality(GoldSlots(b)) = 1
              THEN "read" ELSE "aborted"
  /\ UNCHANGED <<options_, sentence_batch_, beams_, epoch_, beam_offsets_, step_offsets_,
                 step, concat_scores, histories>>

(* BeamEvalOutput, in the evaluation graph: the beams whose best path is scored.     *)
Evaluated == {b \in Beams : beams_[b].gold # null /\ beams_[b].all_final}

BeamEvalOutput ==
  /\ phase = "loop" /\ ~KeepGoing /\ options_.continue_until_all_final
  /\ phase' = "read"
  /\ UNCHANGED <<options_, sentence_batch_, beams_, epoch_, beam_offsets_, step_offsets_,
                 step, concat_scores, histories>>

-----------------------------------------------------------------------------
Init ==
  /\ options_ \in Runs
  /\ sentence_batch_ = [sentences |-> [b \in Beams |-> 0], size |-> 0, read |-> 0]
  /\ beams_ = [b \in Beams |-> NewBeam]
  /\ epoch_ = 0
  /\ beam_offsets_ = <<>> /\ step_offsets_ = <<>>
  /\ phase = "read" /\ step = 0 /\ concat_scores = <<>>
  /\ reads = [d \in DOMAIN options_.corpus |-> 0]
  /\ gold_path = [b \in Beams |-> <<>>]

Next == BeamParseReader \/ BeamParser \/ BeamParserOutput \/ BeamEvalOutput

(* The trainer goes on until it has seen its epochs: weak fairness of Next, in a form   *)
(* that does not need ENABLED, which TLC takes too long to evaluate here.            *)
Stopped == (phase = "read" /\ epoch_ >= NumEpochs) \/ phase = "aborted"
Fairness == []<>Stopped \/ []<><<TRUE>>_vars
Spec == Init /\ [][Next]_vars /\ Fairness

-----------------------------------------------------------------------------
IsTraining == ~options_.continue_until_all_final

(* What BeamParserOutput CHECKs, and why training can use it: in a training run a    *)
(* beam with a sentence has exactly one gold slot, even when its score is the lowest  *)
(* and the beam is full, and that slot has done what gold_ did since Reset.           *)
GoldPathKept ==
  IsTraining /\ phase # "read" =>
    \A b \in Beams :
      beams_[b].gold # null =>
        \E k \in DOMAIN beams_[b].slots :
          /\ GoldSlots(b) = {k}
          /\ beams_[b].slots[k].state = beams_[b].gold
          /\ beams_[b].slots[k].action_history = gold_path[b]

(* "For good measure we also output the path scores as computed by the beam           *)
(* decoder, so it can be compared in tests with the path scores computed via the       *)
(* indices": the indices of a path pick, out of the scores of all steps, all beams     *)
(* and all slots, numbers that add up to the score its slot has, whichever beams died  *)
(* before.                                                                       *)
FlatScore(index) == concat_scores[(index \div num_actions) + 1][index % num_actions]
IndicesGiveTheScore ==
  phase = "loop" =>
    \A b \in Beams : \A k \in DOMAIN beams_[b].slots :
      LET item == beams_[b].slots[k]
      IN  item.score = FoldLeft(LAMBDA sum, index : sum + FlatScore(index), 0, Indices(b, item))

(* BeamEvalOutput never scores a path that is not finished: the flag all_final_, which *)
(* Reset leaves as it was, has been set for the slots it is read with.                 *)
EvaluatesFinishedPaths ==
  phase = "loop" /\ ~KeepGoing =>
    \A b \in Evaluated : IsFinalState(Sentence(b), Last(beams_[b].slots).state)

(* An epoch is one pass over the corpus: when it ends, every sentence has been read     *)
(* once and no beam still works on one.                                            *)
EpochIsOnePass ==
  [][epoch_' # epoch_ =>
       /\ \A d \in DOMAIN options_.corpus : reads[d] = 1
       /\ \A b \in Beams : beams_'[b].gold = null]_vars

(* The candidates of a beam in the current step, with the scores of the next state. *)
Candidates(b) ==
  LET offset == Last(step_offsets_) - Last(Last(beam_offsets_)) + Last(beam_offsets_)[b]
      scores == [row \in 1 .. Rows(Last(beam_offsets_), b) |-> concat_scores'[offset + row]]
  IN  Offers(Sentence(b), beams_[b].slots, scores, GoldAction(Sentence(b), beams_[b].gold))
ScoresOf(items) == SortSeq([k \in DOMAIN items |-> items[k].score], <)
Best(scores, n) == SubSeq(scores, 1 + Len(scores) - n, Len(scores))

(* Advance is a beam search: the slots are the best candidates.  In training the gold   *)
(* one stays in place of the worst of them, and the beam dies exactly when the gold     *)
(* path falls off: always if there are enough better candidates, and only if there are  *)
(* enough that are as good.                                                       *)
KeepsTheBestPaths ==
  [][\A b \in Beams :
       step' = step + 1 /\ beams_[b].state = "ALIVE" /\ beams_[b].gold # null =>
         LET all == Candidates(b)
             gold == {k \in DOMAIN all : all[k].is_gold}
             n == IF Len(all) < options_.max_beam_size THEN Len(all) ELSE options_.max_beam_size
             others == SelectSeq(all, LAMBDA x : ~x.is_gold)
             better(k) == Cardinality({j \in DOMAIN all \ {k} : all[j].score > all[k].score})
             asGood(k) == Cardinality({j \in DOMAIN all \ {k} : all[j].score >= all[k].score})
         IN  IF ~IsTraining \/ gold = {}
             THEN ScoresOf(beams_'[b].slots) = Best(ScoresOf(all), n)
             ELSE \A k \in gold :
                    /\ ScoresOf(SelectSeq(beams_'[b].slots, LAMBDA x : ~x.is_gold)) =
                         Best(ScoresOf(others), n - 1)
                    /\ better(k) >= options_.max_beam_size => beams_'[b].state # "ALIVE"
                    /\ beams_'[b].state = "DYING" => asGood(k) >= options_.max_beam_size]_vars

(* Training and evaluation get through the corpus: a run of the graph that does not      *)
(* start a new sentence has moved its gold path on.                                 *)
EpochsGoBy == <>(epoch_ = NumEpochs)
=============================================================================
