-------------------------------- MODULE Beam ---------------------------------
(***************************************************************************)
(* dragnn/core/beam.h: one beam of transition states, advanced from scores   *)
(* or from the oracle, with the history that lets a later lookup find where   *)
(* in the beam the ancestor of a state was.                                  *)
(*                                                                         *)
(* The transition system is a parameter: a state is the sequence of actions   *)
(* that led to it, and what is allowed, final and gold depends on that path.  *)
(* Scores are small integers, plus NaN and minus infinity.  Beam slots and     *)
(* steps are numbered from 0, as in the code.                                *)
(***************************************************************************)
EXTENDS Integers, Sequences, FiniteSets, FiniteSetsExt

CONSTANTS
  NumActions,         \* the actions are 0 .. NumActions - 1
  IsAllowed(_, _),    \* IsAllowed(path, action)
  IsFinal(_),         \* IsFinal(path)
  Oracle(_),          \* Oracle(path): the oracle's actions, a nonempty sequence
  NaN, NegInfinity,   \* the two floats that are not modelled as integers
  Entries,            \* the values a transition matrix may hold
  MaxSizes,           \* the beam sizes that are tried
  MaxSteps            \* bound: steps taken between two resets

ASSUME NumActionsAssumption == NumActions \in Nat \ {0}
ASSUME EntriesAssumption ==
  /\ Entries \subseteq Int \cup {NaN, NegInfinity}
  /\ {NaN, NegInfinity} \cap Int = {} /\ NaN # NegInfinity
ASSUME SizesAssumption == MaxSizes \subseteq Nat \ {0}
ASSUME MaxStepsAssumption == MaxSteps \in Nat
ASSUME OracleAssumption ==
  \A n \in 0 .. MaxSteps - 1 : \A path \in [1 .. n -> 0 .. NumActions - 1] :
    ~IsFinal(path) => Oracle(path) \in Seq(0 .. NumActions - 1) \ {<<>>}

VARIABLES
  max_size_, beam_, beam_index_history_, num_steps_, track_gold_,
  search     \* history: what the last beam search chose among and rejected

vars == <<max_size_, beam_, beam_index_history_, num_steps_, track_gold_, search>>

Actions == 0 .. NumActions - 1
At(seq, i) == seq[i + 1]
Slots == 0 .. Len(beam_) - 1
NoSearch == [candidates |-> 0, rejected |-> {}]

(* A transition state.  slots is a history variable: the slot its lineage     *)
(* had after 0, 1, 2, ... steps; seeded is the gold flag it was created with.  *)
State(path, parent, score, gold, seeded, slots) ==
  [path |-> path, parent_beam_index_ |-> parent, score_ |-> score,
   is_gold_ |-> gold, seeded |-> seeded, slots |-> slots]

(* Float addition and comparison; operands of Less are not NaN. *)
Plus(a, b) ==
  CASE NaN \in {a, b} -> NaN
    [] NegInfinity \in {a, b} -> NegInfinity
    [] OTHER -> a + b

Less(a, b) ==
  CASE b = NegInfinity -> FALSE
    [] a = NegInfinity -> b # NegInfinity
    [] OTHER -> a < b

Init ==
  /\ max_size_ \in MaxSizes
  /\ track_gold_ \in BOOLEAN
  /\ beam_ = <<>>
  /\ beam_index_history_ = <<>>
  /\ num_steps_ = 0
  /\ search = NoSearch

IsTerminal == \A i \in Slots : IsFinal(At(beam_, i).path)

(* A row of the history: what it says of the slots in use, -1 in the others. *)
Row(sources) ==
  [n \in 1 .. max_size_ |-> IF n <= Len(sources) THEN sources[n] ELSE -1]

-----------------------------------------------------------------------------
(* Init(initial_states): the component seeds the beam with the first states  *)
(* of its parent's beam, each with its parent's slot and score.              *)
InitBeam ==
  /\ beam_index_history_ = <<>>
  /\ \E k \in 1 .. max_size_, gold \in BOOLEAN :
     \E scores \in [1 .. k -> Entries \cap Int] :
       /\ \A n \in 2 .. k : scores[n] <= scores[n - 1]
       /\ beam_' = [n \in 1 .. k |-> State(<<>>, n - 1, scores[n], gold /\ track_gold_,
                                           gold /\ track_gold_, <<n - 1>>)]
       /\ beam_index_history_' = Append(beam_index_history_, Row([n \in 1 .. k |-> n - 1]))
  /\ search' = NoSearch
  /\ UNCHANGED <<max_size_, num_steps_, track_gold_>>

(* The state that source becomes by an action, in slot i of the next beam. *)
Advanced(source, action, score, gold, i) ==
  State(Append(source.path, action), source.parent_beam_index_, score, gold,
        source.seeded, Append(source.slots, i))

(* Whether the action keeps a gold state gold.  Mutant: any action does. *)
GoldAfterAny(source, action) == track_gold_ /\ source.is_gold_
GoldAfter(source, action) ==
  track_gold_ /\ source.is_gold_ /\ action \in Range(Oracle(source.path))

(* FastAdvanceFromPrediction: the first best-scored allowed action, in place; *)
(* fails on a NaN and when no allowed action scores above minus infinity.     *)
FastAdvanceFromPrediction(matrix) ==
  LET source == beam_[1]
      Better(a) == /\ IsAllowed(source.path, a)
                   /\ Less(NegInfinity, matrix[<<0, a>>])
                   /\ \A b \in Actions :
                        IsAllowed(source.path, b) =>
                          /\ ~Less(matrix[<<0, a>>], matrix[<<0, b>>])
                          /\ b < a => Less(matrix[<<0, b>>], matrix[<<0, a>>])
  IN  IF \/ \E a \in Actions : matrix[<<0, a>>] = NaN
         \/ \A a \in Actions : ~Better(a)
      THEN UNCHANGED <<beam_, beam_index_history_, num_steps_, search>>
      ELSE LET best == CHOOSE a \in Actions : Better(a)
           IN  /\ beam_' = <<Advanced(source, best,
                                      Plus(source.score_, matrix[<<0, best>>]),
                                      GoldAfter(source, best), 0)>>
               /\ num_steps_' = num_steps_ + 1
               /\ UNCHANGED <<beam_index_history_, search>>

(* The candidates multimap, best first.  emplace puts a new one behind those  *)
(* with an equal score; when the map is full the last one makes room, unless   *)
(* the new one scores lower.                                                  *)
Emplace(kept, c) ==
  LET before == Max({0} \cup {n \in 1 .. Len(kept) : ~Less(kept[n].score, c.score)})
  IN  SubSeq(kept, 1, before) \o <<c>> \o SubSeq(kept, before + 1, Len(kept))

(* Mutant: the new candidate is compared with the best one. *)
ConsiderAgainstBest(kept, c) ==
  IF Len(kept) < max_size_ THEN Emplace(kept, c)
  ELSE IF Less(c.score, kept[1].score) THEN kept
  ELSE Emplace(SubSeq(kept, 1, Len(kept) - 1), c)

Consider(kept, c) ==
  IF Len(kept) < max_size_ THEN Emplace(kept, c)
  ELSE IF Less(c.score, kept[Len(kept)].score) THEN kept
  ELSE Emplace(SubSeq(kept, 1, Len(kept) - 1), c)

(* BeamAdvanceFromPrediction: all allowed actions of all states, beam by beam, *)
(* compete for the max_size_ slots; fails on a NaN.  Pass n of the two loops    *)
(* looks at one transition.                                                  *)
Passes == Len(beam_) * NumActions
Transition(matrix, n) ==
  LET b == (n - 1) \div NumActions
      a == (n - 1) % NumActions
  IN  [source_idx |-> b, action |-> a, score |-> Plus(At(beam_, b).score_, matrix[<<b, a>>])]
Allowed(matrix) ==
  {n \in 1 .. Passes : LET t == Transition(matrix, n)
                       IN  IsAllowed(At(beam_, t.source_idx).path, t.action)}
Top(matrix) ==
  LET allowed == Allowed(matrix)
      candidates[n \in 0 .. Passes] ==
        IF n = 0 THEN <<>>
        ELSE LET kept == candidates[n - 1]
                 t == Transition(matrix, n)
             IN  IF n \in allowed THEN Consider(kept, t) ELSE kept
  IN  candidates[Passes]

BeamAdvanceFromPrediction(matrix) ==
  LET allowed == Allowed(matrix)
      top == Top(matrix)
      New(i) == LET t == At(top, i)
                    source == At(beam_, t.source_idx)
                IN  Advanced(source, t.action, t.score, GoldAfter(source, t.action), i)
  IN  IF \E n \in allowed : Transition(matrix, n).score = NaN
      THEN UNCHANGED <<beam_, beam_index_history_, num_steps_, search>>
      ELSE /\ beam_' = [n \in 1 .. Len(top) |-> New(n - 1)]
           /\ beam_index_history_' =
                Append(beam_index_history_, Row([n \in 1 .. Len(top) |-> top[n].source_idx]))
           /\ num_steps_' = num_steps_ + 1
           /\ search' = [candidates |-> Cardinality(allowed),
                         rejected |-> {Transition(matrix, n).score :
                                         n \in {m \in allowed :
                                                  Transition(matrix, m) \notin Range(top)}}]

(* AdvanceFromPrediction, which a component calls on a beam that is not       *)
(* terminal.                                                                 *)
AdvanceFromPrediction ==
  /\ num_steps_ < MaxSteps
  /\ ~IsTerminal
  /\ \E matrix \in [Slots \X Actions -> Entries] :
       IF max_size_ = 1 THEN FastAdvanceFromPrediction(matrix)
                        ELSE BeamAdvanceFromPrediction(matrix)
  /\ UNCHANGED <<max_size_, track_gold_>>

(* AdvanceFromOracle, which a component also calls on a terminal beam: every  *)
(* state that is not final takes the oracle's first action, in its slot.      *)
OracleStates ==
  [n \in 1 .. Len(beam_) |->
     LET s == beam_[n]
     IN  IF IsFinal(s.path) THEN [s EXCEPT !.slots = Append(@, n - 1)]
         ELSE Advanced(s, Head(Oracle(s.path)), 0, s.is_gold_, n - 1)]

(* Mutant: the history is only kept when beam search is used. *)
AdvanceFromOracleWithoutHistory ==
  /\ num_steps_ < MaxSteps
  /\ beam_index_history_ # <<>>
  /\ beam_' = OracleStates
  /\ num_steps_' = num_steps_ + 1
  /\ search' = NoSearch
  /\ UNCHANGED <<max_size_, track_gold_, beam_index_history_>>

AdvanceFromOracle ==
  /\ num_steps_ < MaxSteps
  /\ beam_index_history_ # <<>>
  /\ beam_' = OracleStates
  /\ beam_index_history_' =
       IF max_size_ > 1
       THEN Append(beam_index_history_, Row([n \in 1 .. Len(beam_) |-> n - 1]))
       ELSE beam_index_history_
  /\ num_steps_' = num_steps_ + 1
  /\ search' = NoSearch
  /\ UNCHANGED <<max_size_, track_gold_>>

(* Reset and SetMaxSize. *)
Clear ==
  /\ beam_' = <<>>
  /\ beam_index_history_' = <<>>
  /\ num_steps_' = 0
  /\ search' = NoSearch

Reset == Clear /\ UNCHANGED <<max_size_, track_gold_>>
SetMaxSize == Clear /\ max_size_' \in MaxSizes /\ UNCHANGED track_gold_

Next == InitBeam \/ AdvanceFromPrediction \/ AdvanceFromOracle \/ Reset \/ SetMaxSize

Spec == Init /\ [][Next]_vars

-----------------------------------------------------------------------------
(* FindPreviousIndex(current_index, step): walks the rows of the history from *)
(* the last one down to row step; -2 stands for a failed CHECK.               *)
Walk(index, step) ==
  LET rows == Len(beam_index_history_)
      walk[i \in step .. rows] ==
        IF i = rows THEN index ELSE At(At(beam_index_history_, i), walk[i + 1])
  IN  walk[step]

FindPreviousIndex(current_index, step) ==
  IF max_size_ > 1 /\ num_steps_ # Len(beam_index_history_) - 1 THEN -2
  ELSE IF \/ step \notin 0 .. num_steps_
          \/ current_index \notin 0 .. max_size_ - 1
          \/ max_size_ > 1 /\ At(beam_index_history_[Len(beam_index_history_)], current_index) = -1
  THEN -1
  ELSE IF max_size_ = 1 THEN 0
  ELSE IF Walk(current_index, step) < 0 THEN -2
  ELSE Walk(current_index, step)

-----------------------------------------------------------------------------

(* However predictions, failed predictions and oracle steps are mixed, the    *)
(* history that FindPreviousIndex reads still records the true lineage of     *)
(* every state: step 0 gives the slot of the parent in the seeding component,  *)
(* a later step the slot that step's source had, a slot without a state -1,   *)
(* and neither CHECK of FindPreviousIndex fails.  This is the "item's parent    *)
(* at beam step" of beam.h:156.  component.h:70-71 says of GetBeamIndexAtStep,   *)
(* which forwards here, that it gives the item's own slot when the beam was at    *)
(* that step, slots[step]: one step later than the code and this property.      *)
LineageFound ==
  beam_index_history_ # <<>> =>
    \A i \in 0 .. max_size_ - 1, step \in 0 .. num_steps_ :
      FindPreviousIndex(i, step) =
        IF i \notin Slots THEN -1
        ELSE IF step = 0 THEN At(beam_, i).parent_beam_index_
        ELSE At(At(beam_, i).slots, step - 1)

(* After a beam search the beam is sorted, it is full unless there were fewer *)
(* candidates than slots (so that scores of NaN or minus infinity never empty  *)
(* it), and no rejected candidate scored above the last state that was kept.  *)
KeepsTheBest ==
  search # NoSearch =>
    /\ Len(beam_) = IF search.candidates < max_size_ THEN search.candidates ELSE max_size_
    /\ \A n \in 2 .. Len(beam_) : ~Less(beam_[n - 1].score_, beam_[n].score_)
    /\ \A score \in search.rejected : ~Less(beam_[Len(beam_)].score_, score)

(* The gold flag is exact: a state carries it just when it was seeded gold and *)
(* every action on its path, predicted or not, is one the oracle allows.      *)
GoldExact ==
  \A s \in Range(beam_) :
    s.is_gold_ <=> /\ s.seeded
                   /\ \A n \in DOMAIN s.path :
                        s.path[n] \in Range(Oracle(SubSeq(s.path, 1, n - 1)))

=============================================================================
