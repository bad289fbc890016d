----------------------------- MODULE BeamProofs ------------------------------
(***************************************************************************)
(* For any transition system, number of actions, beam size and sequence of     *)
(* predictions, failed predictions and oracle steps: the history leads          *)
(* FindPreviousIndex to the true ancestors, the gold flags are exact, and a      *)
(* beam search keeps the best candidates.                                     *)
(***************************************************************************)
EXTENDS Beam, DataLemmas, FiniteSetTheorems

Score == Int \cup {NegInfinity}
Index == 0 .. max_size_ - 1

(* What a state of the beam that has taken the given number of steps looks like. *)
StateType(s) ==
  /\ s \in [path : Seq(Actions), parent_beam_index_ : Index, score_ : Score,
            is_gold_ : BOOLEAN, seeded : BOOLEAN, slots : Seq(Index)]
  /\ Len(s.path) <= num_steps_
  /\ Len(s.slots) = num_steps_ + 1

Types ==
  /\ max_size_ \in Nat \ {0}
  /\ track_gold_ \in BOOLEAN
  /\ num_steps_ \in Nat
  /\ Len(beam_) \in Nat /\ DOMAIN beam_ = 1 .. Len(beam_) /\ Len(beam_) <= max_size_
  /\ \A n \in 1 .. Len(beam_) : StateType(beam_[n])
  /\ beam_index_history_ \in Seq([1 .. max_size_ -> Int])

(* The history has a row per step, and none before Init. *)
HistoryFits ==
  /\ beam_index_history_ = <<>> => beam_ = <<>> /\ num_steps_ = 0
  /\ beam_index_history_ # <<>> =>
       IF max_size_ = 1 THEN Len(beam_) = 1 ELSE Len(beam_index_history_) = num_steps_ + 1

(* Every row leads from the slot a lineage had after a step to the one before. *)
Linked(s) ==
  /\ At(beam_index_history_[1], s.slots[1]) = s.parent_beam_index_
  /\ \A k \in 1 .. num_steps_ : At(beam_index_history_[k + 1], s.slots[k + 1]) = s.slots[k]
LineageFits ==
  /\ \A n \in 1 .. Len(beam_) : beam_[n].slots[num_steps_ + 1] = n - 1
  /\ max_size_ > 1 => \A n \in 1 .. Len(beam_) : Linked(beam_[n])
  /\ max_size_ > 1 /\ beam_index_history_ # <<>> =>
       \A n \in Len(beam_) + 1 .. max_size_ : beam_index_history_[num_steps_ + 1][n] = -1

(* The gold flags. *)
OnOracle(path) ==
  \A n \in DOMAIN path : path[n] \in Range(Oracle(SubSeq(path, 1, n - 1)))
GoldFits ==
  \A n \in 1 .. Len(beam_) :
    /\ beam_[n].seeded => track_gold_
    /\ beam_[n].is_gold_ <=> beam_[n].seeded /\ OnOracle(beam_[n].path)

IndInv ==
  /\ Types /\ HistoryFits /\ LineageFits /\ GoldFits
  /\ num_steps_ <= MaxSteps
  /\ max_size_ = 1 => search = NoSearch
  /\ KeepsTheBest
-----------------------------------------------------------------------------
(* The order on the scores, in which minus infinity is below every integer. *)
LEMMA LessOrder ==
  ASSUME NEW a \in Score, NEW b \in Score, NEW c \in Score
  PROVE  /\ ~Less(a, a)
         /\ Less(a, b) => ~Less(b, a)
         /\ ~Less(a, b) /\ ~Less(b, c) => ~Less(a, c)
BY EntriesAssumption DEF Less, Score

(* Adding a score of the matrix to one of the beam gives a score, or NaN. *)
LEMMA PlusType ==
  ASSUME NEW a \in Score, NEW b \in Entries, Plus(a, b) # NaN
  PROVE  Plus(a, b) \in Score
BY EntriesAssumption DEF Plus, Score

(* A candidate, and a list of candidates from the best to the worst. *)
Candidate == [source_idx : Slots, action : Actions, score : Score]
Sorted(kept) ==
  \A i, j \in 1 .. Len(kept) : i <= j => ~Less(kept[i].score, kept[j].score)

(* Where emplace puts a new candidate: behind all that do not score lower. *)
LEMMA EmplacePlace ==
  ASSUME NEW kept \in Seq(Candidate), NEW c \in Candidate
  PROVE  LET places == {n \in 1 .. Len(kept) : ~Less(kept[n].score, c.score)}
             before == Max({0} \cup places)
         IN  /\ before \in 0 .. Len(kept)
             /\ before # 0 => before \in places
             /\ \A n \in places : n <= before
<1> DEFINE places == {n \in 1 .. Len(kept) : ~Less(kept[n].score, c.score)}
           all == {0} \cup places
           before == Max(all)
<1>1. Len(kept) \in Nat
  BY LenProperties
<1>2. all \subseteq 0 .. Len(kept) /\ all # {}
  BY <1>1
<1> HIDE DEF places
<1>3. \E x \in all : \A y \in all : x >= y
  <2> HIDE DEF all
  <2> QED
    BY <1>1, <1>2, GreatestElement, Zenon
<1>4. before \in all /\ \A y \in all : before >= y
  BY <1>3, Zenon DEF Max
<1>5. \A n \in places : n \in Int
  BY <1>2
<1>6. before \in 0 .. Len(kept)
  BY <1>2, <1>4
<1> HIDE DEF before
<1>7. before # 0 => before \in places
  BY <1>4
<1>8. \A n \in places : n <= before
  BY <1>4, <1>5, <1>6, <1>1
<1> QED
  BY <1>6, <1>7, <1>8 DEF before, all, places

(* What emplace does to the list. *)
LEMMA EmplaceFacts ==
  ASSUME NEW kept \in Seq(Candidate), NEW c \in Candidate
  PROVE  /\ Emplace(kept, c) \in Seq(Candidate)
         /\ Len(Emplace(kept, c)) = Len(kept) + 1
         /\ \A x : x \in Range(Emplace(kept, c)) <=> x \in Range(kept) \/ x = c
         /\ Sorted(kept) => Sorted(Emplace(kept, c))
<1> DEFINE places == {n \in 1 .. Len(kept) : ~Less(kept[n].score, c.score)}
           b == Max({0} \cup places)
           r == Emplace(kept, c)
<1>1. /\ b \in 0 .. Len(kept)
      /\ b # 0 => b \in places
      /\ \A n \in places : n <= b
  BY EmplacePlace, Zenon
<1>2. r = SubSeq(kept, 1, b) \o <<c>> \o SubSeq(kept, b + 1, Len(kept))
  BY DEF Emplace
<1> HIDE DEF b, r
<1>3. /\ r \in Seq(Candidate)
      /\ Len(r) = Len(kept) + 1
      /\ \A n \in 1 .. b : r[n] = kept[n]
      /\ r[b + 1] = c
      /\ \A n \in b + 2 .. Len(kept) + 1 : r[n] = kept[n - 1]
  <2>1. r \in Seq(Candidate) /\ IsInsertion(r, kept, b, c)
    BY <1>1, <1>2, Inserted, Zenon
  <2> QED
    BY <2>1 DEF IsInsertion
<1>4. Len(kept) \in Nat /\ DOMAIN kept = 1 .. Len(kept) /\ DOMAIN r = 1 .. Len(kept) + 1
  BY <1>3, LenProperties
<1>5. \A x : x \in Range(r) <=> x \in Range(kept) \/ x = c
  <2>1. ASSUME NEW n \in 1 .. Len(kept) + 1
        PROVE  r[n] \in Range(kept) \/ r[n] = c
    <3>1. \/ r[n] = c
          \/ r[n] = kept[n] /\ n \in DOMAIN kept
          \/ r[n] = kept[n - 1] /\ n - 1 \in DOMAIN kept
      BY <1>1, <1>3, <1>4
    <3> QED
      BY <3>1 DEF Range
  <2>2. ASSUME NEW n \in 1 .. Len(kept)
        PROVE  kept[n] \in Range(r)
    <3>1. CASE n <= b
      <4>1. r[n] = kept[n] /\ n \in DOMAIN r
        BY <3>1, <1>3, <1>4
      <4> QED
        BY <4>1 DEF Range
    <3>2. CASE ~(n <= b)
      <4>1. r[n + 1] = kept[n] /\ n + 1 \in DOMAIN r
        BY <3>2, <1>1, <1>3, <1>4
      <4> QED
        BY <4>1 DEF Range
    <3> QED
      BY <3>1, <3>2
  <2>3. c \in Range(r)
    <3>1. r[b + 1] = c /\ b + 1 \in DOMAIN r
      BY <1>1, <1>3, <1>4
    <3> QED
      BY <3>1 DEF Range
  <2> QED
    BY <2>1, <2>2, <2>3, <1>4 DEF Range
<1>6. ASSUME Sorted(kept)
      PROVE  Sorted(r)
  <2> SUFFICES ASSUME NEW i \in 1 .. Len(kept) + 1, NEW j \in 1 .. Len(kept) + 1, i <= j
               PROVE  ~Less(r[i].score, r[j].score)
    BY <1>3 DEF Sorted
  <2>1. \A n \in 1 .. Len(kept) : kept[n].score \in Score
    <3>1. \A n \in 1 .. Len(kept) : kept[n] \in Candidate
      BY ElementOfSeq
    <3> QED
      BY <3>1 DEF Candidate
  <2>2. \A n \in 1 .. Len(kept) : n <= b => ~Less(kept[n].score, c.score)
    <3> TAKE n \in 1 .. Len(kept)
    <3> HAVE n <= b
    <3>1. b \in 1 .. Len(kept) /\ ~Less(kept[b].score, c.score)
      BY <1>1, <1>4
    <3>2. ~Less(kept[n].score, kept[b].score)
      BY <1>6, <3>1 DEF Sorted
    <3> QED
      BY <3>1, <3>2, <2>1, LessOrder DEF Candidate
  <2>3. \A n \in 1 .. Len(kept) : n > b => ~Less(c.score, kept[n].score)
    <3> TAKE n \in 1 .. Len(kept)
    <3> HAVE n > b
    <3>1. Less(kept[n].score, c.score)
      BY <1>1, <1>4
    <3> QED
      BY <3>1, <2>1, LessOrder DEF Candidate
  <2>4. CASE i = b + 1
    <3>1. CASE j = b + 1
      BY <2>4, <3>1, <1>1, <1>3, <1>4, LessOrder DEF Candidate
    <3>2. CASE j # b + 1
      <4>1. r[i] = c
        BY <2>4, <1>1, <1>3, <1>4
      <4>2. r[j] = kept[j - 1] /\ j - 1 \in 1 .. Len(kept) /\ j - 1 > b
        BY <2>4, <3>2, <1>1, <1>3, <1>4
      <4> QED
        BY <4>1, <4>2, <2>3
    <3> QED
      BY <3>1, <3>2
  <2>5. CASE j = b + 1 /\ i # j
    <3>1. r[j] = c /\ r[i] = kept[i] /\ i \in 1 .. Len(kept) /\ i <= b
      BY <2>5, <1>1, <1>3, <1>4
    <3> QED
      BY <3>1, <2>2
  <2>6. CASE i # b + 1 /\ j # b + 1
    <3> DEFINE p == IF i <= b THEN i ELSE i - 1
               q == IF j <= b THEN j ELSE j - 1
    <3>1. r[i] = kept[p] /\ r[j] = kept[q] /\ p \in 1 .. Len(kept) /\ q \in 1 .. Len(kept) /\ p <= q
      BY <2>6, <1>1, <1>3, <1>4
    <3> HIDE DEF p, q
    <3> QED
      BY <3>1, <1>6 DEF Sorted
  <2> QED
    BY <2>4, <2>5, <2>6
<1> QED
  BY <1>3, <1>5, <1>6 DEF r
(* The list still holds a candidate, or it is full and none of it scores lower. *)
KeptOrBeaten(kept, x) ==
  \/ x \in Range(kept)
  \/ Len(kept) = max_size_ /\ ~Less(kept[max_size_].score, x.score)

(* The list without its last candidate. *)
LEMMA DropLast ==
  ASSUME NEW kept \in Seq(Candidate), Len(kept) > 0
  PROVE  LET front == SubSeq(kept, 1, Len(kept) - 1)
         IN  /\ front \in Seq(Candidate)
             /\ Len(front) = Len(kept) - 1
             /\ Range(kept) = Range(front) \cup {kept[Len(kept)]}
             /\ Sorted(kept) => Sorted(front)
<1> DEFINE front == SubSeq(kept, 1, Len(kept) - 1)
<1>0. DOMAIN kept = 1 .. Len(kept)
  BY LenProperties
<1>1. Len(kept) \in Nat
  BY LenProperties
<1>2. /\ front \in Seq(Candidate) /\ Len(front) = Len(kept) - 1
      /\ \A i \in 1 .. Len(kept) - 1 : front[i] = kept[i]
  BY <1>0, <1>1, SubSeqProperties
<1> HIDE DEF front
<1>3. DOMAIN front = 1 .. Len(kept) - 1
  BY <1>2, LenProperties, SMTT(60)
<1>4. Range(kept) = Range(front) \cup {kept[Len(kept)]}
  <2>1. ASSUME NEW i \in 1 .. Len(kept)
        PROVE  i \in 1 .. Len(kept) - 1 \/ i = Len(kept)
    BY <1>1
  <2>2. 1 .. Len(kept) - 1 \subseteq 1 .. Len(kept) /\ Len(kept) \in 1 .. Len(kept)
    BY <1>1
  <2> QED
    BY <1>0, <1>1, <1>2, <1>3, <2>1, <2>2, Zenon DEF Range
<1>5. Sorted(kept) => Sorted(front)
  BY <1>1, <1>2, SMTT(60) DEF Sorted
<1> QED
  BY <1>2, <1>4, <1>5 DEF front

(* What looking at one more candidate does to the list: it stays sorted, it   *)
(* grows until it is full, and a candidate that was dropped, before or now,     *)
(* does not score above the last one.                                         *)
LEMMA ConsiderFacts ==
  ASSUME max_size_ \in Nat \ {0}, NEW kept \in Seq(Candidate), NEW c \in Candidate
  PROVE  /\ Consider(kept, c) \in Seq(Candidate)
         /\ Sorted(kept) /\ Len(kept) <= max_size_ =>
              /\ Sorted(Consider(kept, c))
              /\ Len(Consider(kept, c)) = IF Len(kept) < max_size_ THEN Len(kept) + 1 ELSE max_size_
              /\ KeptOrBeaten(Consider(kept, c), c)
              /\ \A x \in Candidate : KeptOrBeaten(kept, x) => KeptOrBeaten(Consider(kept, c), x)
<1> DEFINE front == SubSeq(kept, 1, Len(kept) - 1)
           last == kept[Len(kept)]
           r == Consider(kept, c)
<1>0. DOMAIN kept = 1 .. Len(kept)
  BY LenProperties
<1>1. Len(kept) \in Nat
  BY LenProperties
<1>2. CASE Len(kept) < max_size_
  <2>1. r = Emplace(kept, c)
    BY <1>2 DEF Consider
  <2> HIDE DEF r
  <2>2. /\ r \in Seq(Candidate)
        /\ Len(r) = Len(kept) + 1
        /\ \A x : x \in Range(r) <=> x \in Range(kept) \/ x = c
        /\ Sorted(kept) => Sorted(r)
    BY <2>1, EmplaceFacts, Zenon
  <2>3. KeptOrBeaten(r, c) /\ \A x \in Candidate : KeptOrBeaten(kept, x) => KeptOrBeaten(r, x)
    <3>1. Len(kept) # max_size_
      BY <1>1, <1>2
    <3> QED
      BY <2>2, <3>1, Zenon DEF KeptOrBeaten
  <2> QED
    BY <1>2, <2>2, <2>3 DEF r
<1>3. CASE ~(Len(kept) < max_size_) /\ Less(c.score, last.score)
  <2>1. r = kept
    BY <1>3 DEF Consider
  <2>2. ASSUME Len(kept) <= max_size_
        PROVE  KeptOrBeaten(kept, c) /\ Len(kept) = max_size_
    <3>0. Len(kept) = max_size_ /\ Len(kept) \in 1 .. Len(kept)
      BY <1>1, <1>3, <2>2
    <3>1. Len(kept) = max_size_ /\ last \in Candidate
      BY <3>0, ElementOfSeq, Zenon
    <3>2. ~Less(last.score, c.score)
      BY <1>3, <3>1, LessOrder DEF Candidate
    <3> QED
      BY <3>1, <3>2 DEF KeptOrBeaten
  <2> HIDE DEF r
  <2> QED
    BY <1>1, <1>3, <2>1, <2>2 DEF r
<1>4. CASE ~(Len(kept) < max_size_) /\ ~Less(c.score, last.score)
  <2>1. r = Emplace(front, c) /\ Len(kept) > 0
    BY <1>1, <1>4 DEF Consider
  <2>2. /\ front \in Seq(Candidate)
        /\ Len(front) = Len(kept) - 1
        /\ Range(kept) = Range(front) \cup {last}
        /\ Sorted(kept) => Sorted(front)
    BY <2>1, DropLast
  <2> HIDE DEF r, front
  <2>3. /\ r \in Seq(Candidate)
        /\ Len(r) = Len(front) + 1
        /\ \A x : x \in Range(r) <=> x \in Range(front) \/ x = c
        /\ Sorted(front) => Sorted(r)
    BY <2>1, <2>2, EmplaceFacts, Zenon
  <2>4. ASSUME Sorted(kept), Len(kept) <= max_size_
        PROVE  /\ Len(kept) = max_size_ /\ Len(r) = max_size_
               /\ KeptOrBeaten(r, c)
               /\ \A x \in Candidate : KeptOrBeaten(kept, x) => KeptOrBeaten(r, x)
    <3>1. Len(kept) = max_size_ /\ Len(r) = max_size_ /\ max_size_ \in 1 .. Len(kept)
      <4>1. Len(kept) = max_size_
        BY <1>1, <1>4, <2>4
      <4> QED
        BY <1>1, <2>2, <2>3, <4>1
    <3>2. last \in Candidate /\ last.score \in Score /\ c.score \in Score
      <4>1. last \in Candidate
        BY <3>1, ElementOfSeq, Zenon
      <4> QED
        BY <4>1 DEF Candidate
    <3>3. \A x \in Range(kept) : ~Less(x.score, last.score)
      BY <1>0, <1>1, <2>4, <3>1 DEF Sorted, Range
    <3>4. r[max_size_] \in Range(r) /\ r[max_size_] \in Candidate
      BY <2>3, <3>1, LenProperties, ElementOfSeq DEF Range
    <3>5. ~Less(r[max_size_].score, last.score)
      BY <1>4, <2>2, <2>3, <3>3, <3>4
    <3>6. r[max_size_].score \in Score
      BY <3>4 DEF Candidate
    <3>7. ASSUME NEW x \in Candidate, KeptOrBeaten(kept, x)
          PROVE  KeptOrBeaten(r, x)
      <4>1. CASE x \in Range(front)
        BY <4>1, <2>3 DEF KeptOrBeaten
      <4>2. CASE x = last
        BY <4>2, <3>1, <3>5 DEF KeptOrBeaten
      <4>3. CASE ~Less(last.score, x.score)
        <5>1. x.score \in Score
          BY DEF Candidate
        <5>2. ~Less(r[max_size_].score, x.score)
          BY <3>2, <3>5, <3>6, <4>3, <5>1, LessOrder
        <5> QED
          BY <3>1, <5>2 DEF KeptOrBeaten
      <4> QED
        BY <3>7, <4>1, <4>2, <4>3, <2>2, <3>1, SMTT(60) DEF KeptOrBeaten
    <3> QED
      BY <2>3, <3>1, <3>7 DEF KeptOrBeaten
  <2> QED
    BY <1>4, <2>2, <2>3, <2>4 DEF r
<1> QED
  BY <1>2, <1>3, <1>4
(* A row and a column of the matrix from a place in it. *)
LEMMA RowAndColumn ==
  ASSUME NEW L \in Nat, NEW N \in Nat \ {0}, NEW m \in 0 .. L * N - 1
  PROVE  m \div N \in 0 .. L - 1 /\ m % N \in 0 .. N - 1
<1> DEFINE q == m \div N
           rest == m % N
<1>1. L * N \in Nat /\ m \in Nat
  OBVIOUS
<1>2. q \in Int /\ rest \in 0 .. N - 1 /\ m = N * q + rest
  BY <1>1
<1> HIDE DEF q, rest
<1>3. q >= 0
  <2> SUFFICES ASSUME q <= -1
               PROVE  FALSE
    BY <1>2
  <2>1. N * q <= N * (-1)
    BY <1>2
  <2> QED
    BY <1>1, <1>2, <2>1
<1>4. q <= L - 1
  <2> SUFFICES ASSUME q >= L
               PROVE  FALSE
    BY <1>2
  <2>1. N * q >= N * L
    BY <1>2
  <2> QED
    BY <1>1, <1>2, <2>1
<1> QED
  BY <1>2, <1>3, <1>4 DEF q, rest

(* What a pass of the loops looks at. *)
LEMMA TransitionFacts ==
  ASSUME Types, NEW matrix \in [Slots \X Actions -> Entries], NEW n \in 1 .. Passes
  PROVE  /\ Transition(matrix, n).source_idx \in Slots
         /\ Transition(matrix, n).action \in Actions
         /\ Transition(matrix, n).score # NaN => Transition(matrix, n) \in Candidate
<1> DEFINE b == (n - 1) \div NumActions
           a == (n - 1) % NumActions
           s == Plus(At(beam_, b).score_, matrix[<<b, a>>])
           L == Len(beam_)
<1>1. L \in Nat /\ NumActions \in Nat \ {0} /\ L * NumActions \in Nat
  BY NumActionsAssumption DEF Types
<1>2. n - 1 \in 0 .. L * NumActions - 1
  BY <1>1 DEF Passes
<1>3. b \in 0 .. L - 1 /\ a \in 0 .. NumActions - 1
  <2> HIDE DEF L
  <2> QED
    BY <1>1, <1>2, RowAndColumn, Zenon
<1>4. Transition(matrix, n) = [source_idx |-> b, action |-> a, score |-> s]
  BY DEF Transition
<1> HIDE DEF b, a
<1>5. b \in Slots /\ a \in Actions
  BY <1>3 DEF Slots, Actions
<1>6. matrix[<<b, a>>] \in Entries
  BY <1>5
<1>7. At(beam_, b).score_ \in Score
  BY <1>1, <1>3 DEF At, Types, StateType
<1>8. s # NaN => s \in Score
  BY <1>6, <1>7, PlusType
<1> HIDE DEF s
<1> QED
  BY <1>4, <1>5, <1>8 DEF Candidate
(* The list after the first n passes: sorted, full unless fewer transitions    *)
(* were allowed, and none of those that are not in it scores above its last.   *)
Searched(kept, matrix, n) ==
  LET seen == Allowed(matrix) \cap 1 .. n
  IN  /\ kept \in Seq(Candidate)
      /\ Sorted(kept)
      /\ IsFiniteSet(seen)
      /\ Len(kept) = IF Cardinality(seen) < max_size_ THEN Cardinality(seen) ELSE max_size_
      /\ \A m \in seen : KeptOrBeaten(kept, Transition(matrix, m))

(* Pass n of the loops. *)
Pass(kept, matrix, n) ==
  IF n \in Allowed(matrix) THEN Consider(kept, Transition(matrix, n)) ELSE kept

LEMMA SearchStarts ==
  ASSUME Types, NEW matrix
  PROVE  Searched(<<>>, matrix, 0)
<1>1. Allowed(matrix) \cap 1 .. 0 = {}
  OBVIOUS
<1>2. IsFiniteSet({}) /\ Cardinality({}) = 0
  BY FS_EmptySet
<1>3. <<>> \in Seq(Candidate) /\ Len(<<>>) = 0 /\ Sorted(<<>>)
  BY DEF Sorted
<1>4. max_size_ \in Nat \ {0}
  BY DEF Types
<1> QED
  BY <1>1, <1>2, <1>3, <1>4 DEF Searched

LEMMA SearchGoesOn ==
  ASSUME Types, NEW matrix \in [Slots \X Actions -> Entries],
         \A m \in Allowed(matrix) : Transition(matrix, m).score # NaN,
         NEW n \in 1 .. Passes, NEW kept, Searched(kept, matrix, n - 1)
  PROVE  Searched(Pass(kept, matrix, n), matrix, n)
<1> DEFINE old == Allowed(matrix) \cap 1 .. n - 1
           seen == Allowed(matrix) \cap 1 .. n
           t == Transition(matrix, n)
           r == Pass(kept, matrix, n)
<1>0. Passes \in Nat /\ Allowed(matrix) \subseteq 1 .. Passes
  BY NumActionsAssumption DEF Types, Passes, Allowed
<1>1. /\ kept \in Seq(Candidate) /\ Sorted(kept) /\ IsFiniteSet(old)
      /\ Len(kept) = IF Cardinality(old) < max_size_ THEN Cardinality(old) ELSE max_size_
      /\ \A m \in old : KeptOrBeaten(kept, Transition(matrix, m))
  BY DEF Searched
<1>2. Cardinality(old) \in Nat /\ max_size_ \in Nat \ {0}
  BY <1>1, FS_CardinalityType DEF Types
<1>3. CASE n \notin Allowed(matrix)
  <2>1. seen = old
    BY <1>0, <1>3
  <2>2. r = kept
    BY <1>3 DEF Pass
  <2> QED
    BY <2>1, <2>2, <1>1, Zenon DEF Searched
<1>4. CASE n \in Allowed(matrix)
  <2>1. r = Consider(kept, t)
    BY <1>4 DEF Pass
  <2>2. seen = old \cup {n} /\ n \notin old
    BY <1>0, <1>4
  <2>3. t \in Candidate /\ \A m \in seen : Transition(matrix, m) \in Candidate
    BY <1>0, <1>4, TransitionFacts, Zenon
  <2> HIDE DEF old, seen, r, t
  <2>4. IsFiniteSet(seen) /\ Cardinality(seen) = Cardinality(old) + 1
    BY <1>1, <2>2, FS_AddElement
  <2>5. Len(kept) <= max_size_
    BY <1>1, <1>2
  <2>6. /\ r \in Seq(Candidate) /\ Sorted(r)
        /\ Len(r) = IF Len(kept) < max_size_ THEN Len(kept) + 1 ELSE max_size_
        /\ KeptOrBeaten(r, t)
        /\ \A x \in Candidate : KeptOrBeaten(kept, x) => KeptOrBeaten(r, x)
    BY <1>1, <1>2, <2>1, <2>3, <2>5, ConsiderFacts, Zenon
  <2>7. Len(r) = IF Cardinality(seen) < max_size_ THEN Cardinality(seen) ELSE max_size_
    BY <1>1, <1>2, <2>4, <2>6
  <2>8. ASSUME NEW m \in seen
        PROVE  KeptOrBeaten(r, Transition(matrix, m))
    BY <1>1, <2>2, <2>3, <2>6, Zenon DEF t
  <2> QED
    BY <2>4, <2>6, <2>7, <2>8 DEF Searched, seen, r
<1> QED
  BY <1>3, <1>4
(* What the two loops of BeamAdvanceFromPrediction leave in candidates. *)
LEMMA TopSearched ==
  ASSUME Types, NEW matrix \in [Slots \X Actions -> Entries],
         \A m \in Allowed(matrix) : Transition(matrix, m).score # NaN
  PROVE  Searched(Top(matrix), matrix, Passes)
<1> DEFINE Loop(g) == [n \in 0 .. Passes |-> IF n = 0 THEN <<>> ELSE Pass(g[n - 1], matrix, n)]
           f == CHOOSE g : g = Loop(g)
           V == Seq(Candidate)
           F == [x \in V \X (1 .. Passes) |-> Pass(x[1], matrix, x[2])]
<1>1. Top(matrix) = f[Passes]
  BY DEF Top, Pass
<1>2. Passes \in Nat /\ max_size_ \in Nat \ {0}
  BY NumActionsAssumption DEF Types, Passes
<1>3. ASSUME NEW kept \in V, NEW n \in 1 .. Passes
      PROVE  Pass(kept, matrix, n) \in V
  <2>1. CASE n \in Allowed(matrix)
    <3>1. Transition(matrix, n) \in Candidate
      BY <2>1, TransitionFacts, Zenon
    <3> QED
      BY <1>2, <2>1, <3>1, ConsiderFacts, Zenon DEF Pass
  <2>2. CASE n \notin Allowed(matrix)
    BY <2>2 DEF Pass
  <2> QED
    BY <2>1, <2>2
<1>4. F \in [V \X (1 .. Passes) -> V]
  BY <1>3
<1>5. <<>> \in V
  OBVIOUS
<1> HIDE DEF V
<1>6. PICK g \in [0 .. Passes -> V] : IsLoop(g, <<>>, Passes, F)
  <2> HIDE DEF F
  <2> QED
    BY <1>2, <1>4, <1>5, LoopExists, Zenon
<1>7. \A k \in 1 .. Passes : g[k] = Pass(g[k - 1], matrix, k)
  <2> TAKE k \in 1 .. Passes
  <2>1. k - 1 \in 0 .. Passes
    BY <1>2
  <2>2. <<g[k - 1], k>> \in V \X (1 .. Passes)
    BY <2>1, <1>6
  <2> QED
    BY <1>6, <2>2, Zenon DEF IsLoop
<1>8. g = Loop(g)
  BY <1>6, <1>7 DEF IsLoop
<1>9. f = Loop(f)
  <2> HIDE DEF Loop
  <2> QED
    BY <1>8
<1> HIDE DEF f
<1>10. f[0] = <<>> /\ \A k \in 1 .. Passes : f[k] = Pass(f[k - 1], matrix, k)
  BY <1>2, <1>9
<1> HIDE DEF Loop
<1> DEFINE T == {n \in Nat : n <= Passes => Searched(f[n], matrix, n)}
<1>11. 0 \in T
  BY <1>10, SearchStarts
<1>12. ASSUME NEW n \in Nat, n \in T
       PROVE  n + 1 \in T
  <2> SUFFICES ASSUME n + 1 <= Passes
               PROVE  Searched(f[n + 1], matrix, n + 1)
    OBVIOUS
  <2> DEFINE k == n + 1
  <2>1. k \in 1 .. Passes /\ k - 1 = n /\ n <= Passes
    BY <1>2
  <2>2. Searched(f[k - 1], matrix, k - 1)
    BY <1>12, <2>1
  <2>3. f[k] = Pass(f[k - 1], matrix, k)
    BY <1>10, <2>1
  <2> HIDE DEF k
  <2>4. Searched(f[k], matrix, k)
    BY <2>1, <2>2, <2>3, SearchGoesOn, Zenon
  <2> QED
    BY <2>4 DEF k
<1>13. Passes \in T
  <2> HIDE DEF T
  <2> QED
    BY <1>2, <1>11, <1>12, SetInduction, Zenon
<1> QED
  BY <1>1, <1>2, <1>13

(* The same, of all allowed transitions. *)
LEMMA TopFacts ==
  ASSUME Types, NEW matrix \in [Slots \X Actions -> Entries],
         \A m \in Allowed(matrix) : Transition(matrix, m).score # NaN
  PROVE  /\ Top(matrix) \in Seq(Candidate)
         /\ Sorted(Top(matrix))
         /\ Cardinality(Allowed(matrix)) \in Nat
         /\ Len(Top(matrix)) = IF Cardinality(Allowed(matrix)) < max_size_
                               THEN Cardinality(Allowed(matrix)) ELSE max_size_
         /\ \A m \in Allowed(matrix) : KeptOrBeaten(Top(matrix), Transition(matrix, m))
<1>1. Allowed(matrix) \cap 1 .. Passes = Allowed(matrix)
  BY DEF Allowed
<1>2. Searched(Top(matrix), matrix, Passes)
  BY TopSearched, Zenon
<1>3. IsFiniteSet(Allowed(matrix)) /\ Cardinality(Allowed(matrix)) \in Nat
  BY <1>1, <1>2, FS_CardinalityType, Zenon DEF Searched
<1> QED
  BY <1>1, <1>2, <1>3, Zenon DEF Searched
-----------------------------------------------------------------------------
(* A path with one more action is one the oracle allows just when the path was *)
(* and the oracle allows the action after it.                                 *)
LEMMA OracleStep ==
  ASSUME NEW path \in Seq(Actions), NEW a \in Actions
  PROVE  OnOracle(Append(path, a)) <=> OnOracle(path) /\ a \in Range(Oracle(path))
<1> DEFINE r == Append(path, a)
           Gold(p, n) == p[n] \in Range(Oracle(SubSeq(p, 1, n - 1)))
           k == Len(path) + 1
<1>1. Len(path) \in Nat
  BY LenProperties
<1>2. /\ r \in Seq(Actions) /\ Len(r) = k
      /\ \A n \in 1 .. Len(path) : r[n] = path[n]
      /\ r[k] = a
  BY Appended
<1>3. \A n \in 0 .. Len(path) : SubSeq(r, 1, n) = SubSeq(path, 1, n)
  BY AppendedPrefix
<1>4. SubSeq(path, 1, Len(path)) = path
  BY SubSeqFull
<1>5. DOMAIN path = 1 .. Len(path) /\ DOMAIN r = 1 .. k
  BY <1>2, LenProperties
<1> HIDE DEF r
<1>6. Gold(r, k) <=> a \in Range(Oracle(path))
  <2>1. k - 1 = Len(path) /\ Len(path) \in 0 .. Len(path)
    BY <1>1
  <2> QED
    BY <1>2, <1>3, <1>4, <2>1, Zenon
<1>7. ASSUME NEW n \in 1 .. Len(path)
      PROVE  Gold(r, n) <=> Gold(path, n)
  <2>1. n - 1 \in 0 .. Len(path)
    BY <1>1
  <2> QED
    BY <1>2, <1>3, <2>1, Zenon
<1>8. 1 .. k = 1 .. Len(path) \cup {k}
  BY <1>1
<1>9. (OnOracle(r) <=> \A n \in 1 .. k : Gold(r, n)) /\ (OnOracle(path) <=> \A n \in 1 .. Len(path) : Gold(path, n))
  BY <1>5 DEF OnOracle
<1> HIDE DEF Gold, k
<1>10. OnOracle(r) <=> OnOracle(path) /\ a \in Range(Oracle(path))
  BY <1>6, <1>7, <1>8, <1>9, Zenon
<1> QED
  BY <1>10 DEF r

(* A state after a step, in slot i, of the state that had slot b before it. *)
Successor(r, b, i) ==
  LET s == beam_[b + 1]
  IN  /\ r \in [path : Seq(Actions), parent_beam_index_ : Index, score_ : Score,
                is_gold_ : BOOLEAN, seeded : BOOLEAN, slots : Seq(Index)]
      /\ Len(r.path) <= num_steps_ + 1
      /\ Len(r.slots) = num_steps_ + 2
      /\ \A k \in 1 .. num_steps_ + 1 : r.slots[k] = s.slots[k]
      /\ r.slots[num_steps_ + 2] = i
      /\ r.parent_beam_index_ = s.parent_beam_index_
      /\ r.seeded = s.seeded
      /\ r.is_gold_ <=> r.seeded /\ OnOracle(r.path)

(* What performing an action on a state gives, when the flag is set right. *)
LEMMA AdvancedSucceeds ==
  ASSUME Types, NEW b \in Slots, NEW a \in Actions, NEW score \in Score, NEW gold \in BOOLEAN,
         NEW i \in Index,
         gold <=> beam_[b + 1].seeded /\ OnOracle(Append(beam_[b + 1].path, a))
  PROVE  Successor(Advanced(beam_[b + 1], a, score, gold, i), b, i)
<1> DEFINE s == beam_[b + 1]
           r == Advanced(s, a, score, gold, i)
<1>1. StateType(s) /\ num_steps_ \in Nat
  BY DEF Types, Slots
<1>2. /\ s.path \in Seq(Actions) /\ Len(s.path) <= num_steps_
      /\ s.slots \in Seq(Index) /\ Len(s.slots) = num_steps_ + 1
      /\ s.parent_beam_index_ \in Index /\ s.seeded \in BOOLEAN
  BY <1>1, Zenon DEF StateType
<1>3. r = [path |-> Append(s.path, a), parent_beam_index_ |-> s.parent_beam_index_, score_ |-> score,
           is_gold_ |-> gold, seeded |-> s.seeded, slots |-> Append(s.slots, i)]
  BY Zenon DEF Advanced, State
<1> HIDE DEF s, r
<1>4. /\ r.path = Append(s.path, a) /\ r.slots = Append(s.slots, i)
      /\ r.parent_beam_index_ = s.parent_beam_index_ /\ r.seeded = s.seeded
      /\ r.is_gold_ = gold
  BY <1>3, Zenon
<1>5. r.path \in Seq(Actions) /\ Len(r.path) <= num_steps_ + 1
  <2>1. r.path \in Seq(Actions) /\ Len(r.path) = Len(s.path) + 1
    BY <1>2, <1>4, Appended, SMTT(60)
  <2> QED
    BY <1>1, <1>2, <2>1, LenProperties
<1>6. /\ r.slots \in Seq(Index) /\ Len(r.slots) = num_steps_ + 2
      /\ \A k \in 1 .. num_steps_ + 1 : r.slots[k] = s.slots[k]
      /\ r.slots[num_steps_ + 2] = i
  <2>1. /\ r.slots \in Seq(Index)
        /\ Len(r.slots) = Len(s.slots) + 1
        /\ \A n \in 1 .. Len(s.slots) : r.slots[n] = s.slots[n]
        /\ r.slots[Len(s.slots) + 1] = i
    BY <1>2, <1>4, Appended
  <2>2. num_steps_ + 1 + 1 = num_steps_ + 2
    BY <1>1
  <2> QED
    BY <1>2, <2>1, <2>2, SMTT(60)
<1>7. r \in [path : Seq(Actions), parent_beam_index_ : Index, score_ : Score,
             is_gold_ : BOOLEAN, seeded : BOOLEAN, slots : Seq(Index)]
  <2>1. Append(s.path, a) \in Seq(Actions) /\ Append(s.slots, i) \in Seq(Index)
    BY <1>4, <1>5, <1>6
  <2> QED
    BY <1>2, <1>3, <2>1, Zenon
<1>8. r.is_gold_ <=> r.seeded /\ OnOracle(r.path)
  BY <1>4 DEF s
<1>9. Successor(r, b, i)
  BY <1>4, <1>5, <1>6, <1>7, <1>8, Zenon DEF Successor, s
<1> QED
  BY <1>9 DEF r, s
(* A row of the history: the sources of the first m slots, -1 behind them. *)
LEMMA RowFacts ==
  ASSUME max_size_ \in Nat, NEW m \in 0 .. max_size_, NEW sources \in [1 .. m -> Int]
  PROVE  /\ Row(sources) \in [1 .. max_size_ -> Int]
         /\ \A n \in 1 .. m : Row(sources)[n] = sources[n]
         /\ \A n \in m + 1 .. max_size_ : Row(sources)[n] = -1
<1>1. Len(sources) = m
  BY TableIsSeq
<1> QED
  BY <1>1 DEF Row

(* The history with one more row, that of the first m slots. *)
HasRow(history, m, sources) ==
  /\ history \in Seq([1 .. max_size_ -> Int])
  /\ Len(history) = num_steps_ + 2
  /\ \A k \in 1 .. num_steps_ + 1 : history[k] = beam_index_history_[k]
  /\ \A n \in 1 .. m : history[num_steps_ + 2][n] = sources[n]
  /\ \A n \in m + 1 .. max_size_ : history[num_steps_ + 2][n] = -1
LEMMA RowAdded ==
  ASSUME Types, Len(beam_index_history_) = num_steps_ + 1,
         NEW m \in 0 .. max_size_, NEW sources \in [1 .. m -> Int], NEW history,
         history = Append(beam_index_history_, Row(sources))
  PROVE  HasRow(history, m, sources)
<1> DEFINE row == Row(sources)
<1>1. max_size_ \in Nat /\ m \in Nat /\ num_steps_ \in Nat
  BY DEF Types
<1>3. /\ row \in [1 .. max_size_ -> Int]
      /\ \A n \in 1 .. m : row[n] = sources[n]
      /\ \A n \in m + 1 .. max_size_ : row[n] = -1
  BY <1>1, RowFacts, Zenon
<1> HIDE DEF row
<1>4. beam_index_history_ \in Seq([1 .. max_size_ -> Int])
  BY DEF Types
<1>5. /\ history \in Seq([1 .. max_size_ -> Int])
      /\ Len(history) = Len(beam_index_history_) + 1
      /\ \A n \in 1 .. Len(beam_index_history_) : history[n] = beam_index_history_[n]
      /\ history[Len(beam_index_history_) + 1] = row
  <2>1. history = Append(beam_index_history_, row)
    BY DEF row
  <2> DEFINE R == [1 .. max_size_ -> Int]
  <2> HIDE DEF R
  <2> QED
    BY <2>1, <1>3, <1>4, Appended DEF R
<1>6. num_steps_ + 1 + 1 = num_steps_ + 2
  BY <1>1
<1> QED
  BY <1>3, <1>5, <1>6 DEF HasRow

(* A step that gives every slot of the next beam the successor of a state of   *)
(* this one, and that records where those were, keeps the invariant.           *)
LEMMA StepKeeps ==
  ASSUME Types, HistoryFits, LineageFits, GoldFits, num_steps_ < MaxSteps,
         beam_index_history_ # <<>>,
         max_size_' = max_size_, track_gold_' = track_gold_, num_steps_' = num_steps_ + 1,
         NEW m \in 0 .. max_size_, NEW sources \in [1 .. m -> Slots],
         Len(beam_') = m, DOMAIN beam_' = 1 .. m,
         \A i \in 1 .. m : Successor(beam_'[i], sources[i], i - 1),
         IF max_size_ > 1
         THEN beam_index_history_' = Append(beam_index_history_, Row(sources))
         ELSE beam_index_history_' = beam_index_history_ /\ m = 1
  PROVE  Types' /\ HistoryFits' /\ LineageFits' /\ GoldFits' /\ num_steps_' <= MaxSteps
<1> DEFINE Shape == [path : Seq(Actions), parent_beam_index_ : Index, score_ : Score,
                     is_gold_ : BOOLEAN, seeded : BOOLEAN, slots : Seq(Index)]
<1>1. max_size_ \in Nat \ {0} /\ num_steps_ \in Nat /\ m \in Nat /\ Len(beam_) \in Nat
  BY DEF Types
<1>2. Index' = Index
  BY Zenon DEF Index
<1>3. ASSUME NEW i \in 1 .. m
      PROVE  /\ beam_'[i] \in Shape
             /\ Len(beam_'[i].path) <= num_steps_ + 1
             /\ Len(beam_'[i].slots) = num_steps_ + 2
             /\ beam_'[i].slots[num_steps_ + 2] = i - 1
             /\ beam_'[i].seeded = beam_[sources[i] + 1].seeded
             /\ beam_'[i].is_gold_ <=> beam_'[i].seeded /\ OnOracle(beam_'[i].path)
  BY <1>3, Zenon DEF Successor
<1>4. ASSUME NEW i \in 1 .. m
      PROVE  sources[i] \in Slots /\ sources[i] + 1 \in 1 .. Len(beam_)
  BY <1>1, SMTT(60) DEF Slots
<1>5. ASSUME max_size_ > 1
      PROVE  /\ Len(beam_index_history_) = num_steps_ + 1
             /\ beam_index_history_' \in Seq([1 .. max_size_ -> Int])
             /\ Len(beam_index_history_') = num_steps_ + 2
             /\ \A k \in 1 .. num_steps_ + 1 : beam_index_history_'[k] = beam_index_history_[k]
             /\ \A n \in 1 .. m : beam_index_history_'[num_steps_ + 2][n] = sources[n]
             /\ \A n \in m + 1 .. max_size_ : beam_index_history_'[num_steps_ + 2][n] = -1
  <2>1. Len(beam_index_history_) = num_steps_ + 1
    BY <1>5, <1>1 DEF HistoryFits
  <2>2. sources \in [1 .. m -> Int]
    BY <1>1 DEF Slots
  <2>3. beam_index_history_' = Append(beam_index_history_, Row(sources))
    BY <1>5
  <2>4. HasRow(beam_index_history_', m, sources)
    BY <2>1, <2>2, <2>3, RowAdded, Zenon
  <2> QED
    BY <2>1, <2>4, Zenon DEF HasRow
<1>6. Types'
  <2>1. \A n \in 1 .. m : StateType(beam_[n])'
    <3> TAKE n \in 1 .. m
    <3>1. num_steps_ + 2 = num_steps_ + 1 + 1
      BY <1>1
    <3>2. Len(beam_'[n].slots) = num_steps_' + 1 /\ Len(beam_'[n].path) <= num_steps_'
      BY <1>3, <3>1, SMTT(60)
    <3> QED
      BY <1>2, <1>3, <3>2, Zenon DEF StateType
  <2>2. beam_index_history_' \in Seq([1 .. max_size_' -> Int])
    <3>1. CASE max_size_ > 1
      BY <1>5, <3>1
    <3>2. CASE ~(max_size_ > 1)
      BY <3>2 DEF Types
    <3> QED
      BY <3>1, <3>2
  <2>3. m \in Nat /\ m <= max_size_ /\ num_steps_ + 1 \in Nat
    BY <1>1
  <2>4. track_gold_' \in BOOLEAN
    BY Zenon DEF Types
  <2> QED
    BY <1>1, <2>1, <2>2, <2>3, <2>4, Zenon DEF Types
<1>7. HistoryFits' /\ num_steps_' <= MaxSteps
  <2>1. num_steps_ + 1 # 0 /\ num_steps_ + 1 <= MaxSteps
    BY <1>1, MaxStepsAssumption
  <2>2. CASE max_size_ > 1
    <3>1. beam_index_history_' # <<>> /\ max_size_ # 1 /\ num_steps_ + 2 = num_steps_ + 1 + 1
      BY <2>2, <1>1, <1>5, SMTT(60)
    <3>2. Len(beam_index_history_') = num_steps_' + 1
      BY <2>2, <1>5, <3>1
    <3> QED
      BY <2>1, <3>1, <3>2, Zenon DEF HistoryFits
  <2>3. CASE ~(max_size_ > 1)
    <3>1. max_size_ = 1 /\ beam_index_history_' # <<>> /\ Len(beam_') = 1
      BY <2>3, <1>1, SMTT(60)
    <3> QED
      BY <2>1, <3>1, Zenon DEF HistoryFits
  <2> QED
    BY <2>2, <2>3
<1>8. LineageFits'
  <2>1. \A n \in 1 .. m : beam_'[n].slots[num_steps_' + 1] = n - 1
    <3>1. num_steps_ + 2 = num_steps_ + 1 + 1
      BY <1>1
    <3> QED
      BY <1>3, <3>1, SMTT(60)
  <2>2. ASSUME max_size_ > 1, NEW n \in 1 .. m
        PROVE  Linked(beam_[n])'
    <3> DEFINE r == beam_'[n]
               b == sources[n]
               s == beam_[b + 1]
    <3>1. /\ Linked(s) /\ s.slots[num_steps_ + 1] = b
          /\ s.slots \in Seq(Index) /\ Len(s.slots) = num_steps_ + 1
      <4>1. b + 1 \in 1 .. Len(beam_) /\ b \in Int
        BY <1>4, <1>1, SMTT(60) DEF Slots
      <4>2. Linked(s) /\ s.slots[num_steps_ + 1] = b + 1 - 1
        BY <2>2, <4>1 DEF LineageFits
      <4>3. StateType(s)
        BY <4>1 DEF Types
      <4>4. b + 1 - 1 = b
        BY <4>1
      <4> QED
        BY <4>2, <4>3, <4>4, Zenon DEF StateType
    <3>2. /\ \A k \in 1 .. num_steps_ + 1 : r.slots[k] = s.slots[k]
          /\ r.slots[num_steps_ + 2] = n - 1
          /\ r.parent_beam_index_ = s.parent_beam_index_
      BY Zenon DEF Successor
    <3> HIDE DEF r, s, b
    <3>3. At(beam_index_history_'[1], r.slots[1]) = r.parent_beam_index_
      <4>1. 1 \in 1 .. num_steps_ + 1
        BY <1>1
      <4> QED
        BY <3>1, <3>2, <4>1, <1>5, <2>2, Zenon DEF Linked
    <3>4. ASSUME NEW k \in 1 .. num_steps_ + 1
          PROVE  At(beam_index_history_'[k + 1], r.slots[k + 1]) = r.slots[k]
      <4>1. CASE k = num_steps_ + 1
        <5>1. k + 1 = num_steps_ + 2 /\ n - 1 + 1 = n
          BY <1>1, <4>1
        <5>2. At(beam_index_history_'[k + 1], r.slots[k + 1]) = beam_index_history_'[num_steps_ + 2][n]
          BY <3>2, <5>1, SMTT(60) DEF At
        <5>3. beam_index_history_'[num_steps_ + 2][n] = b
          BY <2>2, <1>5 DEF b
        <5> QED
          BY <3>1, <3>2, <4>1, <5>2, <5>3, SMTT(60)
      <4>2. CASE k # num_steps_ + 1
        <5>1. k \in 1 .. num_steps_ /\ k + 1 \in 1 .. num_steps_ + 1
          BY <1>1, <4>2
        <5>2. At(beam_index_history_[k + 1], s.slots[k + 1]) = s.slots[k]
          BY <3>1, <5>1 DEF Linked
        <5> QED
          BY <5>1, <5>2, <3>2, <1>5, <2>2, SMTT(60)
      <4> QED
        BY <4>1, <4>2, SMTT(60)
    <3> QED
      BY <3>3, <3>4 DEF Linked, r
  <2>3. ASSUME max_size_ > 1, NEW n \in m + 1 .. max_size_
        PROVE  beam_index_history_'[num_steps_' + 1][n] = -1
    <3>1. num_steps_ + 2 = num_steps_ + 1 + 1
      BY <1>1
    <3> QED
      BY <1>5, <2>3, <3>1
  <2> QED
    BY <2>1, <2>2, <2>3, SMTT(60) DEF LineageFits
<1>9. GoldFits'
  <2>1. ASSUME NEW n \in 1 .. m
        PROVE  beam_'[n].seeded => track_gold_
    BY <1>3, <1>4, Zenon DEF GoldFits
  <2>2. \A n \in 1 .. m : OnOracle(beam_[n].path)' <=> OnOracle(beam_'[n].path)
    BY DEF OnOracle
  <2> QED
    BY <1>3, <2>1, <2>2, Zenon DEF GoldFits
<1> QED
  BY <1>6, <1>7, <1>8, <1>9
(* The flag that a prediction sets is right if that of its source was. *)
LEMMA GoldAfterExact ==
  ASSUME Types, GoldFits, NEW b \in Slots, NEW a \in Actions
  PROVE  /\ GoldAfter(beam_[b + 1], a) \in BOOLEAN
         /\ GoldAfter(beam_[b + 1], a) <=>
              beam_[b + 1].seeded /\ OnOracle(Append(beam_[b + 1].path, a))
<1> DEFINE s == beam_[b + 1]
<1>1. b + 1 \in 1 .. Len(beam_)
  BY DEF Types, Slots
<1>2. StateType(s) /\ (s.seeded => track_gold_) /\ (s.is_gold_ <=> s.seeded /\ OnOracle(s.path))
  BY <1>1, Zenon DEF Types, GoldFits
<1> HIDE DEF s
<1>3. s.path \in Seq(Actions)
  BY <1>2, Zenon DEF StateType
<1>4. OnOracle(Append(s.path, a)) <=> OnOracle(s.path) /\ a \in Range(Oracle(s.path))
  BY <1>3, OracleStep
<1>5. /\ GoldAfter(s, a) \in BOOLEAN
      /\ GoldAfter(s, a) <=> s.seeded /\ OnOracle(Append(s.path, a))
  BY <1>2, <1>4, Zenon DEF GoldAfter
<1> QED
  BY <1>5 DEF s

(* A step that changes nothing, as a prediction that fails. *)
LEMMA StutterKeeps ==
  ASSUME IndInv, UNCHANGED vars
  PROVE  IndInv'
<1>1. Types'
  BY Zenon DEF IndInv, vars, Types, StateType, Index
<1>2. HistoryFits' /\ LineageFits'
  BY Zenon DEF IndInv, vars, HistoryFits, LineageFits, Linked
<1>3. GoldFits' /\ KeepsTheBest'
  BY Zenon DEF IndInv, vars, GoldFits, OnOracle, KeepsTheBest
<1> QED
  BY <1>1, <1>2, <1>3, Zenon DEF IndInv, vars

(* A prediction for a beam that is not terminal: it has been seeded. *)
LEMMA NotTerminal ==
  ASSUME IndInv, ~IsTerminal
  PROVE  beam_index_history_ # <<>> /\ 0 \in Slots
<1>1. Slots # {}
  BY DEF IsTerminal
<1>2. Len(beam_) \in Nat /\ Len(beam_) > 0
  BY <1>1 DEF IndInv, Types, Slots
<1>3. beam_ # <<>>
  BY <1>2
<1> QED
  BY <1>2, <1>3 DEF IndInv, HistoryFits, Slots

LEMMA FastAdvanceKeeps ==
  ASSUME IndInv, max_size_ = 1, num_steps_ < MaxSteps, ~IsTerminal,
         NEW matrix \in [Slots \X Actions -> Entries], FastAdvanceFromPrediction(matrix),
         UNCHANGED <<max_size_, track_gold_>>
  PROVE  IndInv'
<1> DEFINE source == beam_[1]
           Better(a) == /\ IsAllowed(source.path, a)
                        /\ Less(NegInfinity, matrix[<<0, a>>])
                        /\ \A b \in Actions :
                             IsAllowed(source.path, b) =>
                               /\ ~Less(matrix[<<0, a>>], matrix[<<0, b>>])
                               /\ b < a => Less(matrix[<<0, b>>], matrix[<<0, a>>])
           best == CHOOSE a \in Actions : Better(a)
           sum == Plus(source.score_, matrix[<<0, best>>])
           fails == \/ \E a \in Actions : matrix[<<0, a>>] = NaN
                    \/ \A a \in Actions : ~Better(a)
<1>1. CASE fails
  <2>1. UNCHANGED vars
    BY <1>1, Zenon DEF FastAdvanceFromPrediction, vars
  <2> QED
    BY <2>1, StutterKeeps
<1>2. CASE ~fails
  <2>1. /\ beam_' = <<Advanced(source, best, sum, GoldAfter(source, best), 0)>>
        /\ num_steps_' = num_steps_ + 1
        /\ UNCHANGED <<beam_index_history_, search>>
    BY <1>2, Zenon DEF FastAdvanceFromPrediction
  <2>2. (\E a \in Actions : Better(a)) /\ \A a \in Actions : matrix[<<0, a>>] # NaN
    BY <1>2, Zenon
  <2>3. best \in Actions
    <3> HIDE DEF Better
    <3> QED
      BY <2>2, Zenon
  <2>4. beam_index_history_ # <<>> /\ 0 \in Slots
    BY NotTerminal
  <2>5. Types /\ HistoryFits /\ LineageFits /\ GoldFits
    BY Zenon DEF IndInv
  <2> HIDE DEF best
  <2>6. sum \in Score
    <3>1. matrix[<<0, best>>] \in Entries /\ matrix[<<0, best>>] # NaN
      BY <2>2, <2>3, <2>4, SMTT(60)
    <3>2. source.score_ \in Score
      BY <2>4, <2>5 DEF Types, StateType, Slots
    <3>3. Plus(source.score_, matrix[<<0, best>>]) # NaN
      BY <3>1, <3>2, EntriesAssumption DEF Plus, Score
    <3> QED
      BY <3>1, <3>2, <3>3, PlusType, SMTT(60)
  <2> HIDE DEF sum
  <2> DEFINE gold == GoldAfter(source, best)
  <2>7. 0 \in Index /\ source = beam_[0 + 1]
    BY DEF Index
  <2>8. gold \in BOOLEAN /\ (gold <=> beam_[0 + 1].seeded /\ OnOracle(Append(beam_[0 + 1].path, best)))
    BY <2>3, <2>4, <2>5, <2>7, GoldAfterExact, Zenon
  <2> HIDE DEF gold
  <2>9. Successor(Advanced(beam_[0 + 1], best, sum, gold, 0), 0, 0)
    BY <2>3, <2>4, <2>5, <2>6, <2>7, <2>8, AdvancedSucceeds, Zenon
  <2> DEFINE sources == [i \in 1 .. 1 |-> 0]
  <2>10. /\ Len(beam_') = 1 /\ DOMAIN beam_' = 1 .. 1
         /\ \A i \in 1 .. 1 : Successor(beam_'[i], sources[i], i - 1)
    <3>1. beam_' = <<Advanced(beam_[0 + 1], best, sum, gold, 0)>>
      BY <2>1, <2>7, Zenon DEF gold
    <3> DEFINE r == Advanced(beam_[0 + 1], best, sum, gold, 0)
    <3> HIDE DEF r
    <3>2. Len(beam_') = 1 /\ DOMAIN beam_' = 1 .. 1 /\ beam_'[1] = r
      BY <3>1 DEF r
    <3>3. \A i \in 1 .. 1 : i = 1 /\ sources[i] = 0 /\ i - 1 = 0
      OBVIOUS
    <3>4. Successor(r, 0, 0)
      BY <2>9 DEF r
    <3> HIDE DEF sources
    <3> QED
      BY <3>2, <3>3, <3>4, Zenon
  <2>11. sources \in [1 .. 1 -> Slots] /\ 1 \in 0 .. max_size_ /\ ~(max_size_ > 1)
    BY <2>4
  <2> HIDE DEF sources
  <2>12. Types' /\ HistoryFits' /\ LineageFits' /\ GoldFits' /\ num_steps_' <= MaxSteps
    BY <2>1, <2>4, <2>5, <2>10, <2>11, StepKeeps, SMTT(60)
  <2>13. search' = NoSearch
    BY <2>1 DEF IndInv
  <2> QED
    BY <2>12, <2>13, Zenon DEF IndInv, KeepsTheBest, NoSearch
<1> QED
  BY <1>1, <1>2, Zenon
LEMMA BeamAdvanceKeeps ==
  ASSUME IndInv, max_size_ # 1, num_steps_ < MaxSteps, ~IsTerminal,
         NEW matrix \in [Slots \X Actions -> Entries], BeamAdvanceFromPrediction(matrix),
         UNCHANGED <<max_size_, track_gold_>>
  PROVE  IndInv'
<1> DEFINE allowed == Allowed(matrix)
           top == Top(matrix)
           T(n) == Transition(matrix, n)
           New(i) == LET t == At(top, i)
                         source == At(beam_, t.source_idx)
                     IN  Advanced(source, t.action, t.score, GoldAfter(source, t.action), i)
           m == Len(top)
           sources == [n \in 1 .. m |-> top[n].source_idx]
           rejected == {T(n).score : n \in {k \in allowed : T(k) \notin Range(top)}}
<1>1. CASE \E n \in allowed : T(n).score = NaN
  <2>1. UNCHANGED vars
    BY <1>1, Zenon DEF BeamAdvanceFromPrediction, vars
  <2> QED
    BY <2>1, StutterKeeps
<1>2. CASE ~(\E n \in allowed : T(n).score = NaN)
  <2>1. /\ beam_' = [n \in 1 .. m |-> New(n - 1)]
        /\ beam_index_history_' = Append(beam_index_history_, Row(sources))
        /\ num_steps_' = num_steps_ + 1
        /\ search' = [candidates |-> Cardinality(allowed), rejected |-> rejected]
    BY <1>2, Zenon DEF BeamAdvanceFromPrediction
  <2>2. Types /\ HistoryFits /\ LineageFits /\ GoldFits
    BY Zenon DEF IndInv
  <2>3. /\ top \in Seq(Candidate) /\ Sorted(top)
        /\ Cardinality(allowed) \in Nat
        /\ m = IF Cardinality(allowed) < max_size_ THEN Cardinality(allowed) ELSE max_size_
        /\ \A n \in allowed : KeptOrBeaten(top, T(n))
    BY <1>2, <2>2, TopFacts, Zenon
  <2>4. beam_index_history_ # <<>>
    BY NotTerminal
  <2>5. max_size_ \in Nat /\ max_size_ > 1
    BY <2>2 DEF Types
  <2> HIDE DEF top
  <2>6. m \in 0 .. max_size_
    BY <2>3, <2>5
  <2>7. ASSUME NEW n \in 1 .. m
        PROVE  /\ top[n] \in Candidate /\ top[n].source_idx \in Slots /\ top[n].action \in Actions
               /\ top[n].score \in Score
    <3>1. top[n] \in Candidate
      BY <2>3, ElementOfSeq, Zenon
    <3> QED
      BY <3>1 DEF Candidate
  <2> HIDE DEF m
  <2>8. ASSUME NEW n \in 1 .. m
        PROVE  Successor(New(n - 1), top[n].source_idx, n - 1) /\ New(n - 1).score_ = top[n].score
    <3> DEFINE t == top[n]
               b == t.source_idx
               s == beam_[b + 1]
               gold == GoldAfter(s, t.action)
    <3>1. n - 1 + 1 = n /\ n - 1 \in Index
      BY <2>5, <2>6 DEF Index
    <3>2. At(top, n - 1) = t
      BY <3>1 DEF At
    <3>3. New(n - 1) = Advanced(s, t.action, t.score, gold, n - 1)
      BY <3>2, Zenon DEF At
    <3>4. gold \in BOOLEAN /\ (gold <=> s.seeded /\ OnOracle(Append(s.path, t.action)))
      BY <2>2, <2>7, GoldAfterExact, Zenon
    <3> HIDE DEF gold, New
    <3>5. Successor(Advanced(s, t.action, t.score, gold, n - 1), b, n - 1)
      BY <2>2, <2>7, <3>1, <3>4, AdvancedSucceeds, Zenon
    <3>6. Advanced(s, t.action, t.score, gold, n - 1).score_ = t.score
      BY Zenon DEF Advanced, State
    <3> QED
      BY <3>3, <3>5, <3>6, Zenon
  <2> HIDE DEF New
  <2>9. sources \in [1 .. m -> Slots]
    BY <2>7
  <2>10. /\ beam_' \in [1 .. m -> {New(n - 1) : n \in 1 .. m}]
         /\ \A n \in 1 .. m : beam_'[n] = New(n - 1)
    BY <2>1
  <2>11. Len(beam_') = m /\ DOMAIN beam_' = 1 .. m
    <3> DEFINE S == {New(n - 1) : n \in 1 .. m}
    <3>1. m \in Nat
      BY <2>5, <2>6
    <3> HIDE DEF S
    <3>2. beam_' \in [1 .. m -> S]
      BY <2>10 DEF S
    <3> QED
      BY <3>1, <3>2, TableIsSeq, Zenon
  <2>12. \A n \in 1 .. m : Successor(beam_'[n], sources[n], n - 1)
    <3>1. \A n \in 1 .. m : sources[n] = top[n].source_idx
      BY Zenon
    <3> HIDE DEF sources
    <3> QED
      BY <2>8, <2>10, <3>1, Zenon
  <2> HIDE DEF sources
  <2>13. Types' /\ HistoryFits' /\ LineageFits' /\ GoldFits' /\ num_steps_' <= MaxSteps
    BY <2>1, <2>2, <2>4, <2>5, <2>6, <2>9, <2>11, <2>12, StepKeeps, Zenon
  <2>14. KeepsTheBest'
    <3> HIDE DEF rejected, allowed
    <3>1. \A n \in 1 .. m : beam_'[n].score_ = top[n].score
      BY <2>8, <2>10, Zenon
    <3>2. search'.candidates = Cardinality(allowed) /\ search'.rejected = rejected
      BY <2>1, Zenon
    <3>3. Len(beam_') = IF search'.candidates < max_size_' THEN search'.candidates ELSE max_size_'
      BY <2>3, <2>11, <3>2, SMTT(60)
    <3>4. ASSUME NEW n \in 2 .. Len(beam_')
          PROVE  ~Less(beam_'[n - 1].score_, beam_'[n].score_)
      <4>1. n \in 1 .. m /\ n - 1 \in 1 .. m /\ n - 1 <= n
        BY <2>5, <2>6, <2>11, SMTT(60)
      <4>2. ~Less(top[n - 1].score, top[n].score)
        BY <2>3, <4>1, SMTT(60) DEF Sorted, m
      <4> QED
        BY <3>1, <4>1, <4>2, SMTT(60)
    <3>5. ASSUME NEW score \in rejected
          PROVE  ~Less(beam_'[Len(beam_')].score_, score)
      <4>1. PICK n \in allowed : T(n) \notin Range(top) /\ score = T(n).score
        BY Zenon DEF rejected
      <4>2. m = max_size_ /\ ~Less(top[max_size_].score, score)
        BY <2>3, <4>1, Zenon DEF KeptOrBeaten, m
      <4>3. max_size_ \in 1 .. m
        BY <2>5, <4>2
      <4> QED
        BY <2>11, <3>1, <4>2, <4>3, SMTT(60)
    <3> QED
      BY <3>2, <3>3, <3>4, <3>5 DEF KeepsTheBest
  <2> QED
    BY <2>13, <2>14, Zenon DEF IndInv
<1> QED
  BY <1>1, <1>2
(* A final state that an oracle step leaves in its slot. *)
LEMMA FinalSucceeds ==
  ASSUME Types, GoldFits, NEW b \in Slots, NEW i \in Index
  PROVE  Successor([beam_[b + 1] EXCEPT !.slots = Append(@, i)], b, i)
<1> DEFINE s == beam_[b + 1]
           r == [s EXCEPT !.slots = Append(@, i)]
           Shape == [path : Seq(Actions), parent_beam_index_ : Index, score_ : Score,
                     is_gold_ : BOOLEAN, seeded : BOOLEAN, slots : Seq(Index)]
<1>0. b + 1 \in 1 .. Len(beam_)
  BY DEF Types, Slots
<1>1. StateType(s) /\ num_steps_ \in Nat /\ (s.is_gold_ <=> s.seeded /\ OnOracle(s.path))
  BY <1>0, Zenon DEF Types, GoldFits
<1>2. /\ s \in Shape /\ s.path \in Seq(Actions) /\ Len(s.path) <= num_steps_
      /\ s.slots \in Seq(Index) /\ Len(s.slots) = num_steps_ + 1
  BY <1>1, Zenon DEF StateType
<1> HIDE DEF s
<1>3. /\ r.path = s.path /\ r.slots = Append(s.slots, i)
      /\ r.parent_beam_index_ = s.parent_beam_index_ /\ r.seeded = s.seeded
      /\ r.is_gold_ = s.is_gold_
  BY <1>2, Zenon
<1>4. Append(s.slots, i) \in Seq(Index)
  BY <1>2, Appended
<1>5. r \in Shape
  BY <1>2, <1>4, Zenon
<1> HIDE DEF r
<1>6. /\ Len(r.slots) = num_steps_ + 2
      /\ \A k \in 1 .. num_steps_ + 1 : r.slots[k] = s.slots[k]
      /\ r.slots[num_steps_ + 2] = i
  <2>1. /\ r.slots \in Seq(Index)
        /\ Len(r.slots) = Len(s.slots) + 1
        /\ \A n \in 1 .. Len(s.slots) : r.slots[n] = s.slots[n]
        /\ r.slots[Len(s.slots) + 1] = i
    BY <1>2, <1>3, Appended, SMTT(60)
  <2>2. num_steps_ + 1 + 1 = num_steps_ + 2
    BY <1>1
  <2> QED
    BY <1>2, <2>1, <2>2, SMTT(60)
<1>7. Len(r.path) <= num_steps_ + 1
  BY <1>1, <1>2, <1>3, LenProperties, SMTT(60)
<1>8. r.is_gold_ <=> r.seeded /\ OnOracle(r.path)
  BY <1>1, <1>3, Zenon
<1>9. Successor(r, b, i)
  BY <1>3, <1>5, <1>6, <1>7, <1>8, Zenon DEF Successor, s
<1> QED
  BY <1>9 DEF r, s

(* The first of the oracle's actions, for a state that can still be advanced. *)
LEMMA OracleAction ==
  ASSUME Types, num_steps_ < MaxSteps, NEW path \in Seq(Actions), Len(path) <= num_steps_,
         ~IsFinal(path)
  PROVE  Head(Oracle(path)) \in Actions /\ Head(Oracle(path)) \in Range(Oracle(path))
<1> DEFINE n == Len(path)
           gold == Oracle(path)
<1>1. n \in Nat /\ path \in [1 .. n -> Actions]
  BY LenProperties
<1>2. n \in 0 .. MaxSteps - 1
  BY <1>1, MaxStepsAssumption DEF Types
<1>3. gold \in Seq(Actions) /\ gold # <<>>
  BY <1>1, <1>2, OracleAssumption, Zenon DEF Actions
<1> HIDE DEF gold
<1>4. Head(gold) \in Actions
  BY <1>3, HeadTailProperties
<1>5. Head(gold) = gold[1] /\ 1 \in DOMAIN gold
  BY <1>3
<1> QED
  BY <1>4, <1>5 DEF gold, Range

LEMMA OracleKeeps ==
  ASSUME IndInv, AdvanceFromOracle
  PROVE  IndInv'
<1> DEFINE m == Len(beam_)
           sources == [n \in 1 .. m |-> n - 1]
           New(n) == LET s == beam_[n]
                     IN  IF IsFinal(s.path) THEN [s EXCEPT !.slots = Append(@, n - 1)]
                         ELSE Advanced(s, Head(Oracle(s.path)), 0, s.is_gold_, n - 1)
<1>1. Types /\ HistoryFits /\ LineageFits /\ GoldFits
  BY Zenon DEF IndInv
<1>2. /\ num_steps_ < MaxSteps /\ beam_index_history_ # <<>>
      /\ beam_' = [n \in 1 .. m |-> New(n)]
      /\ beam_index_history_' =
           IF max_size_ > 1 THEN Append(beam_index_history_, Row(sources)) ELSE beam_index_history_
      /\ num_steps_' = num_steps_ + 1
      /\ search' = NoSearch
      /\ max_size_' = max_size_ /\ track_gold_' = track_gold_
  BY Zenon DEF AdvanceFromOracle, OracleStates
<1>3. m \in Nat /\ m <= max_size_ /\ max_size_ \in Nat \ {0} /\ num_steps_ \in Nat
  BY <1>1 DEF Types
<1>4. ASSUME NEW n \in 1 .. m
      PROVE  Successor(New(n), n - 1, n - 1)
  <2> DEFINE b == n - 1
             s == beam_[b + 1]
  <2>1. b \in Slots /\ b \in Index /\ b + 1 = n
    BY <1>3 DEF Slots, Index
  <2>2. beam_[n] = s
    BY <2>1
  <2>3. CASE IsFinal(s.path)
    <3>1. New(n) = [s EXCEPT !.slots = Append(@, b)]
      BY <2>2, <2>3, Zenon
    <3> HIDE DEF b, New
    <3>2. Successor([beam_[b + 1] EXCEPT !.slots = Append(@, b)], b, b)
      BY <1>1, <2>1, FinalSucceeds, Zenon
    <3> QED
      BY <3>1, <3>2, Zenon DEF b
  <2>4. CASE ~IsFinal(s.path)
    <3> DEFINE a == Head(Oracle(s.path))
    <3>1. New(n) = Advanced(s, a, 0, s.is_gold_, b)
      BY <2>2, <2>4, Zenon
    <3>2. StateType(s) /\ (s.is_gold_ <=> s.seeded /\ OnOracle(s.path))
      BY <1>1, <2>1, Zenon DEF Types, GoldFits
    <3>3. s.path \in Seq(Actions) /\ Len(s.path) <= num_steps_ /\ s.is_gold_ \in BOOLEAN
      BY <3>2, Zenon DEF StateType
    <3> HIDE DEF b, s, New
    <3>4. a \in Actions /\ a \in Range(Oracle(s.path))
      BY <1>1, <1>2, <2>4, <3>3, OracleAction, Zenon
    <3> HIDE DEF a
    <3>5. s.is_gold_ <=> s.seeded /\ OnOracle(Append(s.path, a))
      BY <3>2, <3>3, <3>4, OracleStep, Zenon
    <3>6. 0 \in Score
      BY DEF Score
    <3>7. Successor(Advanced(s, a, 0, s.is_gold_, b), b, b)
      BY <1>1, <2>1, <3>3, <3>4, <3>5, <3>6, AdvancedSucceeds, Zenon DEF s
    <3> QED
      BY <3>1, <3>7, Zenon DEF b
  <2> QED
    BY <2>3, <2>4
<1> HIDE DEF New
<1>5. Len(beam_') = m /\ DOMAIN beam_' = 1 .. m /\ \A n \in 1 .. m : beam_'[n] = New(n)
  <2> DEFINE S == {New(n) : n \in 1 .. m}
  <2>1. beam_' \in [1 .. m -> S] /\ \A n \in 1 .. m : beam_'[n] = New(n)
    BY <1>2
  <2> HIDE DEF S
  <2>2. Len(beam_') = m /\ DOMAIN beam_' = 1 .. m
    BY <1>3, <2>1, TableIsSeq, Zenon
  <2> QED
    BY <2>1, <2>2, Zenon
<1> HIDE DEF m
<1>6. /\ sources \in [1 .. m -> Slots] /\ m \in 0 .. max_size_
      /\ \A n \in 1 .. m : sources[n] = n - 1
  BY <1>3 DEF Slots, m
<1> HIDE DEF sources
<1>7. \A n \in 1 .. m : Successor(beam_'[n], sources[n], n - 1)
  BY <1>4, <1>5, <1>6, Zenon
<1>8. ~(max_size_ > 1) => m = 1
  BY <1>1, <1>2, <1>3, SMTT(60) DEF HistoryFits, m
<1>9. Types' /\ HistoryFits' /\ LineageFits' /\ GoldFits' /\ num_steps_' <= MaxSteps
  BY <1>1, <1>2, <1>5, <1>6, <1>7, <1>8, StepKeeps, SMTT(60)
<1> QED
  BY <1>2, <1>9, Zenon DEF IndInv, KeepsTheBest, NoSearch
LEMMA InitBeamKeeps ==
  ASSUME IndInv, InitBeam
  PROVE  IndInv'
<1>0. PICK k \in 1 .. max_size_, gold \in BOOLEAN :
        \E scores \in [1 .. k -> Entries \cap Int] :
          /\ beam_' = [n \in 1 .. k |-> State(<<>>, n - 1, scores[n], gold /\ track_gold_,
                                              gold /\ track_gold_, <<n - 1>>)]
          /\ beam_index_history_' = Append(beam_index_history_, Row([n \in 1 .. k |-> n - 1]))
  BY Zenon DEF InitBeam
<1>1. PICK scores \in [1 .. k -> Entries \cap Int] :
        /\ beam_' = [n \in 1 .. k |-> State(<<>>, n - 1, scores[n], gold /\ track_gold_,
                                            gold /\ track_gold_, <<n - 1>>)]
        /\ beam_index_history_' = Append(beam_index_history_, Row([n \in 1 .. k |-> n - 1]))
  BY <1>0, Zenon
<1>2. /\ beam_index_history_ = <<>> /\ search' = NoSearch
      /\ max_size_' = max_size_ /\ num_steps_' = num_steps_ /\ track_gold_' = track_gold_
  BY Zenon DEF InitBeam
<1>3. num_steps_ = 0 /\ max_size_ \in Nat \ {0} /\ track_gold_ \in BOOLEAN
  BY <1>2, Zenon DEF IndInv, HistoryFits, Types
<1> DEFINE flag == gold /\ track_gold_
           New(n) == State(<<>>, n - 1, scores[n], flag, flag, <<n - 1>>)
           sources == [n \in 1 .. k |-> n - 1]
           row == Row(sources)
<1>4. k \in Nat /\ k \in 0 .. max_size_ /\ sources \in [1 .. k -> Int]
  BY <1>3, SMTT(60)
<1>5. /\ row \in [1 .. max_size_ -> Int]
      /\ \A n \in 1 .. k : row[n] = n - 1
      /\ \A n \in k + 1 .. max_size_ : row[n] = -1
  <2>1. \A n \in 1 .. k : sources[n] = n - 1
    OBVIOUS
  <2> HIDE DEF sources
  <2> QED
    BY <1>3, <1>4, <2>1, RowFacts, SMTT(60)
<1> HIDE DEF row
<1>6. beam_index_history_' = <<row>>
  BY <1>1, <1>2, SMTT(60) DEF row
<1>7. /\ beam_index_history_' \in Seq([1 .. max_size_' -> Int]) /\ beam_index_history_' # <<>>
      /\ Len(beam_index_history_') = 1 /\ beam_index_history_'[1] = row
  BY <1>2, <1>5, <1>6, SMTT(60)
<1>8. Len(beam_') = k /\ DOMAIN beam_' = 1 .. k /\ \A n \in 1 .. k : beam_'[n] = New(n)
  <2> HIDE DEF New
  <2> DEFINE S == {New(n) : n \in 1 .. k}
  <2>1. beam_' = [n \in 1 .. k |-> New(n)]
    BY <1>1 DEF New
  <2>2. beam_' \in [1 .. k -> S] /\ \A n \in 1 .. k : beam_'[n] = New(n)
    BY <2>1
  <2> HIDE DEF S
  <2>3. Len(beam_') = k /\ DOMAIN beam_' = 1 .. k
    BY <1>4, <2>2, TableIsSeq, Zenon
  <2> QED
    BY <2>2, <2>3, Zenon
<1> HIDE DEF flag
<1>9. ASSUME NEW n \in 1 .. k
      PROVE  /\ beam_'[n] = [path |-> <<>>, parent_beam_index_ |-> n - 1, score_ |-> scores[n],
                             is_gold_ |-> flag, seeded |-> flag, slots |-> <<n - 1>>]
             /\ beam_'[n].path = <<>> /\ beam_'[n].slots = <<n - 1>>
             /\ beam_'[n].parent_beam_index_ = n - 1
             /\ beam_'[n].is_gold_ = flag /\ beam_'[n].seeded = flag
  <2> DEFINE s == beam_'[n]
             first == n - 1
             score == scores[n]
  <2>1. s = State(<<>>, first, score, flag, flag, <<first>>)
    BY <1>8, Zenon
  <2> HIDE DEF s, first, score
  <2>2. s = [path |-> <<>>, parent_beam_index_ |-> first, score_ |-> score,
             is_gold_ |-> flag, seeded |-> flag, slots |-> <<first>>]
    BY <2>1, Zenon DEF State
  <2>3. /\ s.path = <<>> /\ s.slots = <<first>> /\ s.parent_beam_index_ = first
        /\ s.is_gold_ = flag /\ s.seeded = flag
    BY <2>2, Zenon
  <2> QED
    BY <2>2, <2>3, Zenon DEF s, first, score
<1>10. Types'
  <2>1. ASSUME NEW n \in 1 .. k
        PROVE  StateType(beam_[n])'
    <3>1. n - 1 \in Index' /\ <<n - 1>> \in Seq(Index') /\ scores[n] \in Score
      BY <1>2, <1>3 DEF Index, Score
    <3>2. <<>> \in Seq(Actions) /\ Len(<<>>) <= num_steps_' /\ Len(<<n - 1>>) = num_steps_' + 1
      BY <1>2, <1>3
    <3>3. flag \in BOOLEAN
      BY <1>3, Zenon DEF flag
    <3> DEFINE s == beam_'[n]
               first == n - 1
               score == scores[n]
               I == Index'
               A == Seq(Actions)
    <3>6. s = [path |-> <<>>, parent_beam_index_ |-> first, score_ |-> score,
               is_gold_ |-> flag, seeded |-> flag, slots |-> <<first>>]
      BY <1>9, Zenon
    <3>7. first \in I /\ <<first>> \in Seq(I) /\ score \in Score /\ <<>> \in A
      BY <3>1, <3>2, Zenon
    <3> HIDE DEF s, first, score, I, A
    <3>8. s \in [path : A, parent_beam_index_ : I, score_ : Score,
                 is_gold_ : BOOLEAN, seeded : BOOLEAN, slots : Seq(I)]
      BY <3>3, <3>6, <3>7, Zenon
    <3>4. s \in [path : Seq(Actions), parent_beam_index_ : Index', score_ : Score,
                 is_gold_ : BOOLEAN, seeded : BOOLEAN, slots : Seq(Index')]
      BY <3>8, Zenon DEF I, A
    <3>5. Len(s.path) <= num_steps_' /\ Len(s.slots) = num_steps_' + 1
      BY <1>9, <3>2, Zenon DEF s
    <3> QED
      BY <3>4, <3>5, Zenon DEF StateType, s
  <2>2. k <= max_size_ /\ 0 \in Nat
    BY <1>3
  <2> QED
    BY <1>2, <1>3, <1>4, <1>7, <1>8, <2>1, <2>2, Zenon DEF Types
<1>11. HistoryFits'
  <2>1. max_size_ = 1 => k = 1
    BY <1>3
  <2>2. num_steps_' + 1 = 1
    BY <1>2, <1>3
  <2> QED
    BY <1>2, <1>7, <1>8, <2>1, <2>2, Zenon DEF HistoryFits
<1>12. LineageFits'
  <2>1. num_steps_' = 0 /\ num_steps_' + 1 = 1
    BY <1>2, <1>3
  <2>2. ASSUME NEW n \in 1 .. k
        PROVE  beam_'[n].slots[1] = n - 1 /\ At(row, n - 1) = n - 1
    <3>1. n - 1 + 1 = n /\ <<n - 1>>[1] = n - 1
      BY <1>4
    <3> QED
      BY <1>5, <1>9, <3>1, Zenon DEF At
  <2>3. ASSUME NEW n \in 1 .. k
        PROVE  Linked(beam_[n])'
    <3>1. At(beam_index_history_'[1], beam_'[n].slots[1]) = beam_'[n].parent_beam_index_
      BY <1>7, <1>9, <2>2, Zenon
    <3>2. 1 .. num_steps_' = {}
      BY <2>1
    <3> QED
      BY <3>1, <3>2, Zenon DEF Linked, At
  <2>4. \A n \in k + 1 .. max_size_' : beam_index_history_'[num_steps_' + 1][n] = -1
    BY <1>2, <1>5, <1>7, <2>1, Zenon
  <2>5. \A n \in 1 .. k : beam_'[n].slots[num_steps_' + 1] = n - 1
    BY <2>1, <2>2
  <2> QED
    BY <1>8, <2>3, <2>4, <2>5, Zenon DEF LineageFits
<1>13. GoldFits'
  <2>1. OnOracle(<<>>)
    BY DEF OnOracle
  <2>2. ASSUME NEW n \in 1 .. k
        PROVE  /\ OnOracle(beam_[n].path)'
               /\ beam_'[n].seeded => track_gold_'
               /\ beam_'[n].is_gold_ = beam_'[n].seeded
    BY <1>2, <1>9, <2>1, Zenon DEF OnOracle, flag
  <2> QED
    BY <1>8, <2>2, Zenon DEF GoldFits
<1>14. num_steps_' <= MaxSteps
  BY <1>2, <1>3, MaxStepsAssumption
<1> QED
  BY <1>2, <1>10, <1>11, <1>12, <1>13, <1>14, Zenon DEF IndInv, KeepsTheBest, NoSearch

(* An empty beam, as at the start and after Reset and SetMaxSize. *)
Empty ==
  /\ beam_ = <<>> /\ beam_index_history_ = <<>> /\ num_steps_ = 0 /\ search = NoSearch
  /\ max_size_ \in MaxSizes \/ max_size_ \in Nat \ {0}
  /\ track_gold_ \in BOOLEAN
LEMMA EmptyFits == Empty => IndInv
<1> SUFFICES ASSUME Empty
             PROVE  IndInv
  OBVIOUS
<1>1. max_size_ \in Nat \ {0} /\ track_gold_ \in BOOLEAN
  BY SizesAssumption, Zenon DEF Empty
<1>2. /\ Len(beam_) = 0 /\ DOMAIN beam_ = 1 .. 0 /\ 1 .. Len(beam_) = {} /\ 0 <= max_size_
      /\ beam_index_history_ \in Seq([1 .. max_size_ -> Int])
  BY <1>1 DEF Empty
<1>3. num_steps_ = 0 /\ num_steps_ \in Nat /\ num_steps_ <= MaxSteps /\ 0 \in Nat
  BY MaxStepsAssumption DEF Empty
<1>4. Types
  BY <1>1, <1>2, <1>3, Zenon DEF Types
<1>5. HistoryFits /\ LineageFits /\ GoldFits
  BY <1>2, <1>3, Zenon DEF HistoryFits, LineageFits, GoldFits, Empty
<1> QED
  BY <1>3, <1>4, <1>5, Zenon DEF IndInv, KeepsTheBest, Empty
-----------------------------------------------------------------------------
(* FindPreviousIndex's loop follows the lineage: at row i it is at the slot    *)
(* that the state's lineage had after i - 1 steps, and below row 0 at the       *)
(* parent's slot.                                                             *)
Ancestor(s, i) == IF i = 0 THEN s.parent_beam_index_ ELSE s.slots[i]
LEMMA AncestorOfRow ==
  ASSUME IndInv, max_size_ > 1, NEW n \in 1 .. Len(beam_), NEW i \in 0 .. num_steps_
  PROVE  /\ At(At(beam_index_history_, i), Ancestor(beam_[n], i + 1)) = Ancestor(beam_[n], i)
         /\ Ancestor(beam_[n], i) \in Index
<1> DEFINE s == beam_[n]
<1>1. Linked(s) /\ StateType(s) /\ num_steps_ \in Nat
  BY DEF IndInv, Types, LineageFits
<1>2. /\ s.slots \in Seq(Index) /\ Len(s.slots) = num_steps_ + 1 /\ s.parent_beam_index_ \in Index
  BY <1>1, Zenon DEF StateType
<1> HIDE DEF s
<1>3. At(beam_index_history_, i) = beam_index_history_[i + 1] /\ i + 1 # 0
  BY DEF At
<1>4. Ancestor(s, i + 1) = s.slots[i + 1]
  BY <1>3, Zenon DEF Ancestor
<1>5. CASE i = 0
  <2>1. At(beam_index_history_[1], s.slots[1]) = s.parent_beam_index_
    BY <1>1 DEF Linked
  <2>2. i + 1 = 1 /\ Ancestor(s, i) = s.parent_beam_index_
    BY <1>5, SMTT(60) DEF Ancestor
  <2> QED
    BY <1>2, <1>3, <1>4, <2>1, <2>2, SMTT(60) DEF s
<1>6. CASE i # 0
  <2>1. i \in 1 .. num_steps_ /\ i \in 1 .. num_steps_ + 1
    BY <1>1, <1>6, SMTT(60)
  <2>2. At(beam_index_history_[i + 1], s.slots[i + 1]) = s.slots[i]
    BY <1>1, <2>1, SMTT(60) DEF Linked
  <2>3. s.slots[i] \in Index
    BY <1>2, <2>1, ElementOfSeq, SMTT(60)
  <2>4. Ancestor(s, i) = s.slots[i]
    BY <1>6 DEF Ancestor
  <2> QED
    BY <1>3, <1>4, <2>2, <2>3, <2>4, SMTT(60) DEF s
<1> QED
  BY <1>5, <1>6, SMTT(60)

LEMMA WalkFinds ==
  ASSUME IndInv, max_size_ > 1, beam_index_history_ # <<>>,
         NEW n \in 1 .. Len(beam_), NEW step \in 0 .. num_steps_
  PROVE  Walk(n - 1, step) = Ancestor(beam_[n], step)
<1> DEFINE rows == Len(beam_index_history_)
           Loop(w) == [i \in step .. rows |->
                         IF i = rows THEN n - 1 ELSE At(At(beam_index_history_, i), w[i + 1])]
           walk == CHOOSE w : w = Loop(w)
           g == [i \in step .. rows |-> Ancestor(beam_[n], i)]
<1>1. Walk(n - 1, step) = walk[step]
  BY DEF Walk
<1>2. rows = num_steps_ + 1 /\ num_steps_ \in Nat
  BY DEF IndInv, HistoryFits, Types
<1>3. Ancestor(beam_[n], rows) = n - 1
  <2>1. beam_[n].slots[num_steps_ + 1] = n - 1 /\ num_steps_ + 1 # 0
    BY <1>2, SMTT(60) DEF IndInv, LineageFits
  <2> QED
    BY <1>2, <2>1, SMTT(60) DEF Ancestor
<1> HIDE DEF rows
<1>4. ASSUME NEW i \in step .. rows, i # rows
      PROVE  /\ i + 1 \in step .. rows
             /\ Ancestor(beam_[n], i) = At(At(beam_index_history_, i), Ancestor(beam_[n], i + 1))
  <2>1. i \in 0 .. num_steps_ /\ i + 1 \in step .. rows
    BY <1>2, <1>4, SMTT(60)
  <2> QED
    BY <2>1, AncestorOfRow
<1>5. g = Loop(g)
  BY <1>3, <1>4
<1>6. walk = Loop(walk)
  <2> HIDE DEF Loop, g
  <2> QED
    BY <1>5
<1> HIDE DEF walk
<1>7. \A i \in step .. rows :
        walk[i] = IF i = rows THEN n - 1 ELSE At(At(beam_index_history_, i), walk[i + 1])
  BY <1>6, Zenon
<1> HIDE DEF Loop
<1> DEFINE T == {j \in Nat : j <= rows - step => walk[rows - j] = Ancestor(beam_[n], rows - j)}
<1>8. 0 \in T
  <2>1. rows - 0 = rows /\ rows \in step .. rows
    BY <1>2
  <2> QED
    BY <1>3, <1>7, <2>1
<1>9. ASSUME NEW j \in Nat, j \in T
      PROVE  j + 1 \in T
  <2> SUFFICES ASSUME j + 1 <= rows - step
               PROVE  walk[rows - (j + 1)] = Ancestor(beam_[n], rows - (j + 1))
    OBVIOUS
  <2> DEFINE i == rows - (j + 1)
  <2>1. i \in step .. rows /\ i # rows /\ i + 1 = rows - j /\ j <= rows - step
    BY <1>2
  <2>2. walk[i + 1] = Ancestor(beam_[n], i + 1)
    BY <1>9, <2>1
  <2> HIDE DEF i
  <2>3. walk[i] = Ancestor(beam_[n], i)
    BY <1>4, <1>7, <2>1, <2>2, Zenon
  <2> QED
    BY <2>3 DEF i
<1>10. \A j \in Nat : j \in T
  <2> HIDE DEF T
  <2> QED
    BY <1>8, <1>9, SetInduction, Zenon
<1>11. rows - step \in Nat /\ rows - (rows - step) = step
  BY <1>2
<1>12. walk[rows - (rows - step)] = Ancestor(beam_[n], rows - (rows - step))
  BY <1>10, <1>11
<1> QED
  BY <1>1, <1>11, <1>12, SMTT(60)
LEMMA LineageFollows ==
  ASSUME IndInv
  PROVE  LineageFound
<1> SUFFICES ASSUME beam_index_history_ # <<>>, NEW i \in 0 .. max_size_ - 1,
                    NEW step \in 0 .. num_steps_
             PROVE  FindPreviousIndex(i, step) =
                      IF i \notin Slots THEN -1
                      ELSE IF step = 0 THEN At(beam_, i).parent_beam_index_
                      ELSE At(At(beam_, i).slots, step - 1)
  BY DEF LineageFound
<1> DEFINE n == i + 1
           s == beam_[n]
           rows == Len(beam_index_history_)
<1>1. max_size_ \in Nat \ {0} /\ num_steps_ \in Nat /\ Len(beam_) \in Nat /\ i \in Nat
  BY DEF IndInv, Types
<1>2. i \in Slots <=> n \in 1 .. Len(beam_)
  BY <1>1 DEF Slots
<1>3. (IF step = 0 THEN At(beam_, i).parent_beam_index_ ELSE At(At(beam_, i).slots, step - 1))
        = Ancestor(s, step)
  <2>1. step - 1 + 1 = step
    BY <1>1
  <2> QED
    BY <2>1 DEF Ancestor, At
<1>4. CASE max_size_ = 1
  <2>1. FindPreviousIndex(i, step) = 0
    BY <1>1, <1>4 DEF FindPreviousIndex
  <2>2. Len(beam_) = 1
    BY <1>4 DEF IndInv, HistoryFits
  <2>3. n \in 1 .. Len(beam_)
    BY <1>4, <2>2
  <2>4. Index = {0}
    BY <1>4 DEF Index
  <2>5. s.parent_beam_index_ = 0 /\ s.slots \in Seq(Index) /\ Len(s.slots) = num_steps_ + 1
    <3>1. StateType(s)
      BY <2>3 DEF IndInv, Types
    <3>2. s.parent_beam_index_ \in Index /\ s.slots \in Seq(Index) /\ Len(s.slots) = num_steps_ + 1
      BY <3>1, Zenon DEF StateType
    <3> QED
      BY <2>4, <3>2, SMTT(60)
  <2> HIDE DEF s
  <2>6. step # 0 => s.slots[step] = 0
    <3> SUFFICES ASSUME step # 0
                 PROVE  s.slots[step] = 0
      OBVIOUS
    <3>1. step \in 1 .. Len(s.slots)
      BY <1>1, <2>5
    <3>2. s.slots[step] \in Index
      BY <2>5, <3>1, ElementOfSeq, Zenon
    <3> QED
      BY <2>4, <3>2, SMTT(60)
  <2>7. Ancestor(s, step) = 0
    BY <2>5, <2>6, SMTT(60) DEF Ancestor
  <2> QED
    BY <1>2, <1>3, <2>1, <2>3, <2>7, SMTT(60)
<1>5. CASE max_size_ # 1
  <2>1. max_size_ > 1
    BY <1>1, <1>5
  <2>2. rows = num_steps_ + 1 /\ num_steps_ = rows - 1
    BY <1>1, <1>5, SMTT(60) DEF IndInv, HistoryFits
  <2>3. At(beam_index_history_[rows], i) = beam_index_history_[num_steps_ + 1][n]
    BY <2>2 DEF At
  <2>4. CASE n \notin 1 .. Len(beam_)
    <3>1. n \in Len(beam_) + 1 .. max_size_
      BY <1>1, <2>4, SMTT(60)
    <3>2. At(beam_index_history_[rows], i) = -1
      BY <2>1, <2>3, <3>1, SMTT(60) DEF IndInv, LineageFits
    <3>3. FindPreviousIndex(i, step) = -1
      BY <2>1, <2>2, <3>2, SMTT(60) DEF FindPreviousIndex
    <3> QED
      BY <1>2, <2>4, <3>3, SMTT(60)
  <2>5. CASE n \in 1 .. Len(beam_)
    <3>1. Ancestor(s, num_steps_ + 1) = i
      <4>1. s.slots[num_steps_ + 1] = n - 1 /\ num_steps_ + 1 # 0 /\ n - 1 = i
        BY <1>1, <2>5 DEF IndInv, LineageFits
      <4> QED
        BY <4>1, SMTT(60) DEF Ancestor
    <3>2. num_steps_ \in 0 .. num_steps_
      BY <1>1
    <3>3. At(At(beam_index_history_, num_steps_), i) \in Index
      BY <2>1, <2>5, <3>1, <3>2, AncestorOfRow, SMTT(60)
    <3>4. At(beam_index_history_[rows], i) # -1
      <4>1. At(beam_index_history_, num_steps_) = beam_index_history_[rows]
        BY <2>2 DEF At
      <4>2. At(beam_index_history_[rows], i) \in Index
        BY <3>3, <4>1
      <4> QED
        BY <1>1, <4>2 DEF Index
    <3>5. Walk(i, step) = Ancestor(s, step)
      <4>1. n - 1 = i
        BY <1>1
      <4>2. Walk(n - 1, step) = Ancestor(s, step)
        BY <2>1, <2>5, WalkFinds, Zenon
      <4> QED
        BY <4>1, <4>2
    <3>6. Ancestor(s, step) \in Index
      BY <2>1, <2>5, AncestorOfRow, SMTT(60)
    <3>7. ~(Walk(i, step) < 0)
      BY <1>1, <3>5, <3>6, SMTT(60) DEF Index
    <3>8. FindPreviousIndex(i, step) = Walk(i, step)
      BY <1>1, <2>1, <2>2, <3>4, <3>7, SMTT(60) DEF FindPreviousIndex
    <3> QED
      BY <1>2, <1>3, <2>5, <3>5, <3>8, SMTT(60)
  <2> QED
    BY <2>4, <2>5
<1> QED
  BY <1>4, <1>5

-----------------------------------------------------------------------------
(* The inductive invariant.  LineageFound follows from it because every row of *)
(* the history leads one step back on the lineage of every state (LineageFits), *)
(* which FindPreviousIndex's loop repeats.                                    *)
THEOREM BeamInvariant == Spec => []IndInv
<1>1. Init => IndInv
  <2> SUFFICES ASSUME Init
               PROVE  IndInv
    OBVIOUS
  <2>1. Empty
    BY Zenon DEF Init, Empty
  <2> QED
    BY <2>1, EmptyFits, Zenon
<1>2. IndInv /\ [Next]_vars => IndInv'
  <2> SUFFICES ASSUME IndInv, [Next]_vars
               PROVE  IndInv'
    OBVIOUS
  <2>1. CASE InitBeam
    BY <2>1, InitBeamKeeps
  <2>2. CASE AdvanceFromPrediction
    <3>1. PICK matrix \in [Slots \X Actions -> Entries] :
            IF max_size_ = 1 THEN FastAdvanceFromPrediction(matrix)
                             ELSE BeamAdvanceFromPrediction(matrix)
      BY <2>2, Zenon DEF AdvanceFromPrediction
    <3>2. num_steps_ < MaxSteps /\ ~IsTerminal /\ UNCHANGED <<max_size_, track_gold_>>
      BY <2>2, Zenon DEF AdvanceFromPrediction
    <3>3. CASE max_size_ = 1
      BY <3>1, <3>2, <3>3, FastAdvanceKeeps, Zenon
    <3>4. CASE max_size_ # 1
      BY <3>1, <3>2, <3>4, BeamAdvanceKeeps, Zenon
    <3> QED
      BY <3>3, <3>4
  <2>3. CASE AdvanceFromOracle
    BY <2>3, OracleKeeps
  <2>4. CASE Reset \/ SetMaxSize
    <3>1. Empty'
      BY <2>4, Zenon DEF Reset, SetMaxSize, Clear, Empty, IndInv, Types
    <3> QED
      BY <3>1, EmptyFits, PTL
  <2>5. CASE UNCHANGED vars
    BY <2>5, StutterKeeps
  <2> QED
    BY <2>1, <2>2, <2>3, <2>4, <2>5, SMTT(60) DEF Next
<1> QED
  BY <1>1, <1>2, PTL DEF Spec
(* LineageFound: for every transition system, beam size and mix of predictions, *)
(* failed predictions and oracle steps, FindPreviousIndex answers with the slot *)
(* that the ancestor of a state really had, and none of its CHECKs fails.        *)
THEOREM BeamLineage == Spec => []LineageFound
<1>1. IndInv => LineageFound
  BY LineageFollows
<1> QED
  BY <1>1, BeamInvariant, PTL

(* KeepsTheBest: what is in the beam after BeamAdvanceFromPrediction is sorted,  *)
(* as large as the allowed transitions make it, and no allowed transition that   *)
(* was dropped scored above any of it.                                         *)
THEOREM BeamKeepsTheBest == Spec => []KeepsTheBest
<1>1. IndInv => KeepsTheBest
  BY DEF IndInv
<1> QED
  BY <1>1, BeamInvariant, PTL

(* GoldExact: a state carries the gold flag just when it was seeded with it and  *)
(* every action of its path was one of the oracle's.                           *)
THEOREM BeamGoldExact == Spec => []GoldExact
<1>1. IndInv => GoldExact
  <2> SUFFICES ASSUME IndInv, NEW s \in Range(beam_)
               PROVE  s.is_gold_ <=> s.seeded /\ OnOracle(s.path)
    BY Zenon DEF GoldExact, OnOracle
  <2>1. PICK n \in 1 .. Len(beam_) : s = beam_[n]
    BY DEF IndInv, Types, Range
  <2> QED
    BY <2>1, Zenon DEF IndInv, GoldFits
<1> QED
  BY <1>1, BeamInvariant, PTL
=============================================================================
