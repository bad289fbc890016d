--------------------------- MODULE DataLemmas --------------------------------
(***************************************************************************)
(* Induction over the loops of the code, in a form that names sets instead of  *)
(* predicates: a set of naturals that contains 0 and every successor contains   *)
(* all of them, and a loop over 1 .. n that starts from a value and applies a    *)
(* function to it has a value after every iteration.  And what inserting an      *)
(* element into a sequence gives.                                             *)
(***************************************************************************)
EXTENDS Integers, Sequences, WellFoundedInduction, SequenceTheorems, TLAPS

(* A nonempty set of natural numbers has a least element. *)
LEMMA LeastElement ==
  ASSUME NEW T, T \subseteq Nat, T # {}
  PROVE  \E x \in T : \A y \in T : x <= y
<1> DEFINE R == OpToRel(<, Nat)
<1>1. \A x, y \in Nat : y < x => <<y, x>> \in R
  BY DEF OpToRel
<1>2. IsWellFoundedOn(R, Nat)
  BY NatLessThanWellFounded, Zenon
<1> HIDE DEF R
<1>3. PICK x \in T : \A y \in T : ~ (<<y, x>> \in R)
  BY <1>2, WFMin, Zenon
<1>4. ASSUME NEW y \in T
      PROVE  x <= y
  <2>1. ~(y < x)
    BY <1>1, <1>3, Zenon
  <2> QED
    BY <2>1
<1> QED
  BY <1>4

(* Induction, for the set of the numbers that have the property. *)
LEMMA SetInduction ==
  ASSUME NEW T, 0 \in T, \A n \in Nat : n \in T => n + 1 \in T
  PROVE  \A n \in Nat : n \in T
<1> SUFFICES ASSUME NEW n \in Nat, n \notin T
             PROVE  FALSE
  OBVIOUS
<1> DEFINE U == Nat \ T
<1>1. PICK x \in U : \A y \in U : x <= y
  <2>1. U \subseteq Nat /\ U # {}
    OBVIOUS
  <2> HIDE DEF U
  <2> QED
    BY <2>1, LeastElement, Zenon
<1>2. x \in Nat /\ x # 0 /\ x - 1 \in Nat /\ x - 1 \in T
  BY <1>1
<1> QED
  BY <1>1, <1>2

(* A loop over 1 .. n: F gives the value after iteration k from the one before. *)
IsLoop(f, base, n, F) == f[0] = base /\ \A k \in 1 .. n : f[k] = F[<<f[k - 1], k>>]
LEMMA LoopExists ==
  ASSUME NEW V, NEW base \in V, NEW n \in Nat, NEW F \in [V \X (1 .. n) -> V]
  PROVE  \E f \in [0 .. n -> V] : IsLoop(f, base, n, F)
<1> DEFINE Done(m, f) == f[0] = base /\ \A k \in 1 .. m : f[k] = F[<<f[k - 1], k>>]
           T == {m \in Nat : m <= n => \E f \in [0 .. m -> V] : Done(m, f)}
<1>1. 0 \in T
  <2> DEFINE f == [k \in 0 .. 0 |-> base]
  <2>1. f \in [0 .. 0 -> V] /\ Done(0, f)
    OBVIOUS
  <2> QED
    BY <2>1, Zenon
<1>2. ASSUME NEW m \in Nat, m \in T
      PROVE  m + 1 \in T
  <2> SUFFICES ASSUME m + 1 <= n
               PROVE  \E f \in [0 .. m + 1 -> V] : Done(m + 1, f)
    OBVIOUS
  <2>1. PICK f \in [0 .. m -> V] : Done(m, f)
    BY <1>2
  <2> DEFINE g == [k \in 0 .. m + 1 |-> IF k = m + 1 THEN F[<<f[m], m + 1>>] ELSE f[k]]
  <2>2. m \in 0 .. m /\ m + 1 \in 1 .. n
    OBVIOUS
  <2>3. F[<<f[m], m + 1>>] \in V
    BY <2>2
  <2>4. g \in [0 .. m + 1 -> V]
    BY <2>3
  <2>5. g[0] = base /\ g[m + 1] = F[<<g[m], m + 1>>]
    <3>1. g[m] = f[m] /\ g[0] = f[0] /\ g[m + 1] = F[<<f[m], m + 1>>]
      OBVIOUS
    <3> HIDE DEF g
    <3> QED
      BY <2>1, <3>1
  <2>6. \A k \in 1 .. m : g[k] = f[k] /\ g[k - 1] = f[k - 1]
    OBVIOUS
  <2>7. \A k \in 1 .. m + 1 : g[k] = F[<<g[k - 1], k>>]
    <3> HIDE DEF g
    <3> TAKE k \in 1 .. m + 1
    <3>1. CASE k = m + 1
      BY <2>5, <3>1
    <3>2. CASE k # m + 1
      <4>1. k \in 1 .. m
        BY <3>2
      <4> QED
        BY <4>1, <2>1, <2>6
    <3> QED
      BY <3>1, <3>2
  <2> HIDE DEF g
  <2> QED
    BY <2>4, <2>5, <2>7
<1>3. n \in T
  <2> HIDE DEF T
  <2> QED
    BY <1>1, <1>2, SetInduction
<1> QED
  BY <1>3 DEF IsLoop

(* A nonempty set of natural numbers up to n has a greatest element. *)
LEMMA GreatestElement ==
  ASSUME NEW n \in Nat, NEW T, T \subseteq 0 .. n, T # {}
  PROVE  \E x \in T : \A y \in T : x >= y
<1> DEFINE U == {m \in 0 .. n : n - m \in T}
<1>1. U \subseteq Nat /\ U # {}
  <2>1. PICK x \in T : TRUE
    BY Zenon
  <2>2. n - x \in U /\ U \subseteq Nat
    BY <2>1
  <2> HIDE DEF U
  <2> QED
    BY <2>2
<1>2. PICK m \in U : \A k \in U : m <= k
  <2> HIDE DEF U
  <2> QED
    BY <1>1, LeastElement, Zenon
<1>3. n - m \in T
  OBVIOUS
<1>4. ASSUME NEW y \in T
      PROVE  n - m >= y
  <2>1. n - y \in U
    OBVIOUS
  <2>2. m <= n - y
    BY <1>2, <2>1
  <2> QED
    BY <2>2
<1> QED
  BY <1>3, <1>4

(* A function on 1 .. n is a sequence of length n. *)
LEMMA TableIsSeq ==
  ASSUME NEW S, NEW n \in Nat, NEW f \in [1 .. n -> S]
  PROVE  f \in Seq(S) /\ Len(f) = n /\ DOMAIN f = 1 .. n
BY SeqDef, LenProperties

(* r is seq with c inserted behind its first b elements. *)
IsInsertion(r, seq, b, c) ==
  /\ Len(r) = Len(seq) + 1
  /\ \A n \in 1 .. b : r[n] = seq[n]
  /\ r[b + 1] = c
  /\ \A n \in b + 2 .. Len(seq) + 1 : r[n] = seq[n - 1]
LEMMA Inserted ==
  ASSUME NEW S, NEW seq \in Seq(S), NEW c \in S, NEW b \in 0 .. Len(seq)
  PROVE  LET r == SubSeq(seq, 1, b) \o <<c>> \o SubSeq(seq, b + 1, Len(seq))
         IN  r \in Seq(S) /\ IsInsertion(r, seq, b, c)
<1> DEFINE front == SubSeq(seq, 1, b)
           back == SubSeq(seq, b + 1, Len(seq))
           both == front \o <<c>>
           r == both \o back
<1>1. Len(seq) \in Nat /\ b \in Nat /\ \A i \in 1 .. Len(seq) : seq[i] \in S
  BY LenProperties
<1>2. front \in Seq(S) /\ Len(front) = b /\ \A i \in 1 .. b : front[i] = seq[i]
  BY <1>1, SubSeqProperties
<1>3. /\ back \in Seq(S) /\ Len(back) = Len(seq) - b
      /\ \A i \in 1 .. Len(seq) - b : back[i] = seq[b + i]
  BY <1>1, SubSeqProperties
<1>4. <<c>> \in Seq(S) /\ Len(<<c>>) = 1 /\ <<c>>[1] = c
  OBVIOUS
<1> HIDE DEF front, back
<1>5. /\ both \in Seq(S) /\ Len(both) = b + 1
      /\ \A i \in 1 .. b + 1 : both[i] = IF i <= b THEN front[i] ELSE c
  BY <1>1, <1>2, <1>4, ConcatProperties
<1> HIDE DEF both
<1>6. /\ r \in Seq(S) /\ Len(r) = Len(seq) + 1
      /\ \A i \in 1 .. Len(seq) + 1 : r[i] = IF i <= b + 1 THEN both[i] ELSE back[i - (b + 1)]
  BY <1>1, <1>3, <1>5, ConcatProperties
<1> HIDE DEF r
<1>7. \A n \in 1 .. b : r[n] = seq[n]
  BY <1>1, <1>2, <1>5, <1>6
<1>8. r[b + 1] = c
  BY <1>1, <1>5, <1>6
<1>9. ASSUME NEW n \in b + 2 .. Len(seq) + 1
      PROVE  r[n] = seq[n - 1]
  <2>1. n - (b + 1) \in 1 .. Len(seq) - b /\ b + (n - (b + 1)) = n - 1
    BY <1>1
  <2>2. back[n - (b + 1)] = seq[n - 1]
    BY <2>1, <1>3
  <2>3. r[n] = back[n - (b + 1)]
    BY <1>1, <1>6
  <2> QED
    BY <2>2, <2>3
<1>10. r \in Seq(S) /\ IsInsertion(r, seq, b, c)
  BY <1>6, <1>7, <1>8, <1>9 DEF IsInsertion
<1> QED
  BY <1>10 DEF r, front, back, both

(* What appending an element to a sequence gives, and what it leaves alone. *)
LEMMA Appended ==
  ASSUME NEW S, NEW seq \in Seq(S), NEW c \in S
  PROVE  /\ Append(seq, c) \in Seq(S)
         /\ Len(Append(seq, c)) = Len(seq) + 1
         /\ \A n \in 1 .. Len(seq) : Append(seq, c)[n] = seq[n]
         /\ Append(seq, c)[Len(seq) + 1] = c
OBVIOUS

LEMMA AppendedPrefix ==
  ASSUME NEW S, NEW seq \in Seq(S), NEW c \in S, NEW n \in 0 .. Len(seq)
  PROVE  SubSeq(Append(seq, c), 1, n) = SubSeq(seq, 1, n)
<1> DEFINE r == Append(seq, c)
<1>1. Len(seq) \in Nat
  BY LenProperties
<1>2. /\ r \in Seq(S) /\ Len(r) = Len(seq) + 1
      /\ \A i \in 1 .. Len(seq) : r[i] = seq[i]
  BY Appended
<1> HIDE DEF r
<1>3. ASSUME NEW i \in 1 .. n
      PROVE  seq[i] \in S /\ r[i] = seq[i]
  BY <1>1, <1>2, ElementOfSeq
<1>4. /\ SubSeq(seq, 1, n) \in Seq(S) /\ Len(SubSeq(seq, 1, n)) = n
      /\ \A i \in 1 .. n : SubSeq(seq, 1, n)[i] = seq[i]
  BY <1>1, <1>3, SubSeqProperties
<1>5. /\ SubSeq(r, 1, n) \in Seq(S) /\ Len(SubSeq(r, 1, n)) = n
      /\ \A i \in 1 .. n : SubSeq(r, 1, n)[i] = r[i]
  BY <1>1, <1>3, SubSeqProperties
<1> DEFINE t == SubSeq(r, 1, n)
           u == SubSeq(seq, 1, n)
<1> HIDE DEF t, u
<1>6. t = u
  BY <1>3, <1>4, <1>5, SeqEqual DEF t, u
<1> QED
  BY <1>6 DEF t, u, r
=============================================================================
