--------------------------- MODULE SequenceLemmas ---------------------------
(***************************************************************************)
(* Facts the other proofs keep needing: least elements, induction over an  *)
(* interval stated with a set, and what inserting and removing an element  *)
(* does to each position of a sequence.                                    *)
(***************************************************************************)
EXTENDS Integers, SequencesExt, SequenceTheorems, NaturalsInduction,
        WellFoundedInduction, TLAPS

(* A nonempty set of numbers has a least element, and Min is it. *)
LEMMA LeastNat ==
  ASSUME NEW T \in SUBSET Nat, T # {}
  PROVE  /\ Min(T) \in T
         /\ \A y \in T : Min(T) <= y
<1> DEFINE R == {ss \in Nat \X Nat : ss[1] < ss[2]}
<1>1. IsWellFoundedOn(R, Nat)
  BY NatLessThanWellFounded DEF OpToRel
<1>2. PICK x \in T : \A y \in T : ~(<<y, x>> \in R)
  BY <1>1, WFMin
<1>3. ASSUME NEW y \in T PROVE x =< y
  <2>1. <<y, x>> \in Nat \X Nat /\ x \in Nat /\ y \in Nat
    OBVIOUS
  <2>2. y < x => <<y, x>> \in R
    BY <2>1
  <2> HIDE DEF R
  <2>3. QED
    BY <1>2, <2>1, <2>2
<1>4. QED
  BY <1>3 DEF Min

(* Induction from 0 to n: a set that contains 0 and with each number the   *)
(* next one contains the interval.                                         *)
LEMMA IntervalInduction ==
  ASSUME NEW n \in Nat, NEW T, 0 \in T,
         \A k \in 1 .. n : k - 1 \in T => k \in T
  PROVE  \A k \in 0 .. n : k \in T
<1> DEFINE Bad == {k \in 0 .. n : k \notin T}
<1> SUFFICES ASSUME Bad # {} PROVE FALSE
  OBVIOUS
<1>1. Bad \in SUBSET Nat
  OBVIOUS
<1>2. PICK k \in Bad : \A j \in Bad : k <= j
  BY <1>1, LeastNat
<1>3. k \in 1 .. n /\ k - 1 \notin Bad /\ k - 1 \in 0 .. n
  BY <1>2
<1>4. QED
  BY <1>3

(* RemoveAt takes out position k and moves the rest down by one. *)
LEMMA RemoveAtProperties ==
  ASSUME NEW S, NEW s \in Seq(S), NEW k \in 1 .. Len(s)
  PROVE  /\ RemoveAt(s, k) \in Seq(S)
         /\ Len(RemoveAt(s, k)) = Len(s) - 1
         /\ \A j \in 1 .. (Len(s) - 1) : RemoveAt(s, k)[j] = IF j < k THEN s[j] ELSE s[j + 1]
<1> DEFINE u == SubSeq(s, 1, k - 1)
           v == SubSeq(s, k + 1, Len(s))
<1>1. /\ u \in Seq(S) /\ Len(u) = k - 1 /\ \A j \in 1 .. (k - 1) : u[j] = s[j]
  BY SubSeqProperties
<1>2. /\ v \in Seq(S) /\ Len(v) = Len(s) - k
      /\ \A j \in 1 .. (Len(s) - k) : v[j] = s[k + j]
  BY SubSeqProperties
<1> HIDE DEF u, v
<1>3. /\ u \o v \in Seq(S) /\ Len(u \o v) = Len(u) + Len(v)
      /\ \A j \in 1 .. (Len(u) + Len(v)) :
           (u \o v)[j] = IF j <= Len(u) THEN u[j] ELSE v[j - Len(u)]
  BY <1>1, <1>2, ConcatProperties
<1>4. RemoveAt(s, k) = u \o v
  BY DEF RemoveAt, u, v
<1>5. ASSUME NEW j \in 1 .. (Len(s) - 1)
      PROVE  (u \o v)[j] = IF j < k THEN s[j] ELSE s[j + 1]
  <2>1. Len(s) \in Nat /\ j \in 1 .. (Len(u) + Len(v))
    BY <1>1, <1>2
  <2>2. CASE j < k
    BY <1>1, <1>3, <2>1, <2>2
  <2>3. CASE ~(j < k)
    <3>1. j - (k - 1) \in 1 .. (Len(s) - k) /\ k + (j - (k - 1)) = j + 1
      BY <2>1, <2>3
    <3>2. v[j - (k - 1)] = s[j + 1]
      BY <1>2, <3>1
    <3>3. QED
      BY <1>1, <1>3, <2>1, <2>3, <3>2
  <2>4. QED
    BY <2>2, <2>3
<1>6. Len(u \o v) = Len(s) - 1
  BY <1>1, <1>2, <1>3
<1>7. QED
  BY <1>3, <1>4, <1>5, <1>6

(* InsertAt puts the element at position k and moves the rest up by one. *)
LEMMA InsertAtProperties ==
  ASSUME NEW S, NEW s \in Seq(S), NEW k \in 1 .. (Len(s) + 1), NEW e \in S
  PROVE  /\ InsertAt(s, k, e) \in Seq(S)
         /\ Len(InsertAt(s, k, e)) = Len(s) + 1
         /\ \A j \in 1 .. (Len(s) + 1) :
              InsertAt(s, k, e)[j] = IF j < k THEN s[j] ELSE IF j = k THEN e ELSE s[j - 1]
<1> DEFINE u == SubSeq(s, 1, k - 1)
           v == SubSeq(s, k, Len(s))
           w == u \o <<e>>
<1>1. /\ u \in Seq(S) /\ Len(u) = k - 1 /\ \A j \in 1 .. (k - 1) : u[j] = s[j]
  BY SubSeqProperties
<1>2. /\ v \in Seq(S) /\ Len(v) = Len(s) - k + 1
      /\ \A j \in 1 .. (Len(s) - k + 1) : v[j] = s[k + j - 1]
  BY SubSeqProperties
<1>3. /\ w \in Seq(S) /\ Len(w) = k
      /\ \A j \in 1 .. k : w[j] = IF j < k THEN s[j] ELSE e
  <2>1. <<e>> \in Seq(S) /\ Len(<<e>>) = 1 /\ <<e>>[1] = e
    OBVIOUS
  <2>2. /\ w \in Seq(S) /\ Len(w) = Len(u) + 1
        /\ \A j \in 1 .. (Len(u) + 1) : w[j] = IF j <= Len(u) THEN u[j] ELSE <<e>>[j - Len(u)]
    BY <1>1, <2>1, ConcatProperties
  <2> HIDE DEF w
  <2>3. QED
    BY <1>1, <2>1, <2>2
<1> HIDE DEF u, v, w
<1>4. /\ w \o v \in Seq(S) /\ Len(w \o v) = Len(s) + 1
      /\ \A j \in 1 .. (Len(s) + 1) : (w \o v)[j] = IF j <= k THEN w[j] ELSE v[j - k]
  BY <1>2, <1>3, ConcatProperties
<1>5. InsertAt(s, k, e) = w \o v
  BY DEF InsertAt, u, v, w
<1>6. \A j \in 1 .. (Len(s) + 1) : j > k => j - k \in 1 .. (Len(s) - k + 1)
  OBVIOUS
<1>7. QED
  BY <1>2, <1>3, <1>4, <1>5, <1>6
=============================================================================
