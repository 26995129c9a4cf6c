---------------------------- MODULE SequenceFacts ---------------------------
(***************************************************************************)
(* Induction over natural numbers and over sequences in a first-order      *)
(* form, the property to be proved being the set of the numbers, or of     *)
(* the sequences, that have it; and facts about parts of sequences.  The   *)
(* proofs about the frame streams build on them.                           *)
(***************************************************************************)
EXTENDS Integers, Sequences, TLAPS
LOCAL INSTANCE WellFoundedInduction

(* A set of natural numbers that is not empty has a least element.         *)
LEMMA NatLeast ==
    ASSUME NEW T \in SUBSET Nat, T # {}
    PROVE  \E m \in T : \A k \in T : m <= k
  <1> DEFINE R == OpToRel(<, Nat)
  <1>1. IsWellFoundedOn(R, Nat)
    BY NatLessThanWellFounded
  <1>2. \A i, j \in Nat : i < j => <<i, j>> \in R
    BY DEF OpToRel
  <1> HIDE DEF R
  <1>3. PICK m \in T : \A k \in T : <<k, m>> \notin R
    BY <1>1, WFMin
  <1>4. ASSUME NEW k \in T PROVE m <= k
    <2>1. k \in Nat /\ m \in Nat /\ ~(k < m)
      BY <1>2, <1>3
    <2> QED BY <2>1
  <1> QED BY <1>4

(* A set with 0 and with n + 1 for every n in it has all natural numbers.  *)
LEMMA NatSetInduction ==
    ASSUME NEW T, 0 \in T, \A n \in Nat : n \in T => n + 1 \in T
    PROVE  \A n \in Nat : n \in T
  <1> DEFINE C == Nat \ T
  <1> SUFFICES ASSUME C # {} PROVE FALSE
    OBVIOUS
  <1>1. C \in SUBSET Nat
    OBVIOUS
  <1> HIDE DEF C
  <1>2. PICK m \in C : \A k \in C : m <= k
    BY <1>1, NatLeast
  <1>3. m # 0 /\ m \in Nat /\ m \notin T
    BY <1>2 DEF C
  <1>4. m - 1 \in Nat /\ m - 1 \notin C
    BY <1>2, <1>3
  <1>5. m - 1 \in T
    BY <1>4 DEF C
  <1> QED BY <1>3, <1>4, <1>5

(* A set with the empty sequence, and with every sequence whose tail it    *)
(* has, has all sequences.                                                 *)
LEMMA SeqTailInduction ==
    ASSUME NEW S, NEW T, <<>> \in T,
           \A s \in Seq(S) : s # <<>> /\ Tail(s) \in T => s \in T
    PROVE  \A s \in Seq(S) : s \in T
  <1> DEFINE N == {n \in Nat : \A s \in Seq(S) : Len(s) = n => s \in T}
  <1>1. 0 \in N
    <2>1. ASSUME NEW s \in Seq(S), Len(s) = 0 PROVE s \in T
      <3>1. s = <<>>
        BY <2>1
      <3> QED BY <3>1
    <2> QED BY <2>1
  <1>2. ASSUME NEW n \in Nat, n \in N PROVE n + 1 \in N
    <2>1. ASSUME NEW s \in Seq(S), Len(s) = n + 1 PROVE s \in T
      <3>1. s # <<>> /\ Tail(s) \in Seq(S) /\ Len(Tail(s)) = n
        BY <2>1
      <3>2. Tail(s) \in T
        BY <1>2, <3>1
      <3> QED BY <3>1, <3>2
    <2> QED BY <2>1
  <1> HIDE DEF N
  <1>3. \A n \in Nat : n \in N
    BY <1>1, <1>2, NatSetInduction
  <1>4. \A s \in Seq(S) : Len(s) \in Nat
    OBVIOUS
  <1> QED BY <1>3, <1>4 DEF N

(* The empty sequence adds nothing on either side.                         *)
LEMMA EmptyAddsNothing ==
    ASSUME NEW S, NEW s \in Seq(S)
    PROVE  s \o <<>> = s /\ <<>> \o s = s
  OBVIOUS

(* Sequences in a row can be grouped either way.                           *)
LEMMA Regroups ==
    ASSUME NEW S, NEW s \in Seq(S), NEW t \in Seq(S), NEW u \in Seq(S)
    PROVE  (s \o t) \o u = s \o (t \o u)
  OBVIOUS

(* The first m + n elements are the first m and the next n.                *)
LEMMA FirstParts ==
    ASSUME NEW S, NEW s \in Seq(S), NEW m \in Nat, NEW n \in Nat,
           m + n <= Len(s)
    PROVE  SubSeq(s, 1, m) \o SubSeq(s, m + 1, m + n) = SubSeq(s, 1, m + n)
  OBVIOUS

(* Sequences of the same length with the same elements are equal.          *)
LEMMA SameElements ==
    ASSUME NEW S, NEW s \in Seq(S), NEW t \in Seq(S), Len(s) = Len(t),
           \A i \in 1..Len(s) : s[i] = t[i]
    PROVE  s = t
  OBVIOUS

(* The elements of s \o t.                                                 *)
LEMMA Elements ==
    ASSUME NEW S, NEW s \in Seq(S), NEW t \in Seq(S)
    PROVE  /\ s \o t \in Seq(S) /\ Len(s \o t) = Len(s) + Len(t)
           /\ \A i \in 1..(Len(s) + Len(t)) :
                 (s \o t)[i] = IF i <= Len(s) THEN s[i] ELSE t[i - Len(s)]
  OBVIOUS

(* The head and the tail of s \o t, and of an element before s.            *)
LEMMA FirstOfConcat ==
    ASSUME NEW S, NEW s \in Seq(S), NEW t \in Seq(S), s # <<>>
    PROVE  s \o t # <<>> /\ (s \o t)[1] = s[1] /\ Tail(s \o t) = Tail(s) \o t
  OBVIOUS

(* An element put before a sequence.                                       *)
LEMMA FirstBefore ==
    ASSUME NEW S, NEW e \in S, NEW s \in Seq(S)
    PROVE  /\ <<e>> \o s \in Seq(S) /\ (<<e>> \o s)[1] = e
           /\ Tail(<<e>> \o s) = s
  OBVIOUS

(* What is left of s after n elements.                                     *)
LEMMA Dropped ==
    ASSUME NEW S, NEW s \in Seq(S), NEW n \in 0..Len(s)
    PROVE  /\ SubSeq(s, n + 1, Len(s)) \in Seq(S)
           /\ Len(SubSeq(s, n + 1, Len(s))) = Len(s) - n
           /\ \A i \in 1..(Len(s) - n) : SubSeq(s, n + 1, Len(s))[i] = s[n + i]
  OBVIOUS

(* What is left of s \o t after n elements of s.                           *)
LEMMA DropOfConcat ==
    ASSUME NEW S, NEW s \in Seq(S), NEW t \in Seq(S), NEW n \in 0..Len(s)
    PROVE  SubSeq(s, n + 1, Len(s)) \o t = SubSeq(s \o t, n + 1, Len(s) + Len(t))
  <1> DEFINE c == s \o t
             a == SubSeq(s, n + 1, Len(s))
             b == SubSeq(c, n + 1, Len(c))
  <1>1. /\ c \in Seq(S) /\ Len(c) = Len(s) + Len(t)
        /\ \A i \in 1..(Len(s) + Len(t)) :
              c[i] = IF i <= Len(s) THEN s[i] ELSE t[i - Len(s)]
    BY Elements
  <1> HIDE DEF c
  <1>2. /\ a \in Seq(S) /\ Len(a) = Len(s) - n
        /\ \A i \in 1..(Len(s) - n) : a[i] = s[n + i]
    BY Dropped
  <1>3. /\ b \in Seq(S) /\ Len(b) = Len(c) - n
        /\ \A i \in 1..(Len(c) - n) : b[i] = c[n + i]
    <2>1. n \in 0..Len(c)
      BY <1>1
    <2> QED BY <1>1, <2>1, Dropped
  <1> HIDE DEF a, b
  <1>4. /\ a \o t \in Seq(S) /\ Len(a \o t) = Len(a) + Len(t)
        /\ \A i \in 1..(Len(a) + Len(t)) :
              (a \o t)[i] = IF i <= Len(a) THEN a[i] ELSE t[i - Len(a)]
    BY <1>2, Elements
  <1>5. ASSUME NEW i \in 1..Len(a \o t) PROVE (a \o t)[i] = b[i]
    <2> DEFINE j == n + i
    <2>1. /\ i \in 1..(Len(c) - n) /\ j \in 1..(Len(s) + Len(t))
          /\ i \in 1..(Len(a) + Len(t))
          /\ i <= Len(a) => i \in 1..(Len(s) - n) /\ j <= Len(s)
          /\ ~(i <= Len(a)) => ~(j <= Len(s)) /\ j - Len(s) = i - Len(a)
      BY <1>1, <1>2, <1>4
    <2>2. b[i] = c[j] /\ (i <= Len(a) => a[i] = s[j])
      BY <1>2, <1>3, <2>1, Zenon
    <2> HIDE DEF j
    <2>3. c[j] = IF j <= Len(s) THEN s[j] ELSE t[j - Len(s)]
      BY <1>1, <2>1, Zenon
    <2>4. (a \o t)[i] = IF i <= Len(a) THEN a[i] ELSE t[i - Len(a)]
      BY <1>4, <2>1, Zenon
    <2> QED BY <2>1, <2>2, <2>3, <2>4, Zenon
  <1>6. Len(a \o t) = Len(b)
    BY <1>1, <1>2, <1>3, <1>4
  <1>7. a \o t = b
    BY <1>3, <1>4, <1>5, <1>6, SameElements
  <1> QED BY <1>1, <1>7 DEF a, b, c

(* Dropping m elements and then n drops m + n.                             *)
LEMMA DropTwice ==
    ASSUME NEW S, NEW s \in Seq(S), NEW m \in 0..Len(s), NEW n \in 0..(Len(s) - m)
    PROVE  /\ Len(SubSeq(s, m + 1, Len(s))) = Len(s) - m
           /\ SubSeq(s, m + 1, Len(s)) \in Seq(S)
           /\ SubSeq(SubSeq(s, m + 1, Len(s)), n + 1, Len(s) - m)
                = SubSeq(s, m + n + 1, Len(s))
  <1> DEFINE a == SubSeq(s, m + 1, Len(s))
             b == SubSeq(a, n + 1, Len(s) - m)
             c == SubSeq(s, m + n + 1, Len(s))
  <1>1. /\ a \in Seq(S) /\ Len(a) = Len(s) - m
        /\ \A i \in 1..(Len(s) - m) : a[i] = s[m + i]
    OBVIOUS
  <1>2. /\ c \in Seq(S) /\ Len(c) = Len(s) - m - n
        /\ \A i \in 1..(Len(s) - m - n) : c[i] = s[m + n + i]
    OBVIOUS
  <1> HIDE DEF a, c
  <1>3. /\ b \in Seq(S) /\ Len(b) = Len(s) - m - n
        /\ \A i \in 1..(Len(s) - m - n) : b[i] = a[n + i]
    BY <1>1
  <1> HIDE DEF b
  <1>4. \A i \in 1..Len(b) : b[i] = c[i]
    BY <1>1, <1>2, <1>3
  <1>5. b = c
    BY <1>2, <1>3, <1>4, SameElements
  <1> QED BY <1>1, <1>5 DEF a, b, c
=============================================================================
