----------------------------- MODULE SeqLemmas -----------------------------
(***************************************************************************)
(* What the proofs need to know of the sequences the visitors keep as      *)
(* stacks: the chain of symbol tables and the visits in progress.          *)
(***************************************************************************)
EXTENDS Integers, SequencesExt, SequenceTheorems, WellFoundedInduction, TLAPS

(* A sequence that is not empty has a length of at least one.              *)
LEMMA LenPositive ==
    ASSUME NEW S, NEW s \in Seq(S), s # <<>>
    PROVE  Len(s) \in Nat /\ Len(s) >= 1
  <1>1. Len(s) \in Nat \ {0} BY EmptySeq
  <1> QED BY <1>1

(* A prefix of a sequence: where it is, how long, and its elements.        *)
LEMMA PrefixLemma ==
    ASSUME NEW S, NEW s \in Seq(S), NEW n \in 0..Len(s)
    PROVE  /\ SubSeq(s, 1, n) \in Seq(S)
           /\ Len(SubSeq(s, 1, n)) = n
           /\ \A i \in 1..n : SubSeq(s, 1, n)[i] = s[i]
  <1>1. Len(s) \in Nat BY LenProperties
  <1>2. n \in Int /\ 0 <= n /\ n <= Len(s) BY <1>1
  <1>3. \A i \in 1..n : s[i] \in S BY <1>1, <1>2, ElementOfSeq
  <1>4. SubSeq(s, 1, n) \in Seq(S) BY <1>2, <1>3, SubSeqProperties
  <1>5. Len(SubSeq(s, 1, n)) = n BY <1>1, <1>2
  <1>6. \A i \in 1..n : SubSeq(s, 1, n)[i] = s[i] BY <1>1, <1>2
  <1> QED BY <1>4, <1>5, <1>6

(* A stack without its top.                                                *)
LEMMA FrontLemma ==
    ASSUME NEW S, NEW s \in Seq(S), s # <<>>
    PROVE  /\ Front(s) \in Seq(S)
           /\ Len(Front(s)) = Len(s) - 1
           /\ \A i \in 1..(Len(s) - 1) : Front(s)[i] = s[i]
  <1>1. Len(s) \in Nat /\ Len(s) >= 1 BY LenPositive
  <1>2. Len(s) - 1 \in 0..Len(s) BY <1>1
  <1>3. Front(s) = SubSeq(s, 1, Len(s) - 1) BY DEF Front
  <1> QED BY <1>2, <1>3, PrefixLemma

(* The top of a stack.                                                     *)
LEMMA LastLemma ==
    ASSUME NEW S, NEW s \in Seq(S), s # <<>>
    PROVE  Last(s) \in S /\ Last(s) = s[Len(s)] /\ Len(s) \in 1..Len(s)
  <1>1. Len(s) \in Nat /\ Len(s) >= 1 BY LenPositive
  <1>2. Len(s) \in 1..Len(s) BY <1>1
  <1> QED BY <1>2, ElementOfSeq DEF Last

(* A push.                                                                 *)
LEMMA PushLemma ==
    ASSUME NEW S, NEW s \in Seq(S), NEW e \in S
    PROVE  /\ Append(s, e) \in Seq(S)
           /\ Append(s, e) # <<>>
           /\ Len(s) \in Nat
           /\ Len(Append(s, e)) = Len(s) + 1
           /\ \A i \in 1..Len(s) : Append(s, e)[i] = s[i]
           /\ Append(s, e)[Len(s) + 1] = e
  BY AppendProperties, LenProperties

(* A stack whose top is replaced.                                          *)
WithTop(s, e) == [s EXCEPT ![Len(s)] = e]

LEMMA TopLemma ==
    ASSUME NEW S, NEW s \in Seq(S), s # <<>>, NEW e \in S
    PROVE  /\ WithTop(s, e) \in Seq(S)
           /\ WithTop(s, e) # <<>>
           /\ Len(WithTop(s, e)) = Len(s)
           /\ WithTop(s, e)[Len(s)] = e
           /\ Last(WithTop(s, e)) = e
  <1> DEFINE t == WithTop(s, e)
  <1>1. Len(s) \in Nat /\ Len(s) >= 1 BY LenPositive
  <1>2. Len(s) \in 1..Len(s) BY <1>1
  <1>3. /\ t \in Seq(S) /\ Len(t) = Len(s)
        /\ \A i \in 1..Len(s) : t[i] = IF i = Len(s) THEN e ELSE s[i]
    BY <1>2, ExceptSeq DEF WithTop
  <1> HIDE DEF t
  <1>4. t # <<>>
    <2>1. Len(<<>>) = 0 OBVIOUS
    <2>2. Len(t) # 0 BY <1>1, <1>3
    <2> QED BY <2>1, <2>2
  <1>5. t[Len(s)] = e BY <1>2, <1>3
  <1>6. Last(t) = e BY <1>3, <1>5 DEF Last
  <1> QED BY <1>3, <1>4, <1>5, <1>6 DEF t

LEMMA BelowTop ==
    ASSUME NEW S, NEW s \in Seq(S), NEW e \in S, NEW i \in 1..Len(s), i # Len(s)
    PROVE  WithTop(s, e)[i] = s[i]
  <1>1. Len(s) \in Nat BY LenProperties
  <1>2. Len(s) \in 1..Len(s) BY <1>1
  <1> QED BY <1>2, ExceptSeq DEF WithTop

-----------------------------------------------------------------------------
(* The order of the natural numbers, as a relation.                        *)
NatLess == {p \in Nat \X Nat : p[1] < p[2]}

LEMMA LessWellFounded == IsWellFoundedOn(NatLess, Nat)
  <1>1. NatLess = OpToRel(<, Nat) BY DEF NatLess, OpToRel
  <1> QED BY <1>1, NatLessThanWellFounded

(* A bounded set of numbers that is not empty has a largest.               *)
LEMMA LargestOf ==
    ASSUME NEW n \in Nat, NEW S, S \subseteq 0..n, S # {}
    PROVE  \E m \in S : \A k \in S : k <= m
  <1> DEFINE T == {n - k : k \in S}
  <1>1. T \subseteq Nat /\ T # {}
    <2>1. \A k \in S : n - k \in Nat OBVIOUS
    <2>2. PICK k \in S : TRUE OBVIOUS
    <2>3. n - k \in T OBVIOUS
    <2> QED BY <2>1, <2>3
  <1>2. PICK x \in T : \A y \in T : ~ (<<y, x>> \in NatLess)
    <2> HIDE DEF T
    <2> QED BY <1>1, LessWellFounded, WFMin
  <1>3. \A y \in T : ~(y < x) BY <1>1, <1>2 DEF NatLess
  <1>4. PICK m \in S : x = n - m OBVIOUS
  <1>5. ASSUME NEW k \in S PROVE k <= m
    <2>1. n - k \in T OBVIOUS
    <2>2. ~(n - k < n - m) BY <1>3, <1>4, <2>1
    <2>3. m \in 0..n /\ k \in 0..n OBVIOUS
    <2> QED BY <2>2, <2>3
  <1> QED BY <1>5

(* What is so of the first value of a recursive function on 0..N, and of   *)
(* each value if of the one before, is so of the last.                     *)
LEMMA Upward ==
    ASSUME NEW N \in Nat, NEW h, NEW T, h[0] \in T,
           \A i \in 1..N : h[i - 1] \in T => h[i] \in T
    PROVE  h[N] \in T
  <1> DEFINE S == {n \in 0..N : h[n] \in T}
  <1>1. S \subseteq 0..N /\ S # {} /\ 0 \in S OBVIOUS
  <1>2. PICK m \in S : \A n \in S : n <= m BY <1>1, LargestOf
  <1>3. m \in 0..N /\ h[m] \in T BY <1>2
  <1>4. ASSUME m # N PROVE FALSE
    <2>1. m + 1 \in 1..N /\ m + 1 - 1 = m BY <1>3, <1>4
    <2>2. h[m + 1] \in T BY <1>3, <2>1
    <2>3. m + 1 \in S BY <2>1, <2>2
    <2> QED BY <1>2, <1>3, <2>3
  <1> QED BY <1>3, <1>4

(* There is a function that starts at z and goes on by F.                  *)
Recurs(N, T, z, F) ==
    \E g \in [0..N -> T] : g[0] = z /\ \A i \in 1..N : g[i] = F[<<g[i - 1], i>>]

(* A function that is defined by recursion on 0..N is there.               *)
LEMMA Recursion ==
    ASSUME NEW N \in Nat, NEW T, NEW z \in T, NEW F \in [T \X (1..N) -> T]
    PROVE  Recurs(N, T, z, F)
  <1> DEFINE Upto(n) == \E g \in [0..n -> T] : /\ g[0] = z
                                  /\ \A i \in 1..n : g[i] = F[<<g[i - 1], i>>]
             S == {n \in 0..N : Upto(n)}
  <1>1. 0 \in S
    <2> DEFINE g == [i \in 0..0 |-> z]
    <2>1. g \in [0..0 -> T] /\ g[0] = z /\ \A i \in 1..0 : g[i] = F[<<g[i - 1], i>>] OBVIOUS
    <2> HIDE DEF g
    <2>2. Upto(0) BY <2>1
    <2> HIDE DEF Upto
    <2>3. 0 \in 0..N OBVIOUS
    <2> QED BY <2>2, <2>3
  <1>2. S \subseteq 0..N OBVIOUS
  <1> HIDE DEF S
  <1>3. PICK m \in S : \A n \in S : n <= m BY <1>1, <1>2, LargestOf
  <1>4. m \in 0..N /\ Upto(m) BY <1>3 DEF S
  <1>5. ASSUME m # N PROVE FALSE
    <2>1. PICK g \in [0..m -> T] : g[0] = z /\ \A i \in 1..m : g[i] = F[<<g[i - 1], i>>]
      BY <1>4
    <2>2. m \in Nat /\ m + 1 \in 1..N /\ m \in 0..m BY <1>4, <1>5
    <2> DEFINE v == F[<<g[m], m + 1>>]
               f == [i \in 0..m + 1 |-> IF i = m + 1 THEN v ELSE g[i]]
    <2>3. v \in T BY <2>1, <2>2
    <2> HIDE DEF v
    <2>4. \A i \in 0..m + 1 : i = m + 1 \/ (i \in 0..m /\ i # m + 1) BY <2>2
    <2>5. f \in [0..m + 1 -> T] BY <2>1, <2>3, <2>4
    <2>6. f[m + 1] = v /\ \A i \in 0..m : f[i] = g[i] BY <2>2
    <2> HIDE DEF f
    <2>7. f[0] = z BY <2>1, <2>2, <2>6
    <2>8. ASSUME NEW i \in 1..m + 1 PROVE f[i] = F[<<f[i - 1], i>>]
      <3>1. CASE i = m + 1
        <4>1. i - 1 = m BY <2>2, <3>1
        <4> QED BY <2>2, <2>6, <3>1, <4>1 DEF v
      <3>2. CASE i # m + 1
        <4>1. i \in 1..m /\ i \in 0..m /\ i - 1 \in 0..m BY <2>2, <3>2
        <4> QED BY <2>1, <2>6, <4>1
      <3> QED BY <3>1, <3>2
    <2>9. Upto(m + 1) BY <2>5, <2>7, <2>8
    <2> HIDE DEF Upto
    <2>10. m + 1 \in S BY <2>2, <2>9 DEF S
    <2>11. m + 1 <= m BY <1>3, <2>10
    <2> QED BY <2>2, <2>11
  <1>6. Upto(N) BY <1>4, <1>5
  <1> QED BY <1>6 DEF Recurs

=============================================================================
