---------------------------- MODULE ArrayProofs ----------------------------
(***************************************************************************)
(* The arrays still to be released are those of the scopes open, the inner *)
(* scopes' above the outer ones' (ArraysOwned): ArrayInv is inductive.     *)
(* The typechecker's half, in TypecheckProofs, is that the blocks open at  *)
(* the nodes it has recorded, followed by those it is visiting, make a     *)
(* History; the code generator's is that its scopes are the blocks open at *)
(* the next node, as far as it reaches, and that every array has its scope *)
(* among them.                                                             *)
(*                                                                         *)
(* Every path through the code pairs saves with restores (SavesBalanced):  *)
(* with it FlowInv is inductive.  Every basic block has one stack of saves *)
(* with which it is entered; the blocks still to be filled are those that  *)
(* the scopes open await, and have that of the arrays outside the scope.   *)
(***************************************************************************)
EXTENDS CompilerProofs, Flow, FiniteSetTheorems
-----------------------------------------------------------------------------
(* The code generator's scopes, against the blocks open at the node.       *)

(* What is declared or opened behind a return is passed over.              *)
LEMMA ScopedPrefix ==
    ASSUME NEW s \in Seq(BlockStates), NEW t \in Seq(BlockStates), NEW scs,
           Len(scs) \in Nat, Scoped(s, scs), Len(scs) <= Len(t),
           \A j \in 1..Len(scs) : t[j] = s[j],
           Len(scs) < Len(t) => Len(scs) > 0 /\ s[Len(scs)].state = "returned"
    PROVE  Scoped(t, scs)
  <1>1. Len(scs) > 0 => Len(scs) \in 1..Len(scs) OBVIOUS
  <1> QED BY <1>1 DEF Scoped

LEMMA ScopedPass ==
    ASSUME NEW s \in Seq(BlockStates), NEW n, Placed(s, n), ~n.live,
           NEW scs, Len(scs) \in Nat, Scoped(s, scs)
    PROVE  Scoped(Through(s, n), scs)
  <1>1. Len(s) \in Nat /\ Len(scs) <= Len(s) BY LenProperties DEF Scoped
  <1>2. CASE n.k \notin BlockPart \ {"arraydecl"}
    <2>1. n.k # "fn" BY DEF Placed
    <2>2. Through(s, n) = s BY <1>2, <2>1 DEF Through, BlockPart, Ends
    <2> QED BY <2>2
  <1>3. CASE n.k \in BlockPart \ {"arraydecl"}
    <2>1. s # <<>> /\ (s[Len(s)].state = "header" <=> n.k = "whilebody")
      BY <1>3 DEF Placed
    <2>2. /\ Len(s) >= 1 /\ Front(s) \in Seq(BlockStates) /\ Len(Front(s)) = Len(s) - 1
          /\ \A i \in 1..Len(s) - 1 : Front(s)[i] = s[i]
      BY <2>1, FrontLemma, LenPositive
    <2>3. PICK j \in 1..Len(s) : /\ s[j].state = "returned"
                                 /\ n.k \in Ends => j <= Len(s) - 1
      <3>1. CASE n.k \in Ends
        <4>1. ~Unreturned(Front(s)) BY <1>3, <3>1 DEF Placed
        <4>2. PICK i \in 1..Len(Front(s)) : Front(s)[i].state = "returned" BY <4>1 DEF Unreturned
        <4>3. i \in 1..Len(s) - 1 /\ i \in 1..Len(s) /\ s[i].state = "returned"
          BY <1>1, <2>2, <4>2
        <4> QED BY <4>3
      <3>2. CASE n.k \notin Ends
        <4>1. ~Unreturned(s) BY <1>3, <3>2 DEF Placed
        <4> QED BY <3>2, <4>1 DEF Unreturned
      <3> QED BY <3>1, <3>2
    <2>4. Len(scs) <= j
      <3>1. CASE j \in 1..Len(scs) BY <1>1, <2>3, <3>1 DEF Scoped
      <3>2. CASE j \notin 1..Len(scs) BY <1>1, <3>2
      <3> QED BY <3>1, <3>2
    <2>5. Len(scs) > 0 /\ s[Len(scs)].state = "returned"
      <3>1. CASE Len(scs) < Len(s) BY <3>1 DEF Scoped
      <3>2. CASE Len(scs) = Len(s)
        <4>1. j = Len(scs) BY <1>1, <2>4, <3>2
        <4> QED BY <1>1, <2>3, <4>1
      <3> QED BY <1>1, <3>1, <3>2
    <2>6. \A x \in BlockStates : /\ Append(s, x) \in Seq(BlockStates)
                                 /\ Len(Append(s, x)) = Len(s) + 1
                                 /\ \A i \in 1..Len(s) : Append(s, x)[i] = s[i]
      BY PushLemma
    <2>7. \A x \in BlockStates :
             /\ Instead(s, x) \in Seq(BlockStates)
             /\ Len(Instead(s, x)) = Len(s)
             /\ \A i \in 1..Len(s) - 1 : Instead(s, x)[i] = s[i]
             /\ Instead(s, x)[Len(s)] = x
      <3> TAKE x \in BlockStates
      <3>1. /\ Instead(s, x) \in Seq(BlockStates)
            /\ Len(Instead(s, x)) = Len(Front(s)) + 1
            /\ \A i \in 1..Len(Front(s)) : Instead(s, x)[i] = Front(s)[i]
            /\ Instead(s, x)[Len(Front(s)) + 1] = x
        BY <2>2, PushLemma DEF Instead
      <3>2. Len(Front(s)) + 1 = Len(s) BY <1>1, <2>2
      <3> QED BY <2>2, <3>1, <3>2
    <2>8. /\ Block(FormAt(n), "open") \in BlockStates /\ Block("loop", "header") \in BlockStates
          /\ Block(Last(s).form, "returned") \in BlockStates
          /\ s[Len(s)].state = "returned" => Block(Last(s).form, "returned") = s[Len(s)]
      <3>1. FormAt(n) \in Forms /\ "loop" \in Forms BY DEF FormAt, Forms
      <3>2. Last(s) \in BlockStates /\ Last(s) = s[Len(s)] BY <2>1, LastLemma
      <3>3. Last(s).form \in Forms BY <3>2 DEF BlockStates
      <3>4. Last(s).state = "returned" => Block(Last(s).form, "returned") = Last(s)
        BY <3>2 DEF BlockStates, Block
      <3> QED BY <3>1, <3>2, <3>3, <3>4, BlockType
    <2>9. CASE n.k \in {"bare", "if", "for", "while"}
      <3>1. PICK x \in BlockStates : Through(s, n) = Append(s, x)
        BY <2>8, <2>9 DEF Through
      <3>2. \A i \in 1..Len(scs) : Append(s, x)[i] = s[i]
        <4>1. 1..Len(scs) \subseteq 1..Len(s) BY <1>1
        <4> QED BY <2>6, <4>1
      <3>3. Len(scs) <= Len(Append(s, x)) BY <1>1, <2>6
      <3> QED BY <2>5, <2>6, <3>1, <3>2, <3>3, ScopedPrefix
    <2>10. CASE n.k = "end"
      <3>1. Through(s, n) = Front(s) BY <2>10 DEF Through
      <3>2. Len(scs) <= Len(s) - 1 BY <1>1, <2>3, <2>4, <2>10 DEF Ends
      <3>3. \A i \in 1..Len(scs) : Front(s)[i] = s[i]
        <4>1. 1..Len(scs) \subseteq 1..Len(s) - 1 BY <1>1, <3>2
        <4> QED BY <2>2, <4>1
      <3> QED BY <2>2, <2>5, <3>1, <3>2, <3>3, ScopedPrefix
    <2>11. CASE n.k \in {"else", "whilebody", "return"}
      <3>1. PICK x \in BlockStates : /\ Through(s, n) = Instead(s, x)
                                     /\ n.k = "return" => x = Block(Last(s).form, "returned")
        <4>1. CASE n.k = "return"
          <5>1. Through(s, n) = Instead(s, Block(Last(s).form, "returned")) BY <4>1 DEF Through
          <5> QED BY <2>8, <5>1
        <4>2. CASE n.k # "return"
          <5>1. Through(s, n) = Instead(s, Block(FormAt(n), "open")) BY <2>11, <4>2 DEF Through
          <5> QED BY <2>8, <4>2, <5>1
        <4> QED BY <4>1, <4>2
      <3>2. CASE Len(scs) < Len(s)
        <4>1. 1..Len(scs) \subseteq 1..Len(s) - 1 BY <1>1, <3>2
        <4>2. \A i \in 1..Len(scs) : Instead(s, x)[i] = s[i] BY <2>7, <4>1
        <4>3. Instead(s, x) \in Seq(BlockStates) /\ Len(Instead(s, x)) = Len(s) BY <2>7
        <4>4. Scoped(Instead(s, x), scs) BY <1>1, <2>5, <4>2, <4>3, ScopedPrefix
        <4> QED BY <3>1, <4>4
      <3>3. CASE Len(scs) = Len(s)
        <4>1. j = Len(s) /\ s[Len(s)].state = "returned" BY <1>1, <2>3, <2>4, <3>3
        <4>2. n.k \notin Ends BY <1>1, <2>3, <4>1
        <4>3. n.k = "return" BY <2>1, <2>11, <4>1, <4>2 DEF Ends
        <4>4. \A i \in 1..Len(s) : i \in 1..Len(s) - 1 \/ i = Len(s) BY <1>1
        <4>5. \A i \in 1..Len(scs) : Instead(s, x)[i] = s[i]
          BY <2>7, <2>8, <3>1, <3>3, <4>1, <4>3, <4>4
        <4>6. /\ Instead(s, x) \in Seq(BlockStates) /\ Len(scs) <= Len(Instead(s, x))
              /\ ~(Len(scs) < Len(Instead(s, x)))
          BY <1>1, <2>7, <3>1, <3>3
        <4>7. Scoped(Instead(s, x), scs) BY <4>5, <4>6, ScopedPrefix
        <4> QED BY <3>1, <4>7
      <3> QED BY <1>1, <3>2, <3>3
    <2> QED BY <1>3, <2>9, <2>10, <2>11 DEF BlockPart, Ends
  <1> QED BY <1>2, <1>3

(* Where the code generator gets to, its scopes are all the blocks open.   *)
LEMMA ScopedReach ==
    ASSUME NEW s \in Seq(BlockStates), NEW n, Placed(s, n), n.live, n.k \in BlockPart,
           NEW scs, Len(scs) \in Nat, Scoped(s, scs)
    PROVE  /\ s # <<>> /\ Len(scs) = Len(s) /\ Len(s) \in Nat /\ Len(s) >= 1
           /\ n.k \in Ends => Unreturned(Front(s))
           /\ n.k \notin Ends => Unreturned(s)
           /\ s[Len(s)].state = "header" <=> n.k = "whilebody"
  <1>1. /\ s # <<>> /\ (s[Len(s)].state = "header" <=> n.k = "whilebody")
        /\ n.k \in Ends => Unreturned(Front(s))
        /\ n.k \notin Ends => Unreturned(s)
    BY DEF Placed
  <1>2. /\ Len(s) \in Nat /\ Len(s) >= 1 /\ Len(Front(s)) = Len(s) - 1
        /\ \A i \in 1..Len(s) - 1 : Front(s)[i] = s[i]
    BY <1>1, FrontLemma, LenPositive
  <1>3. ASSUME Len(scs) < Len(s) PROVE FALSE
    <2>1. Len(scs) > 0 /\ s[Len(scs)].state = "returned" BY <1>3 DEF Scoped
    <2>2. Len(scs) \in 1..Len(s) - 1 /\ Len(scs) \in 1..Len(s) BY <1>2, <1>3, <2>1
    <2> QED BY <1>1, <1>2, <2>1, <2>2 DEF Unreturned
  <1>4. Len(scs) <= Len(s) BY DEF Scoped
  <1> QED BY <1>1, <1>2, <1>3, <1>4

(* A scope is pushed, or popped.                                           *)
LEMMA ScopedPush ==
    ASSUME NEW s \in Seq(BlockStates), Unreturned(s), NEW x \in BlockStates,
           NEW S, NEW scs \in Seq(S), Len(scs) = Len(s), Scoped(s, scs),
           NEW f \in S, f.blk = 0 <=> x.state = "header", FormOfScope(f) = x.form
    PROVE  Scoped(Append(s, x), Append(scs, f))
  <1> DEFINE t  == Append(s, x)
             ss == Append(scs, f)
  <1>1. /\ Len(s) \in Nat /\ Len(t) = Len(s) + 1 /\ t[Len(s) + 1] = x
        /\ \A i \in 1..Len(s) : t[i] = s[i]
    BY PushLemma
  <1>2. /\ Len(ss) = Len(s) + 1 /\ ss[Len(s) + 1] = f
        /\ \A i \in 1..Len(s) : ss[i] = scs[i]
    BY PushLemma
  <1> HIDE DEF t, ss
  <1>3. \A N \in Nat : \A d \in 1..N + 1 : (d \in 1..N) \/ (d = N + 1 /\ ~(d < N + 1)) OBVIOUS
  <1>4. \A j \in 1..Len(ss) : (j \in 1..Len(s)) \/ (j = Len(s) + 1 /\ ~(j < Len(ss)))
    BY <1>1, <1>2, <1>3
  <1>5. \A j \in 1..Len(s) : /\ s[j].state # "returned" /\ FormOfScope(scs[j]) = s[j].form
                             /\ scs[j].blk = 0 <=> s[j].state = "header"
    BY DEF Unreturned, Scoped
  <1>6. Len(ss) <= Len(t) /\ ~(Len(ss) < Len(t)) BY <1>1, <1>2
  <1>7. ASSUME NEW j \in 1..Len(ss)
        PROVE  /\ ss[j].blk = 0 <=> t[j].state = "header"
               /\ FormOfScope(ss[j]) = t[j].form
               /\ j < Len(ss) => t[j].state # "returned"
    <2>1. CASE j \in 1..Len(s) BY <1>1, <1>2, <1>5, <2>1
    <2>2. CASE j = Len(s) + 1 /\ ~(j < Len(ss)) BY <1>1, <1>2, <2>2
    <2> QED BY <1>4, <2>1, <2>2
  <1> QED BY <1>6, <1>7 DEF Scoped, t, ss

LEMMA ScopedPop ==
    ASSUME NEW s \in Seq(BlockStates), s # <<>>, Unreturned(Front(s)),
           NEW S, NEW scs \in Seq(S), Len(scs) = Len(s), Scoped(s, scs)
    PROVE  /\ Front(scs) \in Seq(S) /\ Len(Front(scs)) = Len(Front(s))
           /\ Front(s) \in Seq(BlockStates) /\ Scoped(Front(s), Front(scs))
  <1>1. /\ Len(s) \in Nat /\ Len(s) >= 1 /\ Len(Front(s)) = Len(s) - 1
        /\ Front(s) \in Seq(BlockStates)
        /\ \A i \in 1..Len(s) - 1 : Front(s)[i] = s[i]
    BY FrontLemma, LenPositive
  <1>2. scs # <<>> BY <1>1, EmptySeq
  <1>3. /\ Front(scs) \in Seq(S) /\ Len(Front(scs)) = Len(s) - 1
        /\ \A i \in 1..Len(s) - 1 : Front(scs)[i] = scs[i]
    BY <1>2, FrontLemma
  <1>4. 1..Len(s) - 1 \subseteq 1..Len(s) BY <1>1
  <1>5. \A j \in 1..Len(s) - 1 : /\ scs[j].blk = 0 <=> s[j].state = "header"
                                 /\ FormOfScope(scs[j]) = s[j].form
                                 /\ Front(s)[j].state # "returned"
    BY <1>1, <1>4 DEF Scoped, Unreturned
  <1>6. \A j \in 1..Len(Front(scs)) :
           /\ Front(scs)[j].blk = 0 <=> Front(s)[j].state = "header"
           /\ FormOfScope(Front(scs)[j]) = Front(s)[j].form
           /\ Front(s)[j].state # "returned"
    BY <1>1, <1>3, <1>5
  <1>7. Len(Front(scs)) <= Len(Front(s)) /\ ~(Len(Front(scs)) < Len(Front(s))) BY <1>1, <1>3
  <1> QED BY <1>1, <1>3, <1>6, <1>7 DEF Scoped

(* A return notes itself in its scope.                                     *)
LEMMA ScopedReturn ==
    ASSUME NEW s \in Seq(BlockStates), s # <<>>, s[Len(s)].state # "header", Unreturned(s),
           NEW scs, NEW ss, Len(scs) = Len(s), Len(ss) = Len(s),
           \A j \in 1..Len(s) : ss[j].blk = scs[j].blk /\ FormOfScope(ss[j]) = FormOfScope(scs[j]),
           Scoped(s, scs)
    PROVE  Scoped(Instead(s, Block(Last(s).form, "returned")), ss)
  <1> DEFINE x == Block(Last(s).form, "returned")
             t == Instead(s, x)
  <1>0. x \in BlockStates /\ x.state = "returned" /\ x.form = s[Len(s)].form
    <2>1. Last(s) \in BlockStates /\ Last(s) = s[Len(s)] BY LastLemma
    <2>2. Last(s).form \in Forms BY <2>1 DEF BlockStates
    <2> QED BY <2>1, <2>2, BlockType
  <1>1. /\ Len(s) \in Nat /\ Len(s) >= 1 /\ Len(Front(s)) = Len(s) - 1
        /\ Front(s) \in Seq(BlockStates)
        /\ \A i \in 1..Len(s) - 1 : Front(s)[i] = s[i]
    BY FrontLemma, LenPositive
  <1>2. /\ Len(t) = Len(s) /\ t[Len(s)] = x
        /\ \A i \in 1..Len(s) - 1 : t[i] = s[i]
    <2>1. x \in BlockStates BY <1>0
    <2> HIDE DEF x
    <2>2. /\ Len(t) = Len(Front(s)) + 1
          /\ \A i \in 1..Len(Front(s)) : t[i] = Front(s)[i]
          /\ t[Len(Front(s)) + 1] = x
      BY <1>1, <2>1, PushLemma DEF Instead
    <2>3. Len(Front(s)) + 1 = Len(s) BY <1>1
    <2> QED BY <1>1, <2>2, <2>3
  <1> HIDE DEF t, x
  <1>3. \A j \in 1..Len(s) : (j \in 1..Len(s) - 1) \/ (j = Len(s) /\ ~(j < Len(s))) BY <1>1
  <1>4. \A j \in 1..Len(s) : /\ s[j].state # "returned" /\ FormOfScope(ss[j]) = s[j].form
                             /\ ss[j].blk = 0 <=> s[j].state = "header"
    BY DEF Unreturned, Scoped
  <1>5. ASSUME NEW j \in 1..Len(s)
        PROVE  /\ ss[j].blk = 0 <=> t[j].state = "header"
               /\ FormOfScope(ss[j]) = t[j].form
               /\ j < Len(ss) => t[j].state # "returned"
    <2>1. CASE j \in 1..Len(s) - 1 BY <1>2, <1>4, <2>1
    <2>2. CASE j = Len(s) /\ ~(j < Len(s)) BY <1>0, <1>2, <1>4, <2>2
    <2> QED BY <1>3, <2>1, <2>2
  <1>6. Len(ss) <= Len(t) /\ ~(Len(ss) < Len(t)) BY <1>1, <1>2
  <1> QED BY <1>5, <1>6 DEF Scoped, t, x

-----------------------------------------------------------------------------
(* The arrays that are to be released, against the scopes.                 *)

(* The scopes change, but none that an array was declared in.              *)
LEMMA OwnedKept ==
    ASSUME NEW arrs, NEW scs, Owned(arrs, scs), NEW ss,
           \A j \in 1..Len(scs) : \A n \in 1..Len(arrs) :
               scs[j].blk = arrs[n].blk => j \in 1..Len(ss) /\ ss[j].blk = scs[j].blk
    PROVE  Owned(arrs, ss)
  <1>1. PICK o : Owners(o, arrs, scs) BY DEF Owned
  <1>2. Owners(o, arrs, ss) BY <1>1 DEF Owners
  <1> QED BY <1>2 DEF Owned

LEMMA OwnedPush ==
    ASSUME NEW arrs, NEW S, NEW scs \in Seq(S), Owned(arrs, scs), NEW f \in S
    PROVE  Owned(arrs, Append(scs, f))
  <1>1. /\ Len(scs) \in Nat /\ Len(Append(scs, f)) = Len(scs) + 1
        /\ \A j \in 1..Len(scs) : Append(scs, f)[j] = scs[j]
    BY PushLemma
  <1> DEFINE ss == Append(scs, f)
  <1> HIDE DEF ss
  <1>2. \A j \in 1..Len(scs) : j \in 1..Len(ss) /\ ss[j].blk = scs[j].blk
    <2>1. \A N \in Nat : \A j \in 1..N : j \in 1..N + 1 OBVIOUS
    <2> QED BY <1>1, <2>1 DEF ss
  <1>3. PICK o : Owners(o, arrs, scs) BY DEF Owned
  <1>4. Owners(o, arrs, ss) BY <1>2, <1>3 DEF Owners
  <1> QED BY <1>4 DEF Owned, ss

(* A scope is popped with the arrays that are of it.                       *)
LEMMA OwnedPop ==
    ASSUME NEW U, NEW arrs \in Seq(U), NEW S, NEW scs \in Seq(S), scs # <<>>, Owned(arrs, scs),
           NEW k \in 0..Len(arrs), k > 0 => arrs[k].blk # Last(scs).blk
    PROVE  Owned(SubSeq(arrs, 1, k), Front(scs))
  <1> DEFINE bs == SubSeq(arrs, 1, k)
             ss == Front(scs)
  <1>1. PICK o : Owners(o, arrs, scs) BY DEF Owned
  <1>2. Len(bs) = k /\ \A n \in 1..k : bs[n] = arrs[n] BY PrefixLemma
  <1>3. /\ Len(scs) \in Nat /\ Len(ss) = Len(scs) - 1
        /\ \A j \in 1..Len(scs) - 1 : ss[j] = scs[j]
        /\ Last(scs) = scs[Len(scs)]
    BY FrontLemma, LastLemma, LenProperties
  <1>4. Len(arrs) \in Nat BY LenProperties
  <1> HIDE DEF bs, ss
  <1>5. ASSUME NEW n \in 1..k
        PROVE  /\ o[n] \in 1..Len(ss) /\ ss[o[n]].blk = bs[n].blk
               /\ \A m \in 1..n : o[m] <= o[n]
    <2>0. \A N \in Nat : \A i \in 0..N : \A m \in 1..i : i \in 1..N /\ m \in 1..N /\ i > 0
      OBVIOUS
    <2>1. k \in 1..Len(arrs) /\ n \in 1..Len(arrs) /\ k > 0 BY <1>4, <2>0
    <2>2. /\ o[n] \in 1..Len(scs) /\ scs[o[n]].blk = arrs[n].blk
          /\ o[k] \in 1..Len(scs) /\ scs[o[k]].blk = arrs[k].blk /\ o[n] <= o[k]
          /\ \A m \in 1..n : o[m] <= o[n]
      BY <1>1, <2>1 DEF Owners
    <2>3. o[k] # Len(scs) BY <1>3, <2>1, <2>2
    <2>4. o[n] \in 1..Len(scs) - 1 BY <1>3, <2>2, <2>3
    <2> QED BY <1>2, <1>3, <2>2, <2>4
  <1>6. Owners(o, bs, ss) BY <1>2, <1>5 DEF Owners
  <1> QED BY <1>6 DEF Owned, bs, ss

(* An array is declared in the innermost scope.                            *)
LEMMA OwnedDeclare ==
    ASSUME NEW arrs, NEW scs, Owned(arrs, scs), NEW bs, NEW a,
           Len(arrs) \in Nat, Len(scs) \in Nat, Len(scs) >= 1,
           Len(bs) = Len(arrs) + 1, bs[Len(arrs) + 1] = a,
           \A n \in 1..Len(arrs) : bs[n] = arrs[n], a.blk = scs[Len(scs)].blk
    PROVE  Owned(bs, scs)
  <1>1. PICK o : Owners(o, arrs, scs) BY DEF Owned
  <1> DEFINE N == Len(arrs)
             q == [n \in 1..N + 1 |-> IF n = N + 1 THEN Len(scs) ELSE o[n]]
  <1>2. N \in Nat OBVIOUS
  <1>3. Len(scs) \in 1..Len(scs) OBVIOUS
  <1> HIDE DEF N
  <1>5. (\A n \in 1..N : q[n] = o[n]) /\ q[N + 1] = Len(scs)
    <2>1. \A n \in 1..N : n \in 1..N + 1 /\ n # N + 1 BY <1>2
    <2>2. N + 1 \in 1..N + 1 BY <1>2
    <2> QED BY <2>1, <2>2
  <1> HIDE DEF q
  <1>4. \A M \in Nat : \A n \in 1..M + 1 :
           /\ n \in 1..M \/ n = M + 1
           /\ \A m \in 1..n : m \in 1..M + 1 /\ (n \in 1..M => m \in 1..M)
    OBVIOUS
  <1>7. \A n \in 1..N : /\ o[n] \in 1..Len(scs) /\ scs[o[n]].blk = arrs[n].blk
                        /\ \A m \in 1..n : o[m] <= o[n]
    BY <1>1 DEF Owners, N
  <1>8. \A n \in 1..N + 1 : q[n] \in 1..Len(scs) /\ q[n] <= Len(scs)
    <2>1. \A n \in 1..N + 1 : n \in 1..N \/ n = N + 1 BY <1>2, <1>4
    <2>2. \A n \in 1..N + 1 : q[n] \in 1..Len(scs) BY <1>3, <1>5, <1>7, <2>1
    <2> QED BY <1>3, <2>2
  <1>9. ASSUME NEW n \in 1..N + 1
        PROVE  /\ q[n] \in 1..Len(scs) /\ scs[q[n]].blk = bs[n].blk
               /\ \A m \in 1..n : q[m] <= q[n]
    <2>1. /\ n \in 1..N \/ n = N + 1
          /\ \A m \in 1..n : m \in 1..N + 1 /\ (n \in 1..N => m \in 1..N)
      BY <1>2, <1>4 DEF N
    <2>2. CASE n \in 1..N BY <1>2, <1>5, <1>7, <2>1, <2>2 DEF N
    <2>3. CASE n = N + 1 BY <1>2, <1>3, <1>5, <1>8, <2>1, <2>3 DEF N
    <2> QED BY <2>1, <2>2, <2>3
  <1>10. Owners(q, bs, scs) BY <1>2, <1>9 DEF Owners, N
  <1> QED BY <1>10 DEF Owned

(* Without a scope there is no array.                                      *)
LEMMA OwnedNone ==
    ASSUME NEW arrs, NEW U, arrs \in Seq(U), NEW scs, Len(scs) = 0, Owned(arrs, scs)
    PROVE  arrs = <<>>
  <1>1. PICK o : Owners(o, arrs, scs) BY DEF Owned
  <1>2. Len(arrs) \in Nat BY LenProperties
  <1>3. ASSUME Len(arrs) # 0 PROVE FALSE
    <2>0. \A N \in Nat : N # 0 => 1 \in 1..N OBVIOUS
    <2>1. 1 \in 1..Len(arrs) BY <1>2, <1>3, <2>0
    <2>2. o[1] \in 1..0 BY <1>1, <2>1 DEF Owners
    <2> QED BY <2>2
  <1> QED BY <1>3, EmptySeq

(* What is released: all that is above the topmost array of another scope. *)
LEMMA MineAbove ==
    ASSUME NEW U, arrayDecls \in Seq(U)
    PROVE  \E k \in 0..Len(arrayDecls) :
              /\ Len(arrayDecls) - Cardinality(Mine) = k
              /\ k > 0 => arrayDecls[k].blk # Scope.blk
  <1> DEFINE N == Len(arrayDecls)
             Other == {0} \cup {n \in 1..N : arrayDecls[n].blk # Scope.blk}
  <1>1. N \in Nat BY LenProperties
  <1>2. Other \subseteq 0..N /\ Other # {} BY <1>1
  <1>3. PICK k \in Other : \A n \in Other : n <= k BY <1>1, <1>2, LargestOf
  <1>4. k \in 0..N /\ (k > 0 => arrayDecls[k].blk # Scope.blk) BY <1>2, <1>3
  <1>5. \A m \in 1..N : m > k => arrayDecls[m].blk = Scope.blk BY <1>1, <1>3, <1>4
  <1>6. Mine = k + 1..N
    <2>1. ASSUME NEW n \in 1..N, n > k PROVE \A m \in n..N : arrayDecls[m].blk = Scope.blk
      <3>1. \A m \in n..N : m \in 1..N /\ m > k BY <1>1, <1>4, <2>1
      <3> QED BY <1>5, <3>1
    <2>2. ASSUME NEW n \in 1..N, ~(n > k) PROVE ~\A m \in n..N : arrayDecls[m].blk = Scope.blk
      <3>1. k \in n..N /\ k > 0 BY <1>1, <1>4, <2>2
      <3> QED BY <1>4, <3>1
    <2>3. \A n \in 1..N : n \in Mine <=> n > k BY <2>1, <2>2 DEF Mine
    <2>4. Mine \subseteq 1..N BY DEF Mine
    <2> HIDE DEF N, Other
    <2>5. \A n : n \in Mine <=> n \in 1..N /\ n > k BY <2>3, <2>4
    <2>6. \A n : n \in k + 1..N <=> n \in 1..N /\ n > k BY <1>1, <1>4
    <2> QED BY <2>5, <2>6
  <1>7. Cardinality(Mine) = N - k
    <2>1. k + 1 \in Int /\ N \in Int BY <1>1, <1>4
    <2>2. Cardinality(k + 1..N) = IF k + 1 > N THEN 0 ELSE N - (k + 1) + 1 BY <2>1, FS_Interval
    <2> QED BY <1>1, <1>4, <1>6, <2>2
  <1>8. N - Cardinality(Mine) = k BY <1>1, <1>4, <1>7
  <1> QED BY <1>4, <1>8

-----------------------------------------------------------------------------
(* The steps of the code generator.                                        *)

IsScope(f) == f = [blk |-> f.blk, k |-> f.k, ret |-> f.ret, hdr |-> f.hdr, next |-> f.next]

ScopesTyped ==
    /\ \E S : scopes \in Seq(S) /\ \A f \in S : IsScope(f)
    /\ \E U : arrayDecls \in Seq(U)

ArrayInv == NestingInv /\ OwnedInv /\ ScopesTyped

(* The run ends.                                                           *)
LEMMA HaltArrays ==
    ASSUME ArrayInv, Rest, NEW how \in Endings, Halt(how)
    PROVE  ArrayInv'
  <1>1. /\ ast' = ast /\ visiting' = visiting /\ pc' = pc
        /\ scopes' = scopes /\ arrayDecls' = arrayDecls
        /\ phase' \notin {"declare", "typecheck"}
    BY DEF Rest, shared, tcVars, Halt, cgVars, Endings
  <1>2. NestingInv' BY <1>1 DEF ArrayInv, NestingInv, History
  <1>3. OwnedInv' BY <1>1 DEF ArrayInv, OwnedInv
  <1>4. ScopesTyped' BY <1>1 DEF ArrayInv, ScopesTyped
  <1> QED BY <1>2, <1>3, <1>4 DEF ArrayInv

(* A node is passed: what has to be shown of its step.                     *)
LEMMA YieldNests ==
    ASSUME IndInv, NestingInv, Rest, phase = "codegen", pc <= Len(ast), NEW ty, Yield(ty),
           \A s \in Seq(BlockStates) :
               Placed(s, node) /\ Scoped(s, scopes) => Scoped(Through(s, node), scopes')
    PROVE  NestingInv'
  <1>1. PICK h : History(h) /\ Scoped(h[pc], scopes) BY DEF NestingInv
  <1>2. pc \in 1..Len(ast) BY NodeHere
  <1>3. /\ h[pc] \in Seq(BlockStates) /\ Placed(h[pc], node)
        /\ h[pc + 1] = Through(h[pc], node)
    BY <1>1, <1>2 DEF History, node
  <1>4. Scoped(h[pc + 1], scopes') BY <1>1, <1>3
  <1>5. ast' = ast /\ visiting' = visiting /\ pc' = pc + 1
    BY DEF Rest, shared, tcVars, Yield
  <1>6. History(h)' BY <1>1, <1>5 DEF History
  <1>7. Scoped(h[pc'], scopes') BY <1>4, <1>5
  <1> QED BY <1>6, <1>7 DEF NestingInv

LEMMA ScopesLength ==
    ASSUME ScopesTyped
    PROVE  Len(scopes) \in Nat /\ Len(arrayDecls) \in Nat
  BY LenProperties DEF ScopesTyped

(* Neither scopes nor arrays change, and the node is none of a block's.    *)
LEMMA IdleArrays ==
    ASSUME IndInv, ArrayInv, Rest, NEW k, At(k), k \notin BlockPart \cup {"fn"},
           NEW ty, Yield(ty), UNCHANGED <<phase, scopes, arrayDecls>>
    PROVE  ArrayInv'
  <1>1. phase = "codegen" /\ pc <= Len(ast) /\ node.k = k BY DEF At
  <1>2. \A s : Through(s, node) = s BY <1>1 DEF Through, BlockPart, Ends
  <1>3. NestingInv' BY <1>1, <1>2, YieldNests DEF ArrayInv
  <1>4. OwnedInv' BY DEF ArrayInv, OwnedInv
  <1>5. ScopesTyped' BY DEF ArrayInv, ScopesTyped
  <1> QED BY <1>3, <1>4, <1>5 DEF ArrayInv

LEMMA PassArrays ==
    ASSUME IndInv, ArrayInv, Rest, PassOver
    PROVE  ArrayInv'
  <1>1. /\ phase = "codegen" /\ pc <= Len(ast) /\ ~node.live /\ Yield("none")
        /\ UNCHANGED <<phase, scopes, arrayDecls>>
    BY DEF PassOver
  <1>2. \A s \in Seq(BlockStates) :
           Placed(s, node) /\ Scoped(s, scopes) => Scoped(Through(s, node), scopes)
    BY <1>1, ScopedPass, ScopesLength DEF ArrayInv
  <1>3. NestingInv' BY <1>1, <1>2, YieldNests DEF ArrayInv
  <1>4. OwnedInv' BY <1>1 DEF ArrayInv, OwnedInv
  <1>5. ScopesTyped' BY <1>1 DEF ArrayInv, ScopesTyped
  <1> QED BY <1>3, <1>4, <1>5 DEF ArrayInv

(* A scope is pushed.                                                      *)
LEMMA PushArrays ==
    ASSUME IndInv, ArrayInv, Rest, NEW k \in {"bare", "if", "while", "for"}, At(k),
           NEW f, IsScope(f), f.blk = 0 <=> k = "while", FormOfScope(f) = FormAt(node),
           scopes' = Append(scopes, f),
           Yield("none"), UNCHANGED <<phase, arrayDecls>>
    PROVE  ArrayInv'
  <1>1. /\ phase = "codegen" /\ pc <= Len(ast) /\ node.k = k /\ node.live
        /\ k \in BlockPart /\ k \notin Ends
    BY DEF At, BlockPart, Ends
  <1>2. PICK S : scopes \in Seq(S) /\ \A g \in S : IsScope(g) BY DEF ArrayInv, ScopesTyped
  <1>3. scopes \in Seq(S \cup {f}) BY <1>2, SeqMonotonic
  <1> DEFINE x == Block(FormAt(node), IF k = "while" THEN "header" ELSE "open")
             T == S \cup {f}
  <1>4. x \in BlockStates /\ (f.blk = 0 <=> x.state = "header") /\ FormOfScope(f) = x.form
    <2>1. FormAt(node) \in Forms BY DEF FormAt, Forms
    <2> QED BY <2>1 DEF BlockStates, Block
  <1>5. \A s : Through(s, node) = Append(s, x)
    <2>1. k = "while" => FormAt(node) = "loop" BY <1>1 DEF FormAt
    <2> QED BY <1>1, <2>1 DEF Through
  <1>6. scopes \in Seq(T) /\ f \in T /\ \A g \in T : IsScope(g) BY <1>2, <1>3
  <1> HIDE DEF x, T
  <1>7. ASSUME NEW s \in Seq(BlockStates), Placed(s, node), Scoped(s, scopes)
        PROVE  Scoped(Through(s, node), scopes')
    <2>1. Len(scopes) = Len(s) /\ Unreturned(s)
      BY <1>1, <1>7, ScopedReach, ScopesLength DEF ArrayInv
    <2>2. Scoped(Append(s, x), Append(scopes, f)) BY <1>4, <1>6, <1>7, <2>1, ScopedPush
    <2> QED BY <1>5, <2>2
  <1>8. NestingInv' BY <1>1, <1>7, YieldNests DEF ArrayInv
  <1>9. Owned(arrayDecls, scopes') BY <1>6, OwnedPush DEF ArrayInv, OwnedInv
  <1>10. OwnedInv' BY <1>1, <1>9 DEF ArrayInv, OwnedInv
  <1>11. scopes' \in Seq(T) BY <1>6, PushLemma
  <1>12. ScopesTyped' BY <1>6, <1>11 DEF ArrayInv, ScopesTyped
  <1> QED BY <1>8, <1>10, <1>12 DEF ArrayInv

(* A scope is popped with its arrays.                                      *)
LEMMA PopArrays ==
    ASSUME IndInv, ArrayInv, NEW k \in Ends, At(k),
           arrayDecls' = SubSeq(arrayDecls, 1, Len(arrayDecls) - Cardinality(Mine))
    PROVE  /\ scopes # <<>>
           /\ Owned(arrayDecls', Front(scopes))
           /\ \A n \in 1..Len(arrayDecls') : arrayDecls'[n].blk # 0
           /\ \E U : arrayDecls' \in Seq(U)
           /\ \A s \in Seq(BlockStates) : Placed(s, node) /\ Scoped(s, scopes) =>
                 /\ s # <<>> /\ Unreturned(Front(s)) /\ Len(Front(scopes)) = Len(Front(s))
                 /\ Front(s) \in Seq(BlockStates) /\ Scoped(Front(s), Front(scopes))
  <1>1. /\ phase = "codegen" /\ pc <= Len(ast) /\ node.k = k /\ node.live /\ k \in BlockPart
    BY DEF At, BlockPart
  <1>2. PICK S : scopes \in Seq(S) BY DEF ArrayInv, ScopesTyped
  <1>3. PICK U : arrayDecls \in Seq(U) BY DEF ArrayInv, ScopesTyped
  <1>4. ASSUME NEW s \in Seq(BlockStates), Placed(s, node), Scoped(s, scopes)
        PROVE  /\ s # <<>> /\ Unreturned(Front(s)) /\ scopes # <<>>
               /\ Len(Front(scopes)) = Len(Front(s))
               /\ Front(s) \in Seq(BlockStates) /\ Scoped(Front(s), Front(scopes))
    <2>1. /\ s # <<>> /\ Len(scopes) = Len(s) /\ Len(s) >= 1 /\ Unreturned(Front(s))
      BY <1>1, <1>4, ScopedReach, ScopesLength DEF ArrayInv
    <2>2. scopes # <<>> BY <2>1, EmptySeq
    <2>3. /\ Len(Front(scopes)) = Len(Front(s))
          /\ Front(s) \in Seq(BlockStates) /\ Scoped(Front(s), Front(scopes))
      BY <1>2, <1>4, <2>1, ScopedPop
    <2> QED BY <2>1, <2>2, <2>3
  <1>5. scopes # <<>>
    <2>1. PICK h : History(h) /\ Scoped(h[pc], scopes) BY DEF ArrayInv, NestingInv
    <2>2. pc \in 1..Len(ast) BY <1>1, NodeHere
    <2>3. h[pc] \in Seq(BlockStates) /\ Placed(h[pc], node) BY <2>1, <2>2 DEF History, node
    <2> QED BY <1>4, <2>1, <2>3
  <1>6. PICK n \in 0..Len(arrayDecls) :
           /\ Len(arrayDecls) - Cardinality(Mine) = n
           /\ n > 0 => arrayDecls[n].blk # Scope.blk
    BY <1>3, MineAbove
  <1>7. arrayDecls' = SubSeq(arrayDecls, 1, n) BY <1>6
  <1>8. Owned(SubSeq(arrayDecls, 1, n), Front(scopes))
    BY <1>2, <1>3, <1>5, <1>6, OwnedPop DEF ArrayInv, OwnedInv, Scope
  <1>9. /\ SubSeq(arrayDecls, 1, n) \in Seq(U) /\ Len(SubSeq(arrayDecls, 1, n)) = n
        /\ \A i \in 1..n : SubSeq(arrayDecls, 1, n)[i] = arrayDecls[i]
    BY <1>3, PrefixLemma
  <1>10. \A i \in 1..n : i \in 1..Len(arrayDecls) BY <1>3, LenProperties
  <1>11. \A i \in 1..n : SubSeq(arrayDecls, 1, n)[i].blk # 0
    BY <1>9, <1>10 DEF ArrayInv, OwnedInv
  <1> QED BY <1>4, <1>5, <1>7, <1>8, <1>9, <1>11

LEMMA CloseArrays ==
    ASSUME IndInv, ArrayInv, Rest, At("end"), scopes' = Front(scopes),
           arrayDecls' = SubSeq(arrayDecls, 1, Len(arrayDecls) - Cardinality(Mine)),
           Yield("none"), UNCHANGED phase
    PROVE  ArrayInv'
  <1>1. phase = "codegen" /\ pc <= Len(ast) /\ node.k = "end" /\ "end" \in Ends
    BY DEF At, Ends
  <1>2. \A s : Through(s, node) = Front(s) BY <1>1 DEF Through
  <1>3. /\ scopes # <<>>
        /\ Owned(arrayDecls', Front(scopes))
        /\ \A n \in 1..Len(arrayDecls') : arrayDecls'[n].blk # 0
        /\ \E U : arrayDecls' \in Seq(U)
        /\ \A s \in Seq(BlockStates) : Placed(s, node) /\ Scoped(s, scopes) =>
              Scoped(Front(s), Front(scopes))
    BY <1>1, PopArrays
  <1>4. NestingInv' BY <1>1, <1>2, <1>3, YieldNests DEF ArrayInv
  <1>5. OwnedInv' BY <1>1, <1>3 DEF OwnedInv
  <1>6. PICK S : scopes \in Seq(S) /\ \A g \in S : IsScope(g) BY DEF ArrayInv, ScopesTyped
  <1>7. Front(scopes) \in Seq(S) BY <1>3, <1>6, FrontLemma
  <1>8. ScopesTyped' BY <1>3, <1>6, <1>7 DEF ScopesTyped
  <1> QED BY <1>4, <1>5, <1>8 DEF ArrayInv

LEMMA ElseArrays ==
    ASSUME IndInv, ArrayInv, Rest, Else
    PROVE  ArrayInv'
  <1> DEFINE f == OpenScope("else", 0, Scope.next)
  <1>1. /\ At("else") /\ phase = "codegen" /\ pc <= Len(ast) /\ node.k = "else"
        /\ "else" \in Ends
    BY DEF Else, At, Ends
  <1> DEFINE x == Block("arm", "open")
  <1>2. \A s : Through(s, node) = Append(Front(s), x)
    <2>1. FormAt(node) = "arm" BY <1>1 DEF FormAt
    <2> QED BY <1>1, <2>1 DEF Through, Instead
  <1>3. /\ scopes' = Append(Front(scopes), f) /\ Yield("none") /\ UNCHANGED phase
        /\ arrayDecls' = SubSeq(arrayDecls, 1, Len(arrayDecls) - Cardinality(Mine))
    BY DEF Else, CloseScope
  <1>4. IsScope(f) /\ f.blk # 0 /\ FormOfScope(f) = "arm"
    <2>1. f.blk = pc /\ IsScope(f) /\ FormOfScope(f) = "arm"
      BY DEF OpenScope, IsScope, FormOfScope, FormOf
    <2>2. pc \in Nat /\ pc \in 1..Len(ast) BY <1>1, NodeHere
    <2> QED BY <2>1, <2>2
  <1>5. /\ scopes # <<>>
        /\ Owned(arrayDecls', Front(scopes))
        /\ \A n \in 1..Len(arrayDecls') : arrayDecls'[n].blk # 0
        /\ \E U : arrayDecls' \in Seq(U)
        /\ \A s \in Seq(BlockStates) : Placed(s, node) /\ Scoped(s, scopes) =>
              /\ s # <<>> /\ Unreturned(Front(s)) /\ Len(Front(scopes)) = Len(Front(s))
              /\ Front(s) \in Seq(BlockStates) /\ Scoped(Front(s), Front(scopes))
    BY <1>1, <1>3, PopArrays
  <1> HIDE DEF f
  <1>6. PICK S : scopes \in Seq(S) /\ \A g \in S : IsScope(g) BY DEF ArrayInv, ScopesTyped
  <1> DEFINE T == S \cup {f}
  <1>7. Front(scopes) \in Seq(S) BY <1>5, <1>6, FrontLemma
  <1>8. Front(scopes) \in Seq(T) /\ f \in T /\ \A g \in T : IsScope(g)
    BY <1>4, <1>6, <1>7, SeqMonotonic
  <1> HIDE DEF T
  <1>9. ASSUME NEW s \in Seq(BlockStates), Placed(s, node), Scoped(s, scopes)
        PROVE  Scoped(Through(s, node), scopes')
    <2>1. x \in BlockStates /\ x.state # "header" /\ x.form = "arm"
      BY DEF BlockStates, Block, Forms
    <2>2. /\ Unreturned(Front(s)) /\ Len(Front(scopes)) = Len(Front(s))
          /\ Front(s) \in Seq(BlockStates) /\ Scoped(Front(s), Front(scopes))
      BY <1>5, <1>9
    <2>3. Scoped(Append(Front(s), x), Append(Front(scopes), f))
      BY <1>4, <1>8, <2>1, <2>2, ScopedPush
    <2> QED BY <1>2, <1>3, <2>3
  <1>10. NestingInv' BY <1>1, <1>3, <1>9, YieldNests DEF ArrayInv
  <1>11. Owned(arrayDecls', scopes') BY <1>3, <1>5, <1>8, OwnedPush
  <1>12. OwnedInv' BY <1>1, <1>3, <1>5, <1>11 DEF OwnedInv
  <1>13. scopes' \in Seq(T) BY <1>3, <1>8, PushLemma
  <1>14. ScopesTyped' BY <1>5, <1>8, <1>13 DEF ScopesTyped
  <1> QED BY <1>10, <1>12, <1>14 DEF ArrayInv

(* The scope of a while's header becomes its body's.                       *)
LEMMA WhileBodyArrays ==
    ASSUME IndInv, ArrayInv, Rest, WhileBody
    PROVE  ArrayInv'
  <1> DEFINE f == [Scope EXCEPT !.blk = pc]
  <1>1. /\ At("whilebody") /\ phase = "codegen" /\ pc <= Len(ast) /\ node.k = "whilebody"
        /\ node.live /\ node.k \in BlockPart /\ node.k \notin Ends
    BY DEF WhileBody, At, BlockPart, Ends
  <1> DEFINE x == Block("loop", "open")
  <1>2. \A s : Through(s, node) = Append(Front(s), x)
    <2>1. FormAt(node) = "loop" BY <1>1 DEF FormAt
    <2> QED BY <1>1, <2>1 DEF Through, Instead
  <1>3. /\ scopes' = Append(Front(scopes), f) /\ Yield("none")
        /\ UNCHANGED <<phase, arrayDecls>>
    BY DEF WhileBody, Statement
  <1>4. pc \in Nat /\ pc # 0
    <2>1. pc \in Nat /\ pc \in 1..Len(ast) BY <1>1, NodeHere
    <2> QED BY <2>1
  <1>5. PICK S : scopes \in Seq(S) /\ \A g \in S : IsScope(g) BY DEF ArrayInv, ScopesTyped
  <1>6. ASSUME NEW s \in Seq(BlockStates), Placed(s, node), Scoped(s, scopes)
        PROVE  /\ scopes # <<>> /\ Scope.blk = 0 /\ FormOfScope(Scope) = "loop"
               /\ Unreturned(Front(s)) /\ Len(Front(scopes)) = Len(Front(s))
               /\ Front(s) \in Seq(BlockStates) /\ Scoped(Front(s), Front(scopes))
    <2>1. /\ s # <<>> /\ Len(scopes) = Len(s) /\ Len(s) \in Nat /\ Len(s) >= 1
          /\ Unreturned(s) /\ s[Len(s)].state = "header" /\ s[Len(s)].form = "loop"
      BY <1>1, <1>6, ScopedReach, ScopesLength DEF ArrayInv, Placed
    <2>2. scopes # <<>> BY <2>1, EmptySeq
    <2>3. Unreturned(Front(s)) BY <2>1, UnreturnedFront
    <2>4. Len(scopes) \in 1..Len(scopes) /\ Scope = scopes[Len(scopes)]
      BY <1>5, <2>2, LastLemma DEF Scope
    <2>5. Scope.blk = 0 /\ FormOfScope(Scope) = "loop" BY <1>6, <2>1, <2>4 DEF Scoped
    <2> QED BY <1>5, <1>6, <2>1, <2>2, <2>3, <2>5, ScopedPop
  <1>7. scopes # <<>> /\ Scope.blk = 0 /\ FormOfScope(Scope) = "loop"
    <2>1. PICK h : History(h) /\ Scoped(h[pc], scopes) BY DEF ArrayInv, NestingInv
    <2>2. pc \in 1..Len(ast) BY <1>1, NodeHere
    <2>3. h[pc] \in Seq(BlockStates) /\ Placed(h[pc], node) BY <2>1, <2>2 DEF History, node
    <2> QED BY <1>6, <2>1, <2>3
  <1>8. IsScope(f) /\ f.blk # 0 /\ FormOfScope(f) = "loop"
    <2>1. Scope \in S BY <1>5, <1>7, LastLemma DEF Scope
    <2>2. IsScope(Scope) BY <1>5, <2>1
    <2>3. IsScope(f) /\ f.blk = pc /\ f.k = Scope.k /\ f.hdr = Scope.hdr /\ f.next = Scope.next
      BY <2>2 DEF IsScope
    <2> QED BY <1>4, <1>7, <2>3 DEF FormOfScope
  <1> HIDE DEF f
  <1> DEFINE T == S \cup {f}
             ss == Append(Front(scopes), f)
  <1>9. Front(scopes) \in Seq(S) BY <1>5, <1>7, FrontLemma
  <1>10. Front(scopes) \in Seq(T) /\ f \in T /\ \A g \in T : IsScope(g)
    BY <1>5, <1>8, <1>9, SeqMonotonic
  <1> HIDE DEF T
  <1>11. ASSUME NEW s \in Seq(BlockStates), Placed(s, node), Scoped(s, scopes)
         PROVE  Scoped(Through(s, node), scopes')
    <2>1. x \in BlockStates /\ x.state # "header" /\ x.form = "loop"
      BY DEF BlockStates, Block, Forms
    <2>2. Scoped(Append(Front(s), x), Append(Front(scopes), f))
      BY <1>6, <1>8, <1>10, <1>11, <2>1, ScopedPush
    <2> QED BY <1>2, <1>3, <2>2
  <1>12. NestingInv' BY <1>1, <1>3, <1>11, YieldNests DEF ArrayInv
  <1>13. /\ Len(scopes) \in Nat /\ Len(scopes) >= 1 /\ Len(Front(scopes)) = Len(scopes) - 1
         /\ Scope = scopes[Len(scopes)]
         /\ \A j \in 1..Len(scopes) - 1 : Front(scopes)[j] = scopes[j]
    BY <1>5, <1>7, FrontLemma, LastLemma, LenPositive DEF Scope
  <1>14. /\ ss \in Seq(T) /\ Len(ss) = Len(Front(scopes)) + 1
         /\ \A j \in 1..Len(Front(scopes)) : ss[j] = Front(scopes)[j]
    BY <1>10, PushLemma
  <1> HIDE DEF ss
  <1>15. Len(ss) = Len(scopes) /\ \A j \in 1..Len(scopes) - 1 : ss[j] = scopes[j]
    BY <1>13, <1>14
  <1>16. PICK o : Owners(o, arrayDecls, scopes) BY DEF ArrayInv, OwnedInv, Owned
  <1>17. ASSUME NEW n \in 1..Len(arrayDecls)
         PROVE  ss[o[n]].blk = arrayDecls[n].blk
    <2>1. o[n] \in 1..Len(scopes) /\ scopes[o[n]].blk = arrayDecls[n].blk
      BY <1>16 DEF Owners
    <2>2. arrayDecls[n].blk # 0 BY DEF ArrayInv, OwnedInv
    <2>3. o[n] \in 1..Len(scopes) - 1
      <3>1. o[n] # Len(scopes) BY <1>7, <1>13, <2>1, <2>2
      <3> QED BY <1>13, <2>1, <3>1
    <2> QED BY <1>15, <2>1, <2>3
  <1>18. Owners(o, arrayDecls, ss) BY <1>15, <1>16, <1>17 DEF Owners
  <1>19. Owned(arrayDecls, scopes') BY <1>3, <1>18 DEF Owned, ss
  <1>20. OwnedInv' BY <1>1, <1>3, <1>19 DEF ArrayInv, OwnedInv
  <1>21. ScopesTyped' BY <1>3, <1>10, <1>14 DEF ArrayInv, ScopesTyped, ss
  <1> QED BY <1>12, <1>20, <1>21 DEF ArrayInv

(* A function's body has no block around it, so nothing is left behind it. *)
LEMMA EndFunctionArrays ==
    ASSUME IndInv, ArrayInv, Rest, EndFunction
    PROVE  ArrayInv'
  <1>1. /\ At("end") /\ phase = "codegen" /\ pc <= Len(ast)
        /\ node.k = "end" /\ node.op = "body" /\ node.live /\ node.k \in BlockPart
    BY DEF EndFunction, At, BlockPart, Ends
  <1>2. PICK S : scopes \in Seq(S) BY DEF ArrayInv, ScopesTyped
  <1>3. PICK h : History(h) /\ Scoped(h[pc], scopes) BY DEF ArrayInv, NestingInv
  <1>4. pc \in 1..Len(ast) BY <1>1, NodeHere
  <1>5. h[pc] \in Seq(BlockStates) /\ Placed(h[pc], node) BY <1>3, <1>4 DEF History, node
  <1>6. Len(scopes) = Len(h[pc]) /\ Len(h[pc]) = 1
    BY <1>1, <1>3, <1>5, ScopedReach, ScopesLength DEF ArrayInv, Placed
  <1>7. scopes # <<>> BY <1>6, EmptySeq
  <1>8. Front(scopes) \in Seq(S) /\ Len(Front(scopes)) = 0 BY <1>2, <1>6, <1>7, FrontLemma
  <1>9. Front(scopes) = <<>> BY <1>8, EmptySeq
  <1> QED BY <1>1, <1>9, CloseArrays DEF EndFunction

(* Where a function begins neither a scope nor an array is left.           *)
LEMMA NoneAround ==
    ASSUME IndInv, ArrayInv, node.k = "fn",
           NEW s \in Seq(BlockStates), Placed(s, node), Scoped(s, scopes)
    PROVE  s = <<>> /\ Len(scopes) = 0
  <1>1. s = <<>> /\ Len(s) = 0 BY EmptySeq DEF Placed
  <1>2. Len(scopes) \in Nat /\ Len(scopes) <= 0 BY <1>1, ScopesLength DEF ArrayInv, Scoped
  <1> QED BY <1>1, <1>2

LEMMA NothingOpen ==
    ASSUME IndInv, ArrayInv, At("fn")
    PROVE  arrayDecls = <<>>
  <1>1. phase = "codegen" /\ pc <= Len(ast) /\ node.k = "fn" BY DEF At
  <1>2. PICK h : History(h) /\ Scoped(h[pc], scopes) BY DEF ArrayInv, NestingInv
  <1>3. pc \in 1..Len(ast) BY <1>1, NodeHere
  <1>4. h[pc] \in Seq(BlockStates) /\ Placed(h[pc], node) BY <1>2, <1>3 DEF History, node
  <1>5. Len(scopes) = 0 BY <1>1, <1>2, <1>4, NoneAround
  <1> QED BY <1>5, OwnedNone DEF ArrayInv, OwnedInv, ScopesTyped

(* Before it there is neither a scope nor an array.                        *)
LEMMA BeginFunctionArrays ==
    ASSUME IndInv, ArrayInv, Rest, BeginFunction
    PROVE  ArrayInv'
  <1> DEFINE x == Block("plain", "open")
             f == [blk |-> pc, k |-> "body", ret |-> 0, hdr |-> 0, next |-> 0]
  <1>1. /\ phase = "codegen" /\ pc <= Len(ast) /\ node.k = "fn" /\ node.live
        /\ scopes' = <<f>> /\ Yield("none") /\ UNCHANGED <<phase, arrayDecls>>
    BY DEF BeginFunction, At
  <1>2. IsScope(f) /\ f.blk # 0 /\ FormOfScope(f) = "plain"
    <2>1. f.blk = pc /\ IsScope(f) /\ FormOfScope(f) = "plain"
      BY DEF IsScope, FormOfScope, FormOf
    <2>2. pc \in Nat /\ pc \in 1..Len(ast) BY <1>1, NodeHere
    <2> QED BY <2>1, <2>2
  <1> HIDE DEF f
  <1>3. ASSUME NEW s \in Seq(BlockStates), Placed(s, node), Scoped(s, scopes)
        PROVE  s = <<>> /\ Len(scopes) = 0
    BY <1>1, <1>3, NoneAround
  <1>5. arrayDecls = <<>> BY <1>1, NothingOpen DEF At
  <1>6. /\ \A s \in Seq(BlockStates) : Append(s, x) = Through(s, node)
        /\ x.state = "open" /\ x.form = "plain"
    <2>1. FormAt(node) = "plain" BY <1>1 DEF FormAt
    <2> QED BY <1>1, <2>1 DEF Through, Block
  <1> HIDE DEF x
  <1>7. /\ <<f>> \in Seq({f}) /\ Len(<<f>>) = 1 /\ <<f>>[1] = f
        /\ Append(<<>>, x) = <<x>> /\ Len(<<x>>) = 1 /\ <<x>>[1] = x
    OBVIOUS
  <1>8. Scoped(<<x>>, <<f>>)
    <2>1. \A j \in 1..1 : j = 1 OBVIOUS
    <2> QED BY <1>2, <1>6, <1>7, <2>1 DEF Scoped
  <1>9. NestingInv' BY <1>1, <1>3, <1>6, <1>7, <1>8, YieldNests DEF ArrayInv
  <1>10. OwnedInv'
    <2>1. \A n \in 1..Len(arrayDecls') : FALSE BY <1>1, <1>5, EmptySeq
    <2>2. \A o : Owners(o, arrayDecls', scopes') BY <2>1 DEF Owners
    <2>3. Owned(arrayDecls', scopes') BY <2>2 DEF Owned
    <2> QED BY <1>1, <2>1, <2>3 DEF OwnedInv
  <1>11. ScopesTyped'
    <2>1. \A g \in {f} : IsScope(g) BY <1>2
    <2> QED BY <1>1, <1>7, <2>1 DEF ArrayInv, ScopesTyped
  <1> QED BY <1>9, <1>10, <1>11 DEF ArrayInv

(* A return notes itself in the innermost scope.                           *)
LEMMA ReturnArrays ==
    ASSUME IndInv, ArrayInv, Rest, Return
    PROVE  ArrayInv'
  <1> DEFINE n == Len(scopes)
             f == [scopes[n] EXCEPT !.ret = pc]
             ss == [scopes EXCEPT ![n] = f]
  <1>1. /\ phase = "codegen" /\ pc <= Len(ast) /\ node.k = "return" /\ node.live
        /\ node.k \in BlockPart /\ node.k \notin Ends
        /\ UNCHANGED <<phase, arrayDecls>> /\ \E ty : Yield(ty)
    BY DEF Return, At, BlockPart, Ends
  <1>2. scopes' = ss BY DEF Return
  <1>3. PICK S : scopes \in Seq(S) /\ \A g \in S : IsScope(g) BY DEF ArrayInv, ScopesTyped
  <1>4. ASSUME NEW s \in Seq(BlockStates), Placed(s, node), Scoped(s, scopes)
        PROVE  /\ s # <<>> /\ Len(scopes) = Len(s) /\ Unreturned(s)
               /\ s[Len(s)].state # "header" /\ scopes # <<>>
    <2>1. /\ s # <<>> /\ Len(scopes) = Len(s) /\ Len(s) >= 1 /\ Unreturned(s)
          /\ s[Len(s)].state # "header"
      BY <1>1, <1>4, ScopedReach, ScopesLength DEF ArrayInv
    <2> QED BY <2>1, EmptySeq
  <1>5. scopes # <<>>
    <2>1. PICK h : History(h) /\ Scoped(h[pc], scopes) BY DEF ArrayInv, NestingInv
    <2>2. pc \in 1..Len(ast) BY <1>1, NodeHere
    <2>3. h[pc] \in Seq(BlockStates) /\ Placed(h[pc], node) BY <2>1, <2>2 DEF History, node
    <2> QED BY <1>4, <2>1, <2>3
  <1>6. n \in 1..Len(scopes) /\ IsScope(scopes[n])
    <2>1. Last(scopes) \in S /\ Last(scopes) = scopes[n] /\ n \in 1..Len(scopes)
      BY <1>3, <1>5, LastLemma
    <2> QED BY <1>3, <2>1
  <1>7. IsScope(f) /\ f.blk = scopes[n].blk /\ FormOfScope(f) = FormOfScope(scopes[n])
    BY <1>6 DEF IsScope, FormOfScope
  <1> HIDE DEF f
  <1> DEFINE T == S \cup {f}
  <1>8. scopes \in Seq(T) /\ f \in T /\ \A g \in T : IsScope(g)
    BY <1>3, <1>7, SeqMonotonic
  <1> HIDE DEF T
  <1>9. /\ ss \in Seq(T) /\ Len(ss) = Len(scopes)
        /\ \A j \in 1..Len(scopes) : ss[j] = IF j = n THEN f ELSE scopes[j]
    BY <1>6, <1>8, ExceptSeq
  <1> HIDE DEF ss
  <1>10. \A j \in 1..Len(scopes) : /\ ss[j].blk = scopes[j].blk
                                   /\ FormOfScope(ss[j]) = FormOfScope(scopes[j])
    BY <1>7, <1>9
  <1> HIDE DEF n
  <1>11. ASSUME NEW s \in Seq(BlockStates), Placed(s, node), Scoped(s, scopes)
         PROVE  Scoped(Through(s, node), scopes')
    <2> DEFINE x == Block(Last(s).form, "returned")
    <2>1. Through(s, node) = Instead(s, x) BY <1>1 DEF Through
    <2>2. Scoped(Instead(s, x), ss) BY <1>4, <1>9, <1>10, <1>11, ScopedReturn
    <2> QED BY <1>2, <2>1, <2>2
  <1>12. NestingInv' BY <1>1, <1>11, YieldNests DEF ArrayInv
  <1>13. Owned(arrayDecls, scopes')
    <2>1. PICK o : Owners(o, arrayDecls, scopes) BY DEF ArrayInv, OwnedInv, Owned
    <2>2. Owners(o, arrayDecls, ss) BY <1>9, <1>10, <2>1 DEF Owners
    <2> QED BY <1>2, <2>2 DEF Owned
  <1>14. OwnedInv' BY <1>1, <1>13 DEF ArrayInv, OwnedInv
  <1>15. ScopesTyped' BY <1>1, <1>2, <1>8, <1>9 DEF ArrayInv, ScopesTyped
  <1> QED BY <1>12, <1>14, <1>15 DEF ArrayInv

(* An array is declared, and belongs to the innermost scope.               *)
LEMMA ArrayDeclArrays ==
    ASSUME IndInv, ArrayInv, Rest, ArrayDecl
    PROVE  ArrayInv'
  <1> DEFINE a == [blk |-> Scope.blk, save |-> DeclAt(pc)]
             bs == Append(arrayDecls, a)
  <1>1. /\ phase = "codegen" /\ pc <= Len(ast) /\ node.k = "arraydecl" /\ node.live
        /\ node.k \in BlockPart /\ node.k \notin Ends
        /\ UNCHANGED <<phase, scopes>> /\ Yield("none") /\ arrayDecls' = bs
    BY DEF ArrayDecl, At, BlockPart, Ends
  <1>2. PICK S : scopes \in Seq(S) BY DEF ArrayInv, ScopesTyped
  <1>3. PICK U : arrayDecls \in Seq(U) BY DEF ArrayInv, ScopesTyped
  <1>4. a.blk = Scope.blk OBVIOUS
  <1> HIDE DEF a
  <1>5. arrayDecls \in Seq(U \cup {a}) /\ a \in U \cup {a} BY <1>3, SeqMonotonic
  <1>6. /\ bs \in Seq(U \cup {a}) /\ Len(arrayDecls) \in Nat
        /\ Len(bs) = Len(arrayDecls) + 1 /\ bs[Len(arrayDecls) + 1] = a
        /\ \A n \in 1..Len(arrayDecls) : bs[n] = arrayDecls[n]
    BY <1>5, PushLemma
  <1> HIDE DEF bs
  <1>7. \A s : Through(s, node) = s BY <1>1 DEF Through
  <1>8. NestingInv' BY <1>1, <1>7, YieldNests DEF ArrayInv
  <1>9. Len(scopes) \in Nat /\ Len(scopes) >= 1 /\ scopes[Len(scopes)].blk # 0
    <2>1. PICK h : History(h) /\ Scoped(h[pc], scopes) BY DEF ArrayInv, NestingInv
    <2>2. pc \in 1..Len(ast) BY <1>1, NodeHere
    <2>3. h[pc] \in Seq(BlockStates) /\ Placed(h[pc], node) BY <2>1, <2>2 DEF History, node
    <2>4. /\ Len(scopes) = Len(h[pc]) /\ Len(h[pc]) \in Nat /\ Len(h[pc]) >= 1
          /\ h[pc][Len(h[pc])].state # "header"
      BY <1>1, <2>1, <2>3, ScopedReach, ScopesLength DEF ArrayInv
    <2>5. Len(scopes) \in 1..Len(scopes) BY <2>4
    <2> QED BY <2>1, <2>4, <2>5 DEF Scoped
  <1>10. a.blk = scopes[Len(scopes)].blk BY <1>4 DEF Scope, Last
  <1>11. Owned(bs, scopes) BY <1>6, <1>9, <1>10, OwnedDeclare DEF ArrayInv, OwnedInv
  <1>12. \A n \in 1..Len(bs) : bs[n].blk # 0
    <2>1. \A n \in 1..Len(bs) : n \in 1..Len(arrayDecls) \/ n = Len(arrayDecls) + 1 BY <1>6
    <2> QED BY <1>6, <1>9, <1>10, <2>1 DEF ArrayInv, OwnedInv
  <1>13. OwnedInv' BY <1>1, <1>11, <1>12 DEF OwnedInv
  <1>14. ScopesTyped' BY <1>1, <1>6 DEF ArrayInv, ScopesTyped
  <1> QED BY <1>8, <1>13, <1>14 DEF ArrayInv

LEMMA ProgramArrays ==
    ASSUME IndInv, ArrayInv, Rest, CodegenProgram
    PROVE  ArrayInv'
  <1>1. CASE CreateFunctions \/ EndProgram
    <2>1. \E how \in Endings : Halt(how) BY <1>1 DEF CreateFunctions, EndProgram, Endings
    <2> QED BY <2>1, HaltArrays
  <1> QED BY <1>1, BeginFunctionArrays, EndFunctionArrays, PassArrays DEF CodegenProgram

LEMMA BlockArrays ==
    ASSUME IndInv, ArrayInv, Rest, CodegenBlock, Len(ir.blocks) \in Nat
    PROVE  ArrayInv'
  <1>1. ASSUME NEW k \in {"bare", "if", "for"}, At(k), NEW n, NEW hdr, NEW next,
               FormOfScope(OpenScope(n, hdr, next)) = FormAt(node),
               scopes' = Append(scopes, OpenScope(n, hdr, next)), Statement
        PROVE  ArrayInv'
    <2> DEFINE f == OpenScope(n, hdr, next)
    <2>1. f.blk = pc /\ IsScope(f) BY DEF OpenScope, IsScope
    <2>2. pc \in Nat /\ pc \in 1..Len(ast) BY <1>1, NodeHere DEF At
    <2>3. Yield("none") /\ UNCHANGED <<phase, arrayDecls>> BY <1>1 DEF Statement
    <2> HIDE DEF f
    <2>4. (f.blk = 0 <=> k = "while") /\ k \in {"bare", "if", "while", "for"} BY <2>1, <2>2
    <2>5. scopes' = Append(scopes, f) /\ FormOfScope(f) = FormAt(node) BY <1>1 DEF f
    <2> QED BY <1>1, <2>1, <2>3, <2>4, <2>5, PushArrays
  <1>2. CASE EnterBare
    <2>1. FormOfScope(OpenScope("bare", 0, 0)) = FormAt(node)
      BY <1>2 DEF EnterBare, At, FormOfScope, FormOf, FormAt, OpenScope
    <2> QED BY <1>1, <1>2, <2>1 DEF EnterBare
  <1>3. CASE If
    <2> DEFINE then  == Len(ir.blocks) + 1
               merge == IF node.op = "else" THEN then + 2 ELSE then + 1
    <2>1. At("if") /\ Statement /\ scopes' = Append(scopes, OpenScope("then", then + 1, merge))
      BY <1>3 DEF If
    <2>2. then + 1 # merge <=> node.op = "else" OBVIOUS
    <2> HIDE DEF then, merge
    <2>3. node.k = "if" BY <2>1 DEF At
    <2>4. FormOfScope(OpenScope("then", then + 1, merge)) = FormAt(node)
      BY <2>2, <2>3 DEF FormOfScope, FormOf, FormAt, OpenScope
    <2> QED BY <1>1, <2>1, <2>4
  <1>4. CASE For
    <2>1. CASE \E how \in Endings : Halt(how) BY <2>1, HaltArrays
    <2>2. CASE ~\E how \in Endings : Halt(how)
      <3>1. "failed" \in Endings /\ "crash" \in Endings BY DEF Endings
      <3>2. At("for") /\ Statement
            /\ \E hdr : scopes' = Append(scopes, OpenScope("for", hdr, hdr + 2))
        BY <1>4, <2>2, <3>1 DEF For
      <3>3. \A hdr : FormOfScope(OpenScope("for", hdr, hdr + 2)) = FormAt(node)
        BY <3>2 DEF At, FormOfScope, FormOf, FormAt, OpenScope
      <3> QED BY <1>1, <3>2, <3>3
    <2> QED BY <2>1, <2>2
  <1>5. CASE While
    <2> DEFINE h == Len(ir.blocks) + 1
               f == [OpenScope("while", h, h + 2) EXCEPT !.blk = 0]
    <2>1. f.blk = 0 /\ IsScope(f) /\ FormOfScope(f) = "loop"
      BY DEF OpenScope, IsScope, FormOfScope, FormOf
    <2>2. /\ At("while") /\ scopes' = Append(scopes, f) /\ Yield("none")
          /\ UNCHANGED <<phase, arrayDecls>>
      BY <1>5 DEF While, Statement
    <2>3. FormAt(node) = "loop" BY <2>2 DEF At, FormAt
    <2> HIDE DEF f
    <2> QED BY <2>1, <2>2, <2>3, PushArrays
  <1>6. CASE LeaveBare \/ EndIf \/ EndLoop
    <2>1. At("end") /\ scopes' = Front(scopes) /\ CloseScope
      BY <1>6 DEF LeaveBare, EndIf, EndLoop
    <2> QED BY <2>1, CloseArrays DEF CloseScope
  <1>7. CASE ForIdent
    <2>1. At("forvar") /\ Yield("none") /\ UNCHANGED <<phase, scopes, arrayDecls>>
      BY <1>7 DEF ForIdent
    <2> QED BY <2>1, IdleArrays DEF BlockPart, Ends
  <1> QED BY <1>2, <1>3, <1>4, <1>5, <1>6, <1>7, ElseArrays, WhileBodyArrays DEF CodegenBlock

(* The rest leave scopes and arrays alone, or end the run.                 *)
Still == UNCHANGED <<phase, scopes, arrayDecls>> /\ \E ty : Yield(ty)

Idle == /\ \E k : At(k) /\ k \notin BlockPart \cup {"fn"}
        /\ (\E how \in Endings : Halt(how)) \/ Still

LEMMA StillArrays ==
    ASSUME IndInv, ArrayInv, Rest, Idle
    PROVE  ArrayInv'
  BY HaltArrays, IdleArrays DEF Idle, Still

LEMMA StmtArrays ==
    ASSUME IndInv, ArrayInv, Rest, CodegenStmt
    PROVE  ArrayInv'
  <1>1. "failed" \in Endings /\ "crash" \in Endings BY DEF Endings
  <1>2. CASE VarDecl \/ PrintArg \/ Abort
    <2>1. \E k \in {"vardecl", "print", "abort"} : At(k)
      BY <1>2 DEF VarDecl, PrintArg, Abort
    <2>2. Still BY <1>2, Zenon DEF VarDecl, PrintArg, Abort, Statement, Still
    <2> QED BY <2>1, <2>2, StillArrays DEF Idle, BlockPart, Ends
  <1>3. CASE VarAssignment \/ ArrayAssignmentIndex \/ ArrayAssignment
    <2>1. \E k \in {"assign", "elemaddr", "elemassign"} : At(k)
      BY <1>3, Zenon DEF VarAssignment, ArrayAssignmentIndex, ArrayAssignment
    <2>2. Halt("failed") \/ Halt("crash") \/ Still
      BY <1>3, Zenon DEF VarAssignment, ArrayAssignmentIndex, ArrayAssignment, Indexing, Still
    <2> QED BY <1>1, <2>1, <2>2, StillArrays DEF Idle, BlockPart, Ends
  <1> QED BY <1>2, <1>3, ReturnArrays, ArrayDeclArrays DEF CodegenStmt

LEMMA ExprArrays ==
    ASSUME IndInv, ArrayInv, Rest, CodegenExpr
    PROVE  ArrayInv'
  <1>1. "failed" \in Endings /\ "crash" \in Endings BY DEF Endings
  <1>2. \A op, bad, ty : Computed(op, bad, ty) => Still BY DEF Computed, Still
  <1>3. \A ty : Constant(ty) => Still BY DEF Constant, Still
  <1>4. CASE TrueFalse \/ Num \/ StringLiteral \/ Input
    <2>1. \E k \in {"bool", "num", "string", "input"} : At(k)
      BY <1>4, Zenon DEF TrueFalse, Num, StringLiteral, Input
    <2>2. Still BY <1>2, <1>3, <1>4, Zenon DEF TrueFalse, Num, StringLiteral, Input
    <2> QED BY <2>1, <2>2, StillArrays DEF Idle, BlockPart, Ends
  <1>5. CASE Ternary \/ Binop \/ Unary \/ FnCall
    <2>1. \E k \in {"ternary", "binop", "unary", "call"} : At(k)
      BY <1>5 DEF Ternary, Binop, Unary, FnCall
    <2>2. Still BY <1>2, <1>5, Zenon DEF Ternary, Binop, Unary, FnCall
    <2> QED BY <2>1, <2>2, StillArrays DEF Idle, BlockPart, Ends
  <1>6. CASE Id \/ Sizeof \/ ArrayExpr
    <2>1. \E k \in {"id", "sizeof", "elem"} : At(k)
      BY <1>6, Zenon DEF Id, Sizeof, ArrayExpr
    <2>2. Halt("failed") \/ Halt("crash") \/ Still
      BY <1>6, Zenon DEF Id, Sizeof, ArrayExpr, Indexing, Still
    <2> QED BY <1>1, <2>1, <2>2, StillArrays DEF Idle, BlockPart, Ends
  <1> QED BY <1>4, <1>5, <1>6 DEF CodegenExpr

-----------------------------------------------------------------------------
(* It holds before code generation, and so throughout.                     *)

LEMMA InitArrays ==
    ASSUME Init
    PROVE  ArrayInv
  <1>1. /\ ast = <<>> /\ visiting = <<>> /\ pc = 1 /\ scopes = <<>> /\ arrayDecls = <<>>
        /\ phase = "declare"
    BY DEF Init, TypecheckerInit, CodegenInit
  <1>2. Len(ast) = 0 /\ Len(visiting) = 0 /\ Len(scopes) = 0 /\ Len(arrayDecls) = 0
    BY <1>1, EmptySeq
  <1> DEFINE h == [i \in {1} |-> <<>>]
  <1>3. h[1] = <<>> /\ <<>> \in Seq(BlockStates) /\ Len(<<>>) = 0 BY EmptySeq
  <1> HIDE DEF h
  <1>4. Matches(<<>>, visiting) BY <1>2, <1>3 DEF Matches
  <1>5. History(h) BY <1>2, <1>3, <1>4 DEF History
  <1>6. Scoped(h[pc], scopes) BY <1>1, <1>2, <1>3 DEF Scoped
  <1>7. NestingInv BY <1>5, <1>6 DEF NestingInv
  <1>8. \A o : Owners(o, arrayDecls, scopes) BY <1>2 DEF Owners
  <1>9. OwnedInv BY <1>1, <1>2, <1>8 DEF OwnedInv, Owned
  <1>10. ScopesTyped
    <2>1. <<>> \in Seq({}) BY EmptySeq
    <2> QED BY <1>1, <2>1 DEF ScopesTyped
  <1> QED BY <1>7, <1>9, <1>10 DEF ArrayInv

(* Code generation has not begun.                                          *)
LEMMA UnbegunArrays ==
    ASSUME IndInv, ArrayInv, phase \in {"declare", "typecheck"}, UNCHANGED cgVars, Nested'
    PROVE  ArrayInv'
  <1>1. /\ pc' = 1 /\ scopes' = <<>> /\ arrayDecls' = <<>>
        /\ scopes' = scopes /\ arrayDecls' = arrayDecls
    BY DEF cgVars, IndInv, AgreeInv, ArrayInv, OwnedInv
  <1>2. NestingInv'
    <2>1. PICK h : History(h)' BY DEF Nested
    <2>2. h[pc'] = <<>> BY <1>1, <2>1 DEF History
    <2>3. Len(<<>>) = 0 BY EmptySeq
    <2>4. Scoped(h[pc'], scopes') BY <1>1, <2>2, <2>3 DEF Scoped
    <2> QED BY <2>1, <2>4 DEF NestingInv
  <1>3. OwnedInv' BY <1>1 DEF ArrayInv, OwnedInv
  <1>4. ScopesTyped' BY <1>1 DEF ArrayInv, ScopesTyped
  <1> QED BY <1>2, <1>3, <1>4 DEF ArrayInv

LEMMA NextArrays ==
    ASSUME IndInv, IndInv', ArrayInv, [Next]_vars, Len(ir.blocks) \in Nat
    PROVE  ArrayInv'
  <1>1. Good /\ Good' /\ Nested BY DEF IndInv, ArrayInv, NestingInv, Nested
  <1>2. CASE TypecheckerNext /\ UNCHANGED cgVars
    <2>1. phase \in {"declare", "typecheck"} BY <1>2, TypecheckPhase
    <2>2. Nested'
      BY <1>1, <1>2, ProgramNests, BlockNests, StmtNests, ExprNests DEF TypecheckerNext
    <2> QED BY <1>2, <2>1, <2>2, UnbegunArrays
  <1>3. CASE (CodegenProgram \/ CodegenBlock \/ CodegenStmt \/ CodegenExpr) /\ Rest
    BY <1>3, ProgramArrays, BlockArrays, StmtArrays, ExprArrays
  <1>4. CASE UNCHANGED vars
    <2>1. UNCHANGED <<phase, ast, visiting, pc, scopes, arrayDecls>>
      BY <1>4 DEF vars, cgVars, shared, tcVars
    <2>2. NestingInv' BY <2>1 DEF ArrayInv, NestingInv, History
    <2>3. OwnedInv' BY <2>1 DEF ArrayInv, OwnedInv
    <2>4. ScopesTyped' BY <2>1 DEF ArrayInv, ScopesTyped
    <2> QED BY <2>2, <2>3, <2>4 DEF ArrayInv
  <1> QED BY <1>2, <1>3, <1>4 DEF Next, Ended, TypecheckerNext, Rest

-----------------------------------------------------------------------------
(* The current block goes on by `is' and ends, p is next; the other blocks *)
(* that c awaits are still to be filled.                                   *)
Continues(f, is, p, g) ==
    /\ IsFunction(g) /\ Len(g.blocks) = Len(f.blocks) /\ g.at = p
    /\ g.blocks[f.at] = f.blocks[f.at] \o is
    /\ \A b \in Blocks(f) : b # f.at => g.blocks[b] = f.blocks[b]

Arrived(g, L, F, A, scs, c, p) ==
    /\ FlowAt(g, L, F, A, scs)
    /\ \A q \in Pending(c) : q # p => /\ q \in Blocks(g) \ {1, g.at}
                                      /\ g.blocks[q] = <<>> /\ L[q] = Saves(A, Len(A))

LEMMA Arrives ==
    ASSUME NEW f, NEW L, NEW F, NEW A, NEW scs, NEW c, Between(f, L, F, A, scs, c),
           Len(A) \in Nat, \A n \in 1..Len(A) : A[n].save # None,
           NEW is, Sequence(is), Neutral(is),
           \A b \in Exits(is) : b \in Blocks(f) /\ L[b] = Saves(A, Len(A)),
           NEW p \in Pending(c),
           NEW g, Continues(f, is, p, g)
    PROVE  Arrived(g, L, F, A, scs, c, p)
  <1> DEFINE s == Saves(A, Len(A))
  <1>0. /\ IsFunction(g) /\ Len(g.blocks) = Len(f.blocks) /\ g.at = p
        /\ g.blocks[f.at] = f.blocks[f.at] \o is
        /\ \A b \in Blocks(f) : b # f.at => g.blocks[b] = f.blocks[b]
    BY DEF Continues
  <1>1. Labelled(f, L, s) /\ IsFunction(f) BY DEF Between, FlowAt, Labelled
  <1>2. /\ Len(f.blocks) \in Nat /\ f.at \in Blocks(f) /\ Blocks(f) = 1..Len(f.blocks)
        /\ \A b \in Blocks(f) : Sequence(f.blocks[b])
    BY <1>1, FunctionLen
  <1>3. Blocks(g) = Blocks(f) BY <1>0 DEF Blocks
  <1>4. \A q \in Pending(c) : q \in Blocks(f) \ {1, f.at} /\ f.blocks[q] = <<>> /\ L[q] = s
    BY DEF Between, Awaits
  <1>5. s # Unbalanced BY SavesBracket
  <1> HIDE DEF s
  <1>6. g.blocks[g.at] = <<>> /\ L[g.at] = s BY <1>0, <1>4
  <1>7. Exits(g.blocks[g.at]) = {} /\ Runs(g.blocks[g.at], L[g.at], s)
    <2>1. Runs(<<>>, s, s) BY EmptySequence, RunsNeutral
    <2> QED BY <1>6, <2>1, EmptySequence
  <1>8. Runs(is, s, s) BY SequenceLen, RunsNeutral
  <1>9. Len(g.blocks) >= Len(f.blocks) BY <1>0, <1>2
  <1>10. \A b \in Blocks(g) : L[b] = IF b \in Blocks(f) THEN L[b] ELSE s BY <1>3
  <1>11. \A b \in Exits(is) : b \in Blocks(g) /\ L[b] = s BY <1>3 DEF s
  <1>12. Labelled(g, L, s)
    <2>1. \A b \in Blocks(g) \ Blocks(f) : FALSE BY <1>3
    <2>2. IsFunction(g) BY <1>0
    <2>3. g.blocks[f.at] = f.blocks[f.at] \o is BY <1>0
    <2>4. \A b \in Blocks(f) : b # f.at => g.blocks[b] = f.blocks[b] BY <1>0
    <2>5. Exits(g.blocks[g.at]) = {} BY <1>7
    <2>6. Runs(g.blocks[g.at], L[g.at], s) BY <1>7
    <2>7. Labelled(f, L, s) BY <1>1
    <2> QED
      BY SMTT(30), <1>5, <1>8, <1>9, <1>10, <1>11, <2>1, <2>2, <2>3, <2>4, <2>5, <2>6, <2>7,
         GrowLabels
  <1>13. Enlarged(f, L, g, L) BY <1>0, <1>2 DEF Enlarged
  <1>14. \A j \in 1..Len(scs) : g.at \notin Pending(scs[j]) BY <1>0 DEF Between
  <1>15. AllAwait(g, L, F, A, scs)
    BY <1>13, <1>14, AllAwaitKept DEF Between, FlowAt
  <1>16. FlowAt(g, L, F, A, scs) BY <1>12, <1>15 DEF Between, FlowAt, s
  <1> QED BY <1>0, <1>3, <1>4, <1>16 DEF s, Arrived

(* A statement makes blocks, and moves to one of them.                     *)
LEMMA FlowOpen ==
    ASSUME NEW f, NEW L, NEW F, NEW A, NEW scs, FlowAt(f, L, F, A, scs),
           Len(A) \in Nat, \A n \in 1..Len(A) : A[n].save # None,
           NEW g, IsFunction(g), Len(g.blocks) >= Len(f.blocks),
           NEW is, Sequence(is), Neutral(is), \A b \in Exits(is) : b \in Blocks(g) \ Blocks(f),
           g.blocks[f.at] = f.blocks[f.at] \o is,
           \A b \in Blocks(f) : b # f.at => g.blocks[b] = f.blocks[b],
           \A b \in Blocks(g) \ Blocks(f) :
              Neutral(g.blocks[b]) /\ Exits(g.blocks[b]) \subseteq Blocks(g) \ Blocks(f),
           g.at \in Blocks(g) \ Blocks(f), Exits(g.blocks[g.at]) = {}
    PROVE  \E M : /\ FlowAt(g, M, F, A, scs)
                  /\ \A b \in Blocks(g) \ Blocks(f) : M[b] = Saves(A, Len(A))
  <1> DEFINE s == Saves(A, Len(A))
             M == [b \in Blocks(g) |-> IF b \in Blocks(f) THEN L[b] ELSE s]
  <1>1. Labelled(f, L, s) /\ IsFunction(f) BY DEF FlowAt, Labelled
  <1>2. /\ Len(f.blocks) \in Nat /\ Blocks(f) = 1..Len(f.blocks)
        /\ Len(g.blocks) \in Nat /\ Blocks(g) = 1..Len(g.blocks) /\ g.at \in Blocks(g)
        /\ \A b \in Blocks(g) : Len(g.blocks[b]) \in Nat
    BY <1>1, FunctionLen
  <1>3. Blocks(f) \subseteq Blocks(g) BY <1>2
  <1>4. \A b \in Blocks(g) : M[b] = IF b \in Blocks(f) THEN L[b] ELSE s OBVIOUS
  <1>5. s # Unbalanced BY SavesBracket
  <1> HIDE DEF s, M
  <1>6. Runs(is, s, s) BY SequenceLen, RunsNeutral
  <1>7. M[g.at] = s /\ Runs(g.blocks[g.at], s, s) BY <1>2, <1>4, RunsNeutral
  <1>8. \A c \in Exits(is) : c \in Blocks(g) /\ M[c] = s BY <1>4
  <1>9. \A b \in Blocks(g) \ Blocks(f) :
           Neutral(g.blocks[b]) /\ \A c \in Exits(g.blocks[b]) : c \in Blocks(g) /\ M[c] = s
    BY <1>4
  <1>10. Labelled(g, M, s) BY SMTT(30), <1>1, <1>4, <1>5, <1>6, <1>7, <1>8, <1>9, GrowLabels
  <1>11. Enlarged(f, L, g, M) BY <1>2, <1>3, <1>4 DEF Enlarged
  <1>12. \A j \in 1..Len(scs) : g.at \notin Pending(scs[j])
    BY DEF FlowAt, AllAwait, Awaits
  <1>13. AllAwait(g, M, F, A, scs) BY <1>11, <1>12, AllAwaitKept DEF FlowAt
  <1>14. FlowAt(g, M, F, A, scs) BY <1>10, <1>13 DEF FlowAt, s
  <1> QED BY <1>4, <1>14 DEF s

(* The current block goes on; no array is declared or released.            *)
LEMMA FlowEmit ==
    ASSUME NEW f, NEW L, NEW F, NEW A, NEW scs, FlowAt(f, L, F, A, scs),
           Len(A) \in Nat, \A n \in 1..Len(A) : A[n].save # None,
           NEW is, Sequence(is), Neutral(is), Exits(is) = {}
    PROVE  FlowAt(Emit(f, is), L, F, A, scs)
  <1> DEFINE s == Saves(A, Len(A))
             g == Emit(f, is)
  <1>1. Labelled(f, L, s) /\ IsFunction(f) BY DEF FlowAt, Labelled
  <1>2. /\ Len(f.blocks) \in Nat /\ f.at \in Blocks(f) /\ Blocks(f) = 1..Len(f.blocks)
        /\ \A b \in Blocks(f) : Sequence(f.blocks[b])
    BY <1>1, FunctionLen
  <1>3. /\ IsFunction(g) /\ Len(g.blocks) = Len(f.blocks) /\ g.at = f.at
        /\ g.blocks[f.at] = f.blocks[f.at] \o is
        /\ \A c \in Blocks(f) : c # f.at => g.blocks[c] = f.blocks[c]
    BY <1>1, EmitBlock
  <1>4. s # Unbalanced BY SavesBracket
  <1> HIDE DEF s, g
  <1>5. Blocks(g) = Blocks(f) /\ Len(g.blocks) >= Len(f.blocks) BY <1>2, <1>3 DEF Blocks
  <1>6. Exits(g.blocks[g.at]) = {} /\ Runs(is, s, s) /\ Runs(g.blocks[g.at], L[g.at], s)
    <2>1. Exits(f.blocks[f.at]) = {} /\ Runs(f.blocks[f.at], L[f.at], s) BY <1>1 DEF Labelled
    <2>2. Exits(f.blocks[f.at] \o is) = Exits(f.blocks[f.at]) \cup Exits(is)
      BY <1>2, NeutralJoin
    <2>3. Runs(is, s, s) BY SequenceLen, RunsNeutral
    <2>4. Runs(f.blocks[f.at] \o is, L[f.at], s) BY <1>2, <2>1, <2>3, RunsJoin
    <2> QED BY <1>3, <2>1, <2>2, <2>3, <2>4
  <1>7. \A b \in Blocks(g) : L[b] = IF b \in Blocks(f) THEN L[b] ELSE s BY <1>5
  <1>8. Labelled(g, L, s) BY <1>1, <1>3, <1>4, <1>5, <1>6, <1>7, GrowLabels
  <1>9. Enlarged(f, L, g, L) BY <1>2, <1>3 DEF Enlarged
  <1>10. \A j \in 1..Len(scs) : g.at \notin Pending(scs[j])
    BY <1>3 DEF FlowAt, AllAwait, Awaits
  <1>11. AllAwait(g, L, F, A, scs) BY <1>9, <1>10, AllAwaitKept DEF FlowAt
  <1>12. FlowAt(g, L, F, A, scs) BY <1>8, <1>11 DEF FlowAt, s
  <1> QED BY <1>12 DEF g

(* An alloca goes into the entry block.                                    *)
LEMMA FlowEntry ==
    ASSUME NEW f, NEW L, NEW F, NEW A, NEW scs, FlowAt(f, L, F, A, scs),
           NEW is, Sequence(is), Neutral(is), Exits(is) = {}
    PROVE  FlowAt(EmitInEntry(f, is), L, F, A, scs)
  <1> DEFINE s == Saves(A, Len(A))
             g == EmitInEntry(f, is)
  <1>1. Labelled(f, L, s) /\ IsFunction(f) BY DEF FlowAt, Labelled
  <1>2. Len(f.blocks) \in Nat BY <1>1, FunctionLen
  <1>3. /\ IsFunction(g) /\ Len(g.blocks) = Len(f.blocks) /\ g.at = f.at
        /\ \A c \in Blocks(f) : c # 1 => g.blocks[c] = f.blocks[c]
    BY <1>1, EntryBlock
  <1>4. Labelled(g, L, s) BY <1>1, EntryLabels
  <1> HIDE DEF s, g
  <1>5. Enlarged(f, L, g, L) BY <1>2, <1>3 DEF Enlarged
  <1>6. \A j \in 1..Len(scs) : g.at \notin Pending(scs[j])
    BY <1>3 DEF FlowAt, AllAwait, Awaits
  <1>7. AllAwait(g, L, F, A, scs) BY <1>5, <1>6, AllAwaitKept DEF FlowAt
  <1>8. FlowAt(g, L, F, A, scs) BY <1>4, <1>7 DEF FlowAt, s
  <1> QED BY <1>8 DEF g

-----------------------------------------------------------------------------
(* The actions of the code generator.                                      *)

(* What FlowInv says where the code generator visits a node.               *)
LEMMA FlowHere ==
    ASSUME IndInv, ArrayInv, FlowInv, phase = "codegen", pc <= Len(ast)
    PROVE  /\ pc \in Nat /\ pc >= 1
           /\ Len(scopes) \in Nat /\ \E S : scopes \in Seq(S)
           /\ Len(arrayDecls) \in Nat /\ \E U : arrayDecls \in Seq(U)
           /\ \A n \in 1..Len(arrayDecls) : /\ arrayDecls[n].save # None
                                            /\ arrayDecls[n].blk # 0 /\ arrayDecls[n].blk # pc
           /\ \E L, F : FlowAt(ir, L, F, arrayDecls, scopes)
  <1>1. pc \in Nat /\ pc >= 1 BY NodeHere
  <1>2. Len(scopes) \in Nat /\ Len(arrayDecls) \in Nat BY ScopesLength DEF ArrayInv
  <1>3. (\E S : scopes \in Seq(S)) /\ (\E U : arrayDecls \in Seq(U)) BY DEF ArrayInv, ScopesTyped
  <1>4. ASSUME NEW n \in 1..Len(arrayDecls)
        PROVE  arrayDecls[n].save # None /\ arrayDecls[n].blk # 0 /\ arrayDecls[n].blk # pc
    <2>1. arrayDecls[n].blk \in 0..(pc - 1) /\ arrayDecls[n].save # None
      BY DEF FlowInv, Declared
    <2>2. arrayDecls[n].blk # 0 BY DEF ArrayInv, OwnedInv
    <2> QED BY <1>1, <2>1, <2>2
  <1>5. \E L, F : FlowAt(ir, L, F, arrayDecls, scopes) BY DEF FlowInv, Flows
  <1> QED BY <1>1, <1>2, <1>3, <1>4, <1>5

(* The next node has a greater number.                                     *)
LEMMA DeclaredMore ==
    ASSUME NEW i \in Nat, i >= 1, NEW A, NEW scs, Declared(A, scs, i)
    PROVE  Declared(A, scs, i + 1) /\ \A n \in 0..(i - 1) : n \in 0..((i + 1) - 1)
  <1>1. \A n \in 0..(i - 1) : n \in 0..((i + 1) - 1) OBVIOUS
  <1> QED BY <1>1 DEF Declared

(* A node is passed, with the scopes and the arrays as they are.           *)
LEMMA FlowGoesOn ==
    ASSUME IndInv, ArrayInv, FlowInv, phase = "codegen", pc <= Len(ast),
           NEW ty, Yield(ty), UNCHANGED <<scopes, arrayDecls>>,
           Flows(ir', arrayDecls, scopes)
    PROVE  FlowInv'
  <1>1. pc \in Nat /\ pc >= 1 /\ Declared(arrayDecls, scopes, pc) BY FlowHere DEF FlowInv
  <1>2. Declared(arrayDecls, scopes, pc + 1) BY <1>1, DeclaredMore
  <1>3. pc' = pc + 1 BY DEF Yield
  <1> QED BY <1>2, <1>3 DEF FlowInv

(* What FlowInv is about is as it was.                                     *)
LEMMA FlowStays ==
    ASSUME FlowInv, UNCHANGED <<pc, scopes, arrayDecls, ir>>
    PROVE  FlowInv'
  BY DEF FlowInv

(* A node for which nothing is emitted.                                    *)
LEMMA FlowPasses ==
    ASSUME IndInv, ArrayInv, FlowInv, phase = "codegen", pc <= Len(ast),
           NEW ty, Yield(ty), UNCHANGED <<scopes, arrayDecls, ir>>
    PROVE  FlowInv'
  <1>1. Flows(ir', arrayDecls, scopes) BY DEF FlowInv
  <1> QED BY <1>1, FlowGoesOn

(* Instructions that are no branch, save or restore.                       *)
LEMMA OneInstr ==
    ASSUME NEW i, i.to = <<>>, i.op \notin {"save", "restore"}
    PROVE  Sequence(<<i>>) /\ Neutral(<<i>>) /\ Exits(<<i>>) = {}
  <1>1. Len(<<i>>) = 1 /\ <<i>>[1] = i /\ <<i>> \in Seq({i}) OBVIOUS
  <1>2. Sequence(<<i>>) BY <1>1 DEF Sequence
  <1>3. \A n \in 1..1 : n = 1 OBVIOUS
  <1>4. Neutral(<<i>>) BY <1>1, <1>3 DEF Neutral
  <1>5. ToSet(i.to) = {}
    <2>1. Len(<<>>) = 0 BY EmptySeq
    <2> QED BY <2>1 DEF ToSet
  <1>6. Exits(<<i>>) = {} BY <1>1, <1>3, <1>5 DEF Exits
  <1> QED BY <1>2, <1>4, <1>6

(* A node for which what is emitted only adds to a block.                  *)
LEMMA FlowEmits ==
    ASSUME IndInv, ArrayInv, FlowInv, phase = "codegen", pc <= Len(ast),
           NEW ty, Yield(ty), UNCHANGED <<scopes, arrayDecls>>,
           NEW is, Sequence(is), Neutral(is), Exits(is) = {},
           ir' = Emit(ir, is) \/ ir' = EmitInEntry(ir, is)
    PROVE  FlowInv'
  <1>1. PICK L, F : FlowAt(ir, L, F, arrayDecls, scopes) BY FlowHere
  <1>2. Len(arrayDecls) \in Nat /\ \A n \in 1..Len(arrayDecls) : arrayDecls[n].save # None
    BY FlowHere
  <1>3. FlowAt(Emit(ir, is), L, F, arrayDecls, scopes) BY <1>1, <1>2, FlowEmit
  <1>4. FlowAt(EmitInEntry(ir, is), L, F, arrayDecls, scopes) BY <1>1, FlowEntry
  <1>5. FlowAt(ir', L, F, arrayDecls, scopes) BY <1>3, <1>4
  <1>6. Flows(ir', arrayDecls, scopes) BY <1>5 DEF Flows
  <1> QED BY <1>6, FlowGoesOn

(* Two of them, those of an abort, and those of a variable.                *)
LEMMA TwoInstrs ==
    ASSUME NEW i, NEW j, i.to = <<>>, j.to = <<>>,
           i.op \notin {"save", "restore"}, j.op \notin {"save", "restore"}
    PROVE  Sequence(<<i, j>>) /\ Neutral(<<i, j>>) /\ Exits(<<i, j>>) = {}
  <1>1. Len(<<i, j>>) = 2 /\ <<i, j>>[1] = i /\ <<i, j>>[2] = j /\ <<i, j>> \in Seq({i, j})
    OBVIOUS
  <1>2. Sequence(<<i, j>>) BY <1>1 DEF Sequence
  <1>3. \A n \in 1..2 : n = 1 \/ n = 2 OBVIOUS
  <1>4. Neutral(<<i, j>>) BY <1>1, <1>3 DEF Neutral
  <1>5. ToSet(i.to) = {} /\ ToSet(j.to) = {}
    <2>1. Len(<<>>) = 0 BY EmptySeq
    <2> QED BY <2>1 DEF ToSet
  <1>6. \A n \in 1..Len(<<i, j>>) : ToSet(<<i, j>>[n].to) = {} BY <1>1, <1>3, <1>5
  <1>7. Exits(<<i, j>>) = {} BY <1>6 DEF Exits
  <1> QED BY <1>2, <1>4, <1>7

LEMMA TrapAborts ==
    ASSUME NEW i
    PROVE  Sequence(Trap(i)) /\ Neutral(Trap(i)) /\ Exits(Trap(i)) = {}
  <1> DEFINE a == Instr("abort", i, None, <<>>, <<>>)
             u == Instr("unreachable", i, None, <<>>, <<>>)
  <1>1. /\ a.to = <<>> /\ a.op \notin {"save", "restore"}
        /\ u.to = <<>> /\ u.op \notin {"save", "restore"}
    BY DEF Instr
  <1>2. Trap(i) = <<a, u>> BY DEF Trap
  <1> HIDE DEF a, u
  <1> QED BY <1>1, <1>2, TwoInstrs

LEMMA ClearedAllocates ==
    ASSUME NEW d, NEW ty
    PROVE  /\ Sequence(ClearedAlloca(d, ty)) /\ Neutral(ClearedAlloca(d, ty))
           /\ Exits(ClearedAlloca(d, ty)) = {}
  <1> DEFINE a == Alloca(d)
             c == Instr("clear", 0, d, <<Bytes(ty)>>, <<>>)
  <1>1. /\ a.to = <<>> /\ a.op \notin {"save", "restore"}
        /\ c.to = <<>> /\ c.op \notin {"save", "restore"}
    BY DEF Alloca, Instr
  <1>2. ClearedAlloca(d, ty) = <<a>> \/ ClearedAlloca(d, ty) = <<a, c>> BY DEF ClearedAlloca
  <1> HIDE DEF a, c
  <1> QED BY <1>1, <1>2, OneInstr, TwoInstrs

(* One instruction is inserted.                                            *)
LEMMA InsertFlows ==
    ASSUME IndInv, ArrayInv, FlowInv, phase = "codegen", pc <= Len(ast),
           NEW op, op \notin {"save", "restore"}, NEW arg, NEW vals, Insert(op, arg, vals),
           NEW ty, Yield(ty), UNCHANGED <<scopes, arrayDecls>>
    PROVE  FlowInv'
  <1> DEFINE i == Made(op, arg, vals, <<>>)
  <1>1. i.to = <<>> /\ i.op \notin {"save", "restore"} BY DEF Made, Instr
  <1>2. ir' = Emit(ir, <<i>>) BY DEF Insert
  <1> HIDE DEF i
  <1>3. Sequence(<<i>>) /\ Neutral(<<i>>) /\ Exits(<<i>>) = {} BY <1>1, OneInstr
  <1> QED BY <1>2, <1>3, FlowEmits

(* The code generator ends.                                                *)
LEMMA HaltFlows ==
    ASSUME FlowInv, NEW how, Halt(how)
    PROVE  FlowInv'
  BY FlowStays DEF Halt, cgVars

(* The operator of a binary operation is one the switch has a case for.    *)
LEMMA NodeOperates ==
    ASSUME IndInv, ArrayInv, phase = "codegen", pc <= Len(ast), node.k = "binop"
    PROVE  BinopInstr(node.op) \notin {"save", "restore"}
  <1>1. PICK h : History(h) BY DEF ArrayInv, NestingInv
  <1>2. pc \in 1..Len(ast) BY NodeHere
  <1>3. node.op \in BinOps BY <1>1, <1>2 DEF History, node, Operates, isBinOp
  <1> QED BY <1>3 DEF BinOps, BinopInstr

(* The expressions whose code is in one block.                             *)
LEMMA ExprFlows ==
    ASSUME IndInv, ArrayInv, FlowInv, CodegenExpr, ~ArrayExpr
    PROVE  FlowInv'
  <1>1. CASE TrueFalse \/ Num \/ StringLiteral
    <2>1. phase = "codegen" /\ pc <= Len(ast) BY <1>1 DEF TrueFalse, Num, StringLiteral, At
    <2>2. (\E ty : Yield(ty)) /\ UNCHANGED <<scopes, arrayDecls, ir>>
      BY <1>1, Zenon DEF TrueFalse, Num, StringLiteral, Constant
    <2> QED BY <2>1, <2>2, FlowPasses
  <1>2. ASSUME NEW op, op \notin {"save", "restore"}, NEW bad, NEW ty, Computed(op, bad, ty),
               phase = "codegen", pc <= Len(ast)
        PROVE  FlowInv'
    <2>1. Insert(op, None, node.kids) /\ Yield(ty) /\ UNCHANGED <<scopes, arrayDecls>>
      BY <1>2 DEF Computed
    <2> QED BY <1>2, <2>1, InsertFlows
  <1>3. CASE Input \/ Ternary \/ FnCall
    <2>1. phase = "codegen" /\ pc <= Len(ast) BY <1>3 DEF Input, Ternary, FnCall, At
    <2>2. \E op \in {"input", "select", "call"} : \E bad, ty : Computed(op, bad, ty)
      BY <1>3 DEF Input, Ternary, FnCall
    <2> QED BY <1>2, <2>1, <2>2
  <1>4. CASE Unary
    <2>1. phase = "codegen" /\ pc <= Len(ast) BY <1>4 DEF Unary, At
    <2>2. \E op \in {"not", "neg"} : \E bad, ty : Computed(op, bad, ty) BY <1>4 DEF Unary
    <2> QED BY <1>2, <2>1, <2>2
  <1>5. CASE Binop
    <2>1. phase = "codegen" /\ pc <= Len(ast) /\ node.k = "binop" BY <1>5 DEF Binop, At
    <2>2. \E bad, ty : Computed(BinopInstr(node.op), bad, ty) BY <1>5 DEF Binop
    <2> QED BY <1>2, <2>1, <2>2, NodeOperates
  <1>6. CASE Id \/ Sizeof
    <2>1. phase = "codegen" /\ pc <= Len(ast) BY <1>6 DEF Id, Sizeof, At
    <2>2. \/ \E how : Halt(how)
          \/ /\ \E op \in {"load", "size"} : \E d : Insert(op, d, <<>>)
             /\ \E ty : Yield(ty)
             /\ UNCHANGED <<scopes, arrayDecls>>
      BY <1>6 DEF Id, Sizeof
    <2> QED BY <2>1, <2>2, HaltFlows, InsertFlows
  <1> QED BY <1>1, <1>3, <1>4, <1>5, <1>6 DEF CodegenExpr

(* A branch, and where it goes.                                            *)
LEMMA OneBranch ==
    ASSUME NEW i, NEW S, ToSet(i.to) = S, i.op \notin {"save", "restore"}
    PROVE  Sequence(<<i>>) /\ Neutral(<<i>>) /\ Exits(<<i>>) = S
  <1>1. Len(<<i>>) = 1 /\ <<i>>[1] = i /\ <<i>> \in Seq({i}) OBVIOUS
  <1>2. Sequence(<<i>>) BY <1>1 DEF Sequence
  <1>3. \A n \in 1..1 : n = 1 OBVIOUS
  <1>4. Neutral(<<i>>) BY <1>1, <1>3 DEF Neutral
  <1>5. Exits(<<i>>) = S
    <2>1. {ToSet(<<i>>[n].to) : n \in 1..Len(<<i>>)} = {S} BY <1>1, <1>3
    <2> QED BY <2>1 DEF Exits
  <1> QED BY <1>2, <1>4, <1>5

LEMMA Targets ==
    ASSUME NEW b, NEW c
    PROVE  ToSet(<<b>>) = {b} /\ ToSet(<<b, c>>) = {b, c}
  <1>1. Len(<<b>>) = 1 /\ <<b>>[1] = b OBVIOUS
  <1>2. Len(<<b, c>>) = 2 /\ <<b, c>>[1] = b /\ <<b, c>>[2] = c OBVIOUS
  <1>3. (\A n \in 1..1 : n = 1) /\ (\A n \in 1..2 : n = 1 \/ n = 2) OBVIOUS
  <1>4. ToSet(<<b>>) = {b} BY <1>1, <1>3 DEF ToSet
  <1>5. ToSet(<<b, c>>) = {b, c} BY <1>2, <1>3 DEF ToSet
  <1> QED BY <1>4, <1>5

(* The blocks a statement adds, as many as n, how it fills one of them, and *)
(* where it goes on.                                                       *)
Adds(f, n, is, g) == g = Emit(AddBlocks(f, n), is)
Puts(f, b, is, g) == g = Put(f, b, is)
Moves(f, b, g)    == g = SetInsertPoint(f, b)

(* Emitting and moving, as relations of two functions.                     *)
LEMMA PutsBlock ==
    ASSUME NEW f, IsFunction(f), NEW b \in Blocks(f), NEW is, Sequence(is),
           NEW g, Puts(f, b, is, g)
    PROVE  /\ IsFunction(g) /\ Len(g.blocks) = Len(f.blocks) /\ g.at = f.at
           /\ Blocks(g) = Blocks(f) /\ g.blocks[b] = is
           /\ \A c \in Blocks(f) : c # b => g.blocks[c] = f.blocks[c]
  <1>1. g = Put(f, b, is) BY DEF Puts
  <1>2. /\ IsFunction(g) /\ Len(g.blocks) = Len(f.blocks) /\ g.at = f.at
        /\ g.blocks[b] = is
        /\ \A c \in Blocks(f) : c # b => g.blocks[c] = f.blocks[c]
    BY <1>1, PutBlock
  <1>3. Blocks(g) = Blocks(f) BY <1>2 DEF Blocks
  <1> QED BY <1>2, <1>3

LEMMA MovesBlock ==
    ASSUME NEW f, IsFunction(f), NEW b \in Blocks(f), NEW g, Moves(f, b, g)
    PROVE  IsFunction(g) /\ g.blocks = f.blocks /\ g.at = b /\ Blocks(g) = Blocks(f)
  <1>1. g = SetInsertPoint(f, b) BY DEF Moves
  <1>2. IsFunction(g) /\ g.blocks = f.blocks /\ g.at = b BY <1>1, MoveBlock
  <1> QED BY <1>2 DEF Blocks

(* The blocks that a statement makes are new and empty.                    *)
LEMMA NewBlocks ==
    ASSUME NEW f, IsFunction(f), NEW n \in Nat, NEW is, Sequence(is),
           NEW g, Adds(f, n, is, g)
    PROVE  /\ IsFunction(g) /\ Len(g.blocks) = Len(f.blocks) + n /\ g.at = f.at
           /\ Blocks(g) = 1..(Len(f.blocks) + n) /\ Blocks(f) = 1..Len(f.blocks)
           /\ Len(f.blocks) \in Nat /\ f.at \in Blocks(f)
           /\ g.blocks[f.at] = f.blocks[f.at] \o is
           /\ \A b \in Blocks(f) : b # f.at => g.blocks[b] = f.blocks[b]
           /\ \A b \in Blocks(g) \ Blocks(f) : g.blocks[b] = <<>>
  <1> DEFINE a == AddBlocks(f, n)
  <1>1. /\ Len(f.blocks) \in Nat /\ f.at \in Blocks(f) /\ Blocks(f) = 1..Len(f.blocks)
    BY FunctionLen
  <1>2. /\ IsFunction(a) /\ Len(a.blocks) = Len(f.blocks) + n /\ a.at = f.at
        /\ \A c \in Blocks(f) : a.blocks[c] = f.blocks[c]
        /\ \A c \in Blocks(a) \ Blocks(f) : a.blocks[c] = <<>>
    BY AddBlock
  <1> HIDE DEF a
  <1>3. /\ IsFunction(Emit(a, is)) /\ Len(Emit(a, is).blocks) = Len(a.blocks)
        /\ Emit(a, is).at = a.at
        /\ Emit(a, is).blocks[a.at] = a.blocks[a.at] \o is
        /\ \A c \in Blocks(a) : c # a.at => Emit(a, is).blocks[c] = a.blocks[c]
    BY <1>2, EmitBlock
  <1>4. g = Emit(a, is) BY DEF a, Adds
  <1>5. Blocks(g) = Blocks(a) /\ Blocks(a) = 1..(Len(f.blocks) + n)
    BY <1>2, <1>3, <1>4 DEF Blocks
  <1>6. \A b \in Blocks(f) : b \in Blocks(a) BY <1>1, <1>5
  <1> QED BY <1>1, <1>2, <1>3, <1>4, <1>5, <1>6

(* The blocks of an index's bounds check.                                  *)
LEMMA ThreeBlocks ==
    ASSUME NEW f, IsFunction(f), NEW is, Sequence(is), NEW g, Adds(f, 3, is, g),
           NEW N, N = Len(f.blocks)
    PROVE  /\ IsFunction(g) /\ Len(g.blocks) = N + 3 /\ g.at = f.at
           /\ Blocks(g) = 1..(N + 3) /\ Blocks(f) = 1..N
           /\ N \in Nat /\ f.at \in Blocks(f)
           /\ g.blocks[f.at] = f.blocks[f.at] \o is
           /\ \A b \in Blocks(f) : b # f.at => g.blocks[b] = f.blocks[b]
           /\ \A b \in Blocks(g) \ Blocks(f) : g.blocks[b] = <<>>
  <1>1. PICK n \in Nat : n = 3 OBVIOUS
  <1>2. Adds(f, n, is, g) BY <1>1
  <1>3. /\ IsFunction(g) /\ Len(g.blocks) = Len(f.blocks) + n /\ g.at = f.at
        /\ Blocks(g) = 1..(Len(f.blocks) + n) /\ Blocks(f) = 1..Len(f.blocks)
        /\ Len(f.blocks) \in Nat /\ f.at \in Blocks(f)
        /\ g.blocks[f.at] = f.blocks[f.at] \o is
        /\ \A b \in Blocks(f) : b # f.at => g.blocks[b] = f.blocks[b]
        /\ \A b \in Blocks(g) \ Blocks(f) : g.blocks[b] = <<>>
    BY <1>1, <1>2, NewBlocks
  <1> QED BY <1>1, <1>3

(* The blocks of a bounds check: its second test, the trap, what follows.  *)
LEMMA CheckBlocks ==
    ASSUME NEW f, NEW L, NEW F, NEW A, NEW scs, FlowAt(f, L, F, A, scs),
           Len(A) \in Nat, \A n \in 1..Len(A) : A[n].save # None,
           NEW N, N = Len(f.blocks),
           NEW is, Sequence(is), Neutral(is), Exits(is) = {N + 1, N + 1 + 1},
           NEW js, Sequence(js), Neutral(js), Exits(js) = {N + 1 + 2, N + 1 + 1},
           NEW ts, Sequence(ts), Neutral(ts), Exits(ts) = {},
           NEW g, Adds(f, 3, is, g), NEW h, Puts(g, N + 1 + 1, ts, h),
           NEW m, Puts(h, N + 1, js, m), NEW r, Moves(m, N + 1 + 2, r)
    PROVE  \E M : FlowAt(r, M, F, A, scs)
  <1>0. IsFunction(f) BY DEF FlowAt, Labelled
  <1>5. /\ IsFunction(g) /\ Len(g.blocks) = N + 3 /\ g.at = f.at
        /\ Blocks(g) = 1..(N + 3) /\ Blocks(f) = 1..N
        /\ N \in Nat /\ f.at \in Blocks(f)
        /\ g.blocks[f.at] = f.blocks[f.at] \o is
        /\ \A b \in Blocks(f) : b # f.at => g.blocks[b] = f.blocks[b]
        /\ \A b \in Blocks(g) \ Blocks(f) : g.blocks[b] = <<>>
    BY <1>0, ThreeBlocks
  <1>6. N + 1 \in Blocks(g) /\ N + 1 + 1 \in Blocks(g) /\ N + 1 + 2 \in Blocks(g) BY <1>5
  <1>7. /\ IsFunction(h) /\ Len(h.blocks) = Len(g.blocks) /\ h.at = g.at
        /\ Blocks(h) = Blocks(g) /\ h.blocks[N + 1 + 1] = ts
        /\ \A c \in Blocks(g) : c # N + 1 + 1 => h.blocks[c] = g.blocks[c]
    <2>1. IsFunction(g) BY <1>5
    <2>2. N + 1 + 1 \in Blocks(g) BY <1>6
    <2> QED BY <2>1, <2>2, PutsBlock
  <1>9. /\ IsFunction(m) /\ Len(m.blocks) = Len(h.blocks) /\ m.at = h.at
        /\ Blocks(m) = Blocks(h) /\ m.blocks[N + 1] = js
        /\ \A c \in Blocks(h) : c # N + 1 => m.blocks[c] = h.blocks[c]
    BY <1>6, <1>7, PutsBlock
  <1>11. IsFunction(r) /\ r.blocks = m.blocks /\ r.at = N + 1 + 2 /\ Blocks(r) = Blocks(m)
    BY <1>6, <1>7, <1>9, MovesBlock
  <1>12. Blocks(r) = 1..(N + 3) /\ Len(r.blocks) = N + 3 BY <1>5, <1>7, <1>9, <1>11
  <1>13. \A b \in Blocks(r) \ Blocks(f) : b = N + 1 \/ b = N + 1 + 1 \/ b = N + 1 + 2
    <2>1. \A K \in Nat : \A b \in 1..(K + 3) :
              b \notin 1..K => b = K + 1 \/ b = K + 1 + 1 \/ b = K + 1 + 2
      OBVIOUS
    <2>2. N \in Nat /\ Blocks(f) = 1..N BY <1>5
    <2> QED BY <1>12, <2>1, <2>2
  <1>14. /\ N + 1 \in Blocks(r) \ Blocks(f) /\ N + 1 + 1 \in Blocks(r) \ Blocks(f)
         /\ N + 1 + 2 \in Blocks(r) \ Blocks(f)
    BY <1>5, <1>12
  <1>15. N + 1 # N + 1 + 1 /\ N + 1 # N + 1 + 2 /\ N + 1 + 1 # N + 1 + 2 BY <1>5
  <1>16. /\ r.blocks[N + 1] = js /\ r.blocks[N + 1 + 1] = ts
         /\ r.blocks[N + 1 + 2] = <<>>
    <2>1. g.blocks[N + 1 + 2] = <<>> BY <1>5, <1>12, <1>14
    <2> QED BY <1>6, <1>7, <1>9, <1>11, <1>15, <2>1
  <1>17. \A b \in Blocks(f) : r.blocks[b] = g.blocks[b]
    <2>1. \A b \in Blocks(f) : b \in Blocks(g) /\ b # N + 1 /\ b # N + 1 + 1 BY <1>5
    <2> QED BY <1>7, <1>9, <1>11, <2>1
  <1>18. ASSUME NEW b \in Blocks(r) \ Blocks(f)
         PROVE  Neutral(r.blocks[b]) /\ Exits(r.blocks[b]) \subseteq Blocks(r) \ Blocks(f)
    <2>1. CASE b = N + 1 BY <1>14, <1>16, <2>1
    <2>2. CASE b = N + 1 + 1 BY <1>16, <2>2
    <2>3. CASE b = N + 1 + 2 BY <1>16, <2>3, EmptySequence
    <2> QED BY <1>13, <2>1, <2>2, <2>3
  <1>19. r.at \in Blocks(r) \ Blocks(f) /\ Exits(r.blocks[r.at]) = {}
    BY <1>11, <1>14, <1>16, EmptySequence
  <1>20. \A b \in Exits(is) : b \in Blocks(r) \ Blocks(f) BY <1>14
  <1>21. Len(r.blocks) >= Len(f.blocks) BY <1>5, <1>12
  <1>22. /\ r.blocks[f.at] = f.blocks[f.at] \o is
         /\ \A b \in Blocks(f) : b # f.at => r.blocks[b] = f.blocks[b]
    BY <1>5, <1>17
  <1> QED BY <1>11, <1>18, <1>19, <1>20, <1>21, <1>22, FlowOpen

(* The bounds check: one block traps, the code goes on in the other.       *)
LEMMA BoundsFlow ==
    ASSUME NEW f, NEW L, NEW F, NEW A, NEW scs, FlowAt(f, L, F, A, scs),
           Len(A) \in Nat, \A n \in 1..Len(A) : A[n].save # None, NEW d
    PROVE  \E M : FlowAt(BoundsCheck(f, d), M, F, A, scs)
  <1> DEFINE N == Len(f.blocks)
             i == Made("below size", d, node.kids, <<N + 1, N + 1 + 1>>)
             j == Made("not negative", None, node.kids, <<N + 1 + 2, N + 1 + 1>>)
             g == Emit(AddBlocks(f, 3), <<i>>)
             h == Put(g, N + 1 + 1, Trap(pc))
             m == Put(h, N + 1, <<j>>)
             r == SetInsertPoint(m, N + 1 + 2)
  <1>1. BoundsCheck(f, d) = r BY DEF BoundsCheck, Put
  <1>2. /\ ToSet(i.to) = {N + 1, N + 1 + 1} /\ i.op \notin {"save", "restore"}
        /\ ToSet(j.to) = {N + 1 + 2, N + 1 + 1} /\ j.op \notin {"save", "restore"}
    BY Targets DEF Made, Instr
  <1>4. /\ N = Len(f.blocks) /\ Adds(f, 3, <<i>>, g)
        /\ Puts(g, N + 1 + 1, Trap(pc), h) /\ Puts(h, N + 1, <<j>>, m)
        /\ Moves(m, N + 1 + 2, r)
    BY DEF Adds, Puts, Moves
  <1> HIDE DEF N, i, j, g, h, m, r
  <1>6. Sequence(Trap(pc)) /\ Neutral(Trap(pc)) /\ Exits(Trap(pc)) = {} BY TrapAborts
  <1>7. PICK is, js, ts : is = <<i>> /\ js = <<j>> /\ ts = Trap(pc) OBVIOUS
  <1>8. /\ Sequence(is) /\ Neutral(is) /\ Exits(is) = {N + 1, N + 1 + 1}
        /\ Sequence(js) /\ Neutral(js) /\ Exits(js) = {N + 1 + 2, N + 1 + 1}
    BY <1>2, <1>7, OneBranch
  <1>9. Sequence(ts) /\ Neutral(ts) /\ Exits(ts) = {} BY <1>6, <1>7
  <1>10. /\ N = Len(f.blocks) /\ Adds(f, 3, is, g)
         /\ Puts(g, N + 1 + 1, ts, h) /\ Puts(h, N + 1, js, m)
         /\ Moves(m, N + 1 + 2, r)
    BY <1>4, <1>7
  <1>5. \E M : FlowAt(r, M, F, A, scs) BY <1>8, <1>9, <1>10, CheckBlocks
  <1> QED BY <1>1, <1>5

(* An element is loaded, or its address taken, where the index is in       *)
(* bounds.                                                                 *)
LEMMA IndexingFlows ==
    ASSUME IndInv, ArrayInv, FlowInv, phase = "codegen", pc <= Len(ast),
           NEW x, NEW is, NEW ty, Indexing(x, is, ty),
           Sequence(is), Neutral(is), Exits(is) = {}
    PROVE  FlowInv'
  <1>1. CASE named[x].ty # "array"
    <2>1. Halt("crash") BY <1>1 DEF Indexing
    <2> QED BY <2>1, HaltFlows
  <1>2. CASE named[x].ty = "array"
    <2>1. /\ ir' = Emit(BoundsCheck(ir, named[x].decl), is) /\ Yield(ty)
          /\ UNCHANGED <<scopes, arrayDecls>>
      BY <1>2 DEF Indexing
    <2>2. PICK L, F : FlowAt(ir, L, F, arrayDecls, scopes) BY FlowHere
    <2>3. Len(arrayDecls) \in Nat /\ \A n \in 1..Len(arrayDecls) : arrayDecls[n].save # None
      BY FlowHere
    <2>4. PICK g : g = BoundsCheck(ir, named[x].decl) OBVIOUS
    <2>5. PICK M : FlowAt(g, M, F, arrayDecls, scopes) BY <2>2, <2>3, <2>4, BoundsFlow
    <2>6. FlowAt(Emit(g, is), M, F, arrayDecls, scopes) BY <2>3, <2>5, FlowEmit
    <2>7. ir' = Emit(g, is) BY <2>1, <2>4
    <2>8. Flows(ir', arrayDecls, scopes) BY <2>6, <2>7 DEF Flows
    <2> QED BY <2>1, <2>8, FlowGoesOn
  <1> QED BY <1>1, <1>2

(* An array element, and the statements without a block.                   *)
LEMMA ArrayExprFlows ==
    ASSUME IndInv, ArrayInv, FlowInv, ArrayExpr
    PROVE  FlowInv'
  <1> DEFINE i == Made("load element", named[node.x].decl, node.kids, <<>>)
  <1>0. phase = "codegen" /\ pc <= Len(ast) BY Zenon DEF ArrayExpr, At
  <1>1. phase = "codegen" /\ pc <= Len(ast) /\ Indexing(node.x, <<i>>, IntN(Width))
    BY <1>0, Zenon DEF ArrayExpr
  <1>2. i.to = <<>> /\ i.op \notin {"save", "restore"} BY DEF Made, Instr
  <1> HIDE DEF i
  <1>3. Sequence(<<i>>) /\ Neutral(<<i>>) /\ Exits(<<i>>) = {} BY <1>2, OneInstr
  <1>4. PICK is : is = <<i>> OBVIOUS
  <1>5. /\ Indexing(node.x, is, IntN(Width))
        /\ Sequence(is) /\ Neutral(is) /\ Exits(is) = {}
    BY <1>1, <1>3, <1>4
  <1> QED BY <1>1, <1>5, IndexingFlows

LEMMA ElemAddrFlows ==
    ASSUME IndInv, ArrayInv, FlowInv, ArrayAssignmentIndex
    PROVE  FlowInv'
  <1>1. phase = "codegen" /\ pc <= Len(ast) /\ Indexing(node.x, <<>>, "none")
    BY DEF ArrayAssignmentIndex, At
  <1>4. PICK is : is = <<>> OBVIOUS
  <1>5. /\ Indexing(node.x, is, "none")
        /\ Sequence(is) /\ Neutral(is) /\ Exits(is) = {}
    BY <1>1, <1>4, EmptySequence
  <1> QED BY <1>1, <1>5, IndexingFlows

LEMMA StoreFlows ==
    ASSUME IndInv, ArrayInv, FlowInv, PrintArg \/ ArrayAssignment \/ VarAssignment
    PROVE  FlowInv'
  <1>1. CASE PrintArg
    <2>1. phase = "codegen" /\ pc <= Len(ast) BY <1>1 DEF PrintArg, At
    <2>2. /\ Insert("print", None, node.kids) /\ Yield("none")
          /\ UNCHANGED <<scopes, arrayDecls>>
      BY <1>1 DEF PrintArg
    <2> QED BY <2>1, <2>2, InsertFlows
  <1>2. CASE ArrayAssignment
    <2>1. phase = "codegen" /\ pc <= Len(ast) BY <1>2, Zenon DEF ArrayAssignment, At
    <2>3. /\ Insert("store element", named[node.x].decl, node.kids) /\ Yield("none")
          /\ UNCHANGED <<scopes, arrayDecls>>
      BY <1>2, Zenon DEF ArrayAssignment
    <2>4. "store element" \notin {"save", "restore"} BY Zenon
    <2>2. /\ \E op : op \notin {"save", "restore"} /\ Insert(op, named[node.x].decl, node.kids)
          /\ Yield("none") /\ UNCHANGED <<scopes, arrayDecls>>
      BY <2>3, <2>4, Zenon
    <2> QED BY <2>1, <2>2, InsertFlows
  <1>3. CASE VarAssignment
    <2>1. phase = "codegen" /\ pc <= Len(ast) BY <1>3 DEF VarAssignment, At
    <2>2. \/ Halt("failed")
          \/ /\ Insert("store", named[node.x].decl, node.kids) /\ Yield("none")
             /\ UNCHANGED <<scopes, arrayDecls>>
      BY <1>3 DEF VarAssignment
    <2> QED BY <2>1, <2>2, HaltFlows, InsertFlows
  <1> QED BY <1>1, <1>2, <1>3

LEMMA AbortFlows ==
    ASSUME IndInv, ArrayInv, FlowInv, Abort
    PROVE  FlowInv'
  <1>1. /\ phase = "codegen" /\ pc <= Len(ast)
        /\ ir' = Emit(ir, Trap(pc)) /\ Yield("none") /\ UNCHANGED <<scopes, arrayDecls>>
    BY DEF Abort, At, Statement
  <1>2. PICK is : is = Trap(pc) OBVIOUS
  <1>3. ir' = Emit(ir, is) /\ Sequence(is) /\ Neutral(is) /\ Exits(is) = {}
    BY <1>1, <1>2, TrapAborts
  <1> QED BY <1>1, <1>3, FlowEmits

LEMMA VarDeclFlows ==
    ASSUME IndInv, ArrayInv, FlowInv, VarDecl
    PROVE  FlowInv'
  <1>2. PICK is : is = ClearedAlloca(DeclAt(pc), CreateLLVMType(node.res)) OBVIOUS
  <1>1. /\ phase = "codegen" /\ pc <= Len(ast)
        /\ ir' = EmitInEntry(ir, is) /\ Yield("none") /\ UNCHANGED <<scopes, arrayDecls>>
    BY <1>2 DEF VarDecl, At
  <1>3. Sequence(is) /\ Neutral(is) /\ Exits(is) = {} BY <1>2, ClearedAllocates
  <1> QED BY <1>1, <1>3, FlowEmits

LEMMA ForIdentFlows ==
    ASSUME IndInv, ArrayInv, FlowInv, ForIdent
    PROVE  FlowInv'
  <1> DEFINE i == Alloca(DeclAt(pc))
  <1>1. /\ phase = "codegen" /\ pc <= Len(ast)
        /\ ir' = Emit(ir, <<i>>) /\ Yield("none") /\ UNCHANGED <<scopes, arrayDecls>>
    BY DEF ForIdent, At
  <1>2. i.to = <<>> /\ i.op \notin {"save", "restore"} BY DEF Alloca, Instr
  <1> HIDE DEF i
  <1>3. Sequence(<<i>>) /\ Neutral(<<i>>) /\ Exits(<<i>>) = {} BY <1>2, OneInstr
  <1> QED BY <1>1, <1>3, FlowEmits

(* The innermost scope where the code generator is at a part of a block.   *)
LEMMA TopScope ==
    ASSUME IndInv, ArrayInv, NEW k \in BlockPart, At(k)
    PROVE  /\ scopes # <<>> /\ Len(scopes) >= 1 /\ Scope = scopes[Len(scopes)]
           /\ IsScope(Scope) /\ (Scope.blk = 0 <=> k = "whilebody")
           /\ k = "else" => FormOfScope(Scope) = "fork"
           /\ k = "whilebody" => FormOfScope(Scope) = "loop"
           /\ k = "end" => FormOfScope(Scope) = FormOf(node.op, "none")
  <1>1. phase = "codegen" /\ pc <= Len(ast) /\ node.live /\ node.k = k BY DEF At
  <1>2. PICK h : History(h) /\ Scoped(h[pc], scopes) BY DEF ArrayInv, NestingInv
  <1>3. pc \in 1..Len(ast) BY <1>1, NodeHere
  <1>4. h[pc] \in Seq(BlockStates) /\ Placed(h[pc], node) BY <1>2, <1>3 DEF History, node
  <1> DEFINE s == h[pc]
  <1>5. s \in Seq(BlockStates) /\ Placed(s, node) /\ Scoped(s, scopes) BY <1>2, <1>4
  <1> HIDE DEF s
  <1>6. PICK S : scopes \in Seq(S) /\ \A g \in S : IsScope(g) BY DEF ArrayInv, ScopesTyped
  <1>7. /\ s # <<>> /\ Len(scopes) = Len(s) /\ Len(s) \in Nat /\ Len(s) >= 1
        /\ s[Len(s)].state = "header" <=> k = "whilebody"
    BY <1>1, <1>5, ScopedReach, ScopesLength DEF ArrayInv
  <1>8. scopes # <<>> BY <1>7, EmptySeq
  <1>9. Len(scopes) \in 1..Len(scopes) /\ Scope = scopes[Len(scopes)] /\ Scope \in S
    BY <1>6, <1>8, LastLemma DEF Scope
  <1>10. IsScope(Scope) BY <1>6, <1>9
  <1>11. (Scope.blk = 0 <=> s[Len(s)].state = "header") /\ FormOfScope(Scope) = s[Len(s)].form
    BY <1>5, <1>7, <1>9 DEF Scoped
  <1>12. /\ k = "else" => s[Len(s)].form = "fork"
         /\ k = "whilebody" => s[Len(s)].form = "loop"
         /\ k = "end" => s[Len(s)].form = FormOf(node.op, "none")
    BY <1>1, <1>5 DEF Placed
  <1> QED BY <1>7, <1>8, <1>9, <1>10, <1>11, <1>12

-----------------------------------------------------------------------------
(* A step that passes a node: what has to be shown of it.                  *)
LEMMA FlowSteps ==
    ASSUME IndInv, ArrayInv, FlowInv, phase = "codegen", pc <= Len(ast),
           NEW ty, Yield(ty), Declared(arrayDecls', scopes', pc + 1),
           Flows(ir', arrayDecls', scopes')
    PROVE  FlowInv'
  <1>1. pc' = pc + 1 BY DEF Yield
  <1> QED BY <1>1 DEF FlowInv

(* The scopes and arrays are those of nodes that have been passed.         *)
LEMMA DeclaredPush ==
    ASSUME NEW i \in Nat, i >= 1, NEW A, NEW S, NEW scs \in Seq(S), Declared(A, scs, i),
           NEW c, c.blk \in {0, i}
    PROVE  Declared(A, Append(scs, c), i + 1)
  <1> DEFINE T == S \cup {c}
  <1>1. scs \in Seq(T) /\ c \in T BY SeqMonotonic
  <1> HIDE DEF T
  <1>2. /\ Len(Append(scs, c)) = Len(scs) + 1 /\ Append(scs, c)[Len(scs) + 1] = c
        /\ \A j \in 1..Len(scs) : Append(scs, c)[j] = scs[j]
    BY <1>1, PushLemma
  <1>3. Len(scs) \in Nat BY LenProperties
  <1>4. Declared(A, scs, i + 1) BY DeclaredMore
  <1>5. c.blk \in 0..((i + 1) - 1) OBVIOUS
  <1>6. \A j \in 1..Len(Append(scs, c)) : j \in 1..Len(scs) \/ j = Len(scs) + 1 BY <1>2, <1>3
  <1>7. \A j \in 1..Len(Append(scs, c)) : Append(scs, c)[j].blk \in 0..((i + 1) - 1)
    BY <1>2, <1>4, <1>5, <1>6 DEF Declared
  <1> QED BY <1>4, <1>7 DEF Declared

LEMMA DeclaredPop ==
    ASSUME NEW i \in Nat, i >= 1, NEW U, NEW A \in Seq(U), NEW S, NEW scs \in Seq(S), scs # <<>>,
           Declared(A, scs, i), NEW k \in 0..Len(A)
    PROVE  /\ Declared(SubSeq(A, 1, k), Front(scs), i)
           /\ Declared(SubSeq(A, 1, k), Front(scs), i + 1)
  <1>1. Len(scs) \in Nat /\ Len(A) \in Nat BY LenProperties
  <1>2. Len(Front(scs)) = Len(scs) - 1 /\ \A j \in 1..Len(scs) - 1 : Front(scs)[j] = scs[j]
    BY FrontLemma
  <1>3. Len(SubSeq(A, 1, k)) = k /\ \A n \in 1..k : SubSeq(A, 1, k)[n] = A[n]
    BY PrefixLemma
  <1>4. \A j \in 1..Len(Front(scs)) : j \in 1..Len(scs) /\ j \in 1..Len(scs) - 1 BY <1>1, <1>2
  <1>5. \A n \in 1..k : n \in 1..Len(A) BY <1>1
  <1>6. Declared(SubSeq(A, 1, k), Front(scs), i)
    <2>1. \A j \in 1..Len(Front(scs)) : Front(scs)[j].blk \in 0..(i - 1)
      BY <1>2, <1>4 DEF Declared
    <2>2. \A n \in 1..Len(SubSeq(A, 1, k)) : /\ SubSeq(A, 1, k)[n].blk \in 0..(i - 1)
                                             /\ SubSeq(A, 1, k)[n].save # None
      BY <1>3, <1>5 DEF Declared
    <2> QED BY <2>1, <2>2 DEF Declared
  <1> QED BY <1>6, DeclaredMore

(* A scope is pushed.                                                      *)
LEMMA FlowPushes ==
    ASSUME IndInv, ArrayInv, FlowInv, phase = "codegen", pc <= Len(ast),
           NEW ty, Yield(ty), UNCHANGED arrayDecls,
           NEW c, c.blk \in {0, pc}, scopes' = Append(scopes, c),
           NEW L, NEW F, Between(ir', L, F, arrayDecls, scopes, c)
    PROVE  FlowInv'
  <1>1. /\ pc \in Nat /\ pc >= 1
        /\ \A n \in 1..Len(arrayDecls) : arrayDecls[n].blk # 0 /\ arrayDecls[n].blk # pc
    BY FlowHere
  <1>2. PICK S, U : scopes \in Seq(S) /\ arrayDecls \in Seq(U) BY FlowHere
  <1>3. Declared(arrayDecls, scopes, pc) BY DEF FlowInv
  <1>4. Declared(arrayDecls, Append(scopes, c), pc + 1) BY <1>1, <1>2, <1>3, DeclaredPush
  <1>5. \A n \in 1..Len(arrayDecls) : arrayDecls[n].blk # c.blk BY <1>1
  <1>6. Flows(ir', arrayDecls, Append(scopes, c)) BY <1>2, <1>5, FlowPush
  <1> QED BY <1>4, <1>6, FlowSteps

(* Its scope awaits the blocks that the statement has made.                *)
LEMMA OpenBetween ==
    ASSUME NEW f, NEW L, NEW F, NEW A, NEW scs, FlowAt(f, L, F, A, scs),
           NEW g, NEW M, FlowAt(g, M, F, A, scs),
           \A b \in Blocks(g) \ Blocks(f) : M[b] = Saves(A, Len(A)),
           NEW c, c.k \in BlockKinds, c.k \in {"body", "bare"} \/ c.next # 0,
           c.k = "then" => c.hdr # 0, c.blk = 0 => c.next # c.hdr + 1,
           \A p \in Pending(c) : p \in Blocks(g) \ Blocks(f) /\ p # g.at /\ g.blocks[p] = <<>>,
           IsLoop(c) => c.hdr \in Blocks(g) \ Blocks(f)
    PROVE  Between(g, M, F, A, scs, c)
  <1>1. IsFunction(f) BY DEF FlowAt, Labelled
  <1>2. 1 \in Blocks(f) BY <1>1, FunctionLen
  <1>3. ASSUME NEW p \in Pending(c)
        PROVE  p \in Blocks(g) \ {1, g.at} /\ g.blocks[p] = <<>> /\ M[p] = Saves(A, Len(A))
    BY <1>2
  <1>4. Awaits(g, M, Saves(A, Len(A)), c) BY <1>3 DEF Awaits
  <1>5. ASSUME NEW j \in 1..Len(scs)
        PROVE  Pending(c) \cap Pending(scs[j]) = {}
    <2>1. \A p \in Pending(scs[j]) : p \in Blocks(f) BY DEF FlowAt, AllAwait, Awaits
    <2> QED BY <2>1
  <1> QED BY <1>4, <1>5 DEF Between

(* A bare block has a scope and no basic block of its own.                 *)
LEMMA EnterBareFlows ==
    ASSUME IndInv, ArrayInv, FlowInv, EnterBare
    PROVE  FlowInv'
  <1> DEFINE c == OpenScope("bare", 0, 0)
  <1>1. /\ phase = "codegen" /\ pc <= Len(ast) /\ Yield("none") /\ UNCHANGED arrayDecls
        /\ scopes' = Append(scopes, c) /\ ir' = ir
    BY DEF EnterBare, At, Statement
  <1>2. c.k = "bare" /\ c.hdr = 0 /\ c.next = 0 /\ c.blk = pc BY DEF OpenScope
  <1>3. pc # 0 BY <1>1, FlowHere
  <1> HIDE DEF c
  <1>4. Pending(c) = {} BY <1>2, <1>3 DEF Pending
  <1>5. PICK L, F : FlowAt(ir, L, F, arrayDecls, scopes) BY <1>1, FlowHere
  <1>6. Awaits(ir, L, Saves(arrayDecls, Len(arrayDecls)), c)
    BY <1>2, <1>3, <1>4 DEF Awaits, IsLoop, BlockKinds
  <1>7. Between(ir', L, F, arrayDecls, scopes, c) BY <1>1, <1>4, <1>5, <1>6 DEF Between
  <1> QED BY <1>1, <1>2, <1>7, FlowPushes

(* The blocks of an if, and of a while.                                    *)
LEMMA BranchBlocks ==
    ASSUME NEW f, NEW L, NEW F, NEW A, NEW scs, FlowAt(f, L, F, A, scs),
           Len(A) \in Nat, \A n \in 1..Len(A) : A[n].save # None,
           NEW n \in Nat, n >= 1, NEW is, Sequence(is), Neutral(is),
           \A b \in Exits(is) : b \in (Len(f.blocks) + 1)..(Len(f.blocks) + n),
           NEW g, Adds(f, n, is, g), NEW r, Moves(g, Len(f.blocks) + 1, r)
    PROVE  /\ Len(f.blocks) \in Nat
           /\ r.at = Len(f.blocks) + 1
           /\ \A b \in (Len(f.blocks) + 1)..(Len(f.blocks) + n) :
                 b \in Blocks(r) \ Blocks(f) /\ r.blocks[b] = <<>>
           /\ \E M : /\ FlowAt(r, M, F, A, scs)
                     /\ \A b \in Blocks(r) \ Blocks(f) : M[b] = Saves(A, Len(A))
  <1>0. IsFunction(f) BY DEF FlowAt, Labelled
  <1>1. PICK N : N = Len(f.blocks) OBVIOUS
  <1>2. /\ IsFunction(g) /\ Len(g.blocks) = N + n /\ g.at = f.at
        /\ Blocks(g) = 1..(N + n) /\ Blocks(f) = 1..N
        /\ N \in Nat /\ f.at \in Blocks(f)
        /\ g.blocks[f.at] = f.blocks[f.at] \o is
        /\ \A b \in Blocks(f) : b # f.at => g.blocks[b] = f.blocks[b]
        /\ \A b \in Blocks(g) \ Blocks(f) : g.blocks[b] = <<>>
    BY <1>0, <1>1, NewBlocks
  <1>3. Moves(g, N + 1, r) BY <1>1
  <1>4. N + 1 \in Blocks(g) BY <1>2
  <1>5. IsFunction(r) /\ r.blocks = g.blocks /\ r.at = N + 1 /\ Blocks(r) = Blocks(g)
    BY <1>2, <1>3, <1>4, MovesBlock
  <1>6. \A b \in (N + 1)..(N + n) : b \in Blocks(r) \ Blocks(f) BY <1>2, <1>5
  <1>7. \A b \in Exits(is) : b \in Blocks(r) \ Blocks(f) BY <1>1, <1>6
  <1>8. \A b \in Blocks(r) \ Blocks(f) : r.blocks[b] = <<>> BY <1>2, <1>5
  <1>9. ASSUME NEW b \in Blocks(r) \ Blocks(f)
        PROVE  Neutral(r.blocks[b]) /\ Exits(r.blocks[b]) \subseteq Blocks(r) \ Blocks(f)
    BY <1>8, EmptySequence
  <1>10. N + 1 \in (N + 1)..(N + n) BY <1>2
  <1>11. r.at \in Blocks(r) \ Blocks(f) /\ Exits(r.blocks[r.at]) = {}
    BY <1>5, <1>6, <1>8, <1>10, EmptySequence
  <1>12. Len(r.blocks) >= Len(f.blocks) BY <1>1, <1>2, <1>5
  <1>13. /\ r.blocks[f.at] = f.blocks[f.at] \o is
         /\ \A b \in Blocks(f) : b # f.at => r.blocks[b] = f.blocks[b]
    BY <1>2, <1>5
  <1>14. \E M : /\ FlowAt(r, M, F, A, scs)
                /\ \A b \in Blocks(r) \ Blocks(f) : M[b] = Saves(A, Len(A))
    <2>1. IsFunction(r) BY <1>5
    <2>2. \A b \in Blocks(r) \ Blocks(f) :
             Neutral(r.blocks[b]) /\ Exits(r.blocks[b]) \subseteq Blocks(r) \ Blocks(f)
      BY <1>9
    <2> QED BY SMTT(30), <1>7, <1>11, <1>12, <1>13, <2>1, <2>2, FlowOpen
  <1>15. \A b \in (N + 1)..(N + n) : b \in Blocks(r) \ Blocks(f) /\ r.blocks[b] = <<>>
    BY <1>6, <1>8
  <1> QED BY <1>1, <1>2, <1>5, <1>14, <1>15

(* An if makes the blocks of its parts, and the one where they meet.       *)
LEMMA IfFlows ==
    ASSUME IndInv, ArrayInv, FlowInv, If
    PROVE  FlowInv'
  <1> DEFINE N     == Len(ir.blocks)
             merge == IF node.op = "else" THEN N + 1 + 2 ELSE N + 1 + 1
             new   == merge - (N + 1) + 1
             i     == Made("test", None, node.kids, <<N + 1, N + 1 + 1>>)
             g     == Emit(AddBlocks(ir, new), <<i>>)
             c     == OpenScope("then", N + 1 + 1, merge)
  <1>1. /\ phase = "codegen" /\ pc <= Len(ast) /\ Yield("none") /\ UNCHANGED arrayDecls
    BY DEF If, At, Statement
  <1>2. /\ ir' = SetInsertPoint(g, N + 1) /\ scopes' = Append(scopes, c) BY DEF If
  <1>3. PICK L, F : FlowAt(ir, L, F, arrayDecls, scopes) BY <1>1, FlowHere
  <1>4. Len(arrayDecls) \in Nat /\ \A a \in 1..Len(arrayDecls) : arrayDecls[a].save # None
    BY <1>1, FlowHere
  <1>5. N \in Nat
    <2>1. IsFunction(ir) BY <1>3 DEF FlowAt, Labelled
    <2> QED BY <2>1, FunctionLen
  <1>6. ToSet(i.to) = {N + 1, N + 1 + 1} /\ i.op \notin {"save", "restore"}
    BY Targets DEF Made, Instr
  <1>7. Adds(ir, new, <<i>>, g) /\ Moves(g, Len(ir.blocks) + 1, ir') BY <1>2 DEF Adds, Moves
  <1>8. c.blk = pc /\ c.k = "then" /\ c.hdr = N + 1 + 1 /\ c.next = merge BY DEF OpenScope
  <1>9. merge = N + 1 + 2 \/ merge = N + 1 + 1 OBVIOUS
  <1>10. N = Len(ir.blocks) OBVIOUS
  <1> HIDE DEF N, merge, i, g, c
  <1>27. /\ new \in Nat /\ new >= 1
         /\ N + 1 \in (N + 1)..(N + new) /\ N + 1 + 1 \in (N + 1)..(N + new)
         /\ merge \in (N + 1)..(N + new)
    BY <1>5, <1>9
  <1>12. N + 1 + 1 # 0 /\ merge # 0 /\ N + 1 + 1 # N + 1 /\ merge # N + 1 BY <1>5, <1>9
  <1> HIDE DEF new
  <1>28. PICK n \in Nat : n = new BY <1>27
  <1>11. /\ n >= 1 /\ N + 1 \in (N + 1)..(N + n) /\ N + 1 + 1 \in (N + 1)..(N + n)
         /\ merge \in (N + 1)..(N + n)
    BY <1>27, <1>28
  <1>13. PICK is : is = <<i>> OBVIOUS
  <1>14. Sequence(is) /\ Neutral(is) /\ Exits(is) = {N + 1, N + 1 + 1}
    BY <1>6, <1>13, OneBranch
  <1>15. \A b \in Exits(is) : b \in (Len(ir.blocks) + 1)..(Len(ir.blocks) + n)
    BY <1>10, <1>11, <1>14
  <1>16. Adds(ir, n, is, g) BY <1>7, <1>13, <1>28
  <1>17. PICK r : r = ir' OBVIOUS
  <1>18. Moves(g, Len(ir.blocks) + 1, r) BY <1>7, <1>17
  <1>19. /\ r.at = Len(ir.blocks) + 1
         /\ \A b \in (Len(ir.blocks) + 1)..(Len(ir.blocks) + n) :
               b \in Blocks(r) \ Blocks(ir) /\ r.blocks[b] = <<>>
         /\ \E M : /\ FlowAt(r, M, F, arrayDecls, scopes)
                   /\ \A b \in Blocks(r) \ Blocks(ir) : M[b] = Saves(arrayDecls, Len(arrayDecls))
    <2>1. Sequence(is) /\ Neutral(is) BY <1>14
    <2>2. n \in Nat /\ n >= 1 BY <1>11, <1>28
    <2> QED BY <1>3, <1>4, <1>15, <1>16, <1>18, <2>1, <2>2, BranchBlocks
  <1>20. PICK M : /\ FlowAt(r, M, F, arrayDecls, scopes)
                  /\ \A b \in Blocks(r) \ Blocks(ir) : M[b] = Saves(arrayDecls, Len(arrayDecls))
    BY <1>19
  <1>21. pc # 0 BY <1>1, FlowHere
  <1>22. Pending(c) = {merge, N + 1 + 1} BY <1>8, <1>12, <1>21 DEF Pending
  <1>23. \A p \in Pending(c) : p \in Blocks(r) \ Blocks(ir) /\ p # r.at /\ r.blocks[p] = <<>>
    BY <1>10, <1>11, <1>12, <1>19, <1>22
  <1>24. c.k \in BlockKinds /\ ~IsLoop(c) /\ c.next # 0 /\ c.hdr # 0 /\ c.blk # 0
    BY <1>8, <1>12, <1>21 DEF BlockKinds, IsLoop
  <1>25. Between(r, M, F, arrayDecls, scopes, c)
    BY <1>3, <1>20, <1>23, <1>24, OpenBetween
  <1>26. Between(ir', M, F, arrayDecls, scopes, c) BY <1>17, <1>25
  <1> QED BY <1>1, <1>2, <1>8, <1>26, FlowPushes

(* A while makes those of its condition, its body and its end.             *)
LEMMA WhileFlows ==
    ASSUME IndInv, ArrayInv, FlowInv, While
    PROVE  FlowInv'
  <1> DEFINE N     == Len(ir.blocks)
             hdr   == N + 1
             i     == Br(hdr)
             g     == Emit(AddBlocks(ir, 3), <<i>>)
             c     == [OpenScope("while", hdr, hdr + 2) EXCEPT !.blk = 0]
  <1>1. /\ phase = "codegen" /\ pc <= Len(ast) /\ Yield("none") /\ UNCHANGED arrayDecls
    BY DEF While, At, Statement
  <1>2. /\ ir' = SetInsertPoint(g, hdr) /\ scopes' = Append(scopes, c) BY DEF While
  <1>3. PICK L, F : FlowAt(ir, L, F, arrayDecls, scopes) BY <1>1, FlowHere
  <1>4. Len(arrayDecls) \in Nat /\ \A a \in 1..Len(arrayDecls) : arrayDecls[a].save # None
    BY <1>1, FlowHere
  <1>5. N \in Nat
    <2>1. IsFunction(ir) BY <1>3 DEF FlowAt, Labelled
    <2> QED BY <2>1, FunctionLen
  <1>6. ToSet(i.to) = {hdr} /\ i.op \notin {"save", "restore"}
    BY Targets DEF Br, Instr
  <1>7. Adds(ir, 3, <<i>>, g) /\ Moves(g, Len(ir.blocks) + 1, ir') BY <1>2 DEF Adds, Moves
  <1>8. c.blk = 0 /\ c.k = "while" /\ c.hdr = hdr /\ c.next = hdr + 2 BY DEF OpenScope
  <1>10. N = Len(ir.blocks) /\ hdr = N + 1 OBVIOUS
  <1> HIDE DEF N, hdr, i, g, c
  <1>9. PICK n \in Nat : n = 3 OBVIOUS
  <1>11. /\ n >= 1 /\ hdr \in (N + 1)..(N + n) /\ hdr + 1 \in (N + 1)..(N + n)
         /\ hdr + 2 \in (N + 1)..(N + n)
    BY <1>5, <1>9, <1>10
  <1>12. hdr + 1 # 0 /\ hdr + 2 # 0 /\ hdr + 1 # hdr /\ hdr + 2 # hdr /\ hdr + 2 # hdr + 1
    <2>1. hdr \in Nat BY <1>5, <1>10
    <2> QED BY <2>1
  <1>13. PICK is : is = <<i>> OBVIOUS
  <1>14. Sequence(is) /\ Neutral(is) /\ Exits(is) = {hdr}
    BY <1>6, <1>13, OneBranch
  <1>15. \A b \in Exits(is) : b \in (Len(ir.blocks) + 1)..(Len(ir.blocks) + n)
    BY <1>10, <1>11, <1>14
  <1>16. Adds(ir, n, is, g) BY <1>7, <1>9, <1>13
  <1>17. PICK r : r = ir' OBVIOUS
  <1>18. Moves(g, Len(ir.blocks) + 1, r) BY <1>7, <1>17
  <1>19. /\ r.at = Len(ir.blocks) + 1
         /\ \A b \in (Len(ir.blocks) + 1)..(Len(ir.blocks) + n) :
               b \in Blocks(r) \ Blocks(ir) /\ r.blocks[b] = <<>>
         /\ \E M : /\ FlowAt(r, M, F, arrayDecls, scopes)
                   /\ \A b \in Blocks(r) \ Blocks(ir) : M[b] = Saves(arrayDecls, Len(arrayDecls))
    BY <1>3, <1>4, <1>9, <1>11, <1>14, <1>15, <1>16, <1>18, BranchBlocks
  <1>20. PICK M : /\ FlowAt(r, M, F, arrayDecls, scopes)
                  /\ \A b \in Blocks(r) \ Blocks(ir) : M[b] = Saves(arrayDecls, Len(arrayDecls))
    BY <1>19
  <1>22. Pending(c) = {hdr + 1, hdr + 2} BY <1>8, <1>12 DEF Pending
  <1>23. \A p \in Pending(c) : p \in Blocks(r) \ Blocks(ir) /\ p # r.at /\ r.blocks[p] = <<>>
    BY <1>10, <1>11, <1>12, <1>19, <1>22
  <1>24. /\ c.k \in BlockKinds /\ c.k # "then" /\ c.next # 0
         /\ c.blk = 0 => c.next # c.hdr + 1
    BY <1>8, <1>12 DEF BlockKinds
  <1>27. c.hdr \in Blocks(r) \ Blocks(ir) BY <1>8, <1>10, <1>11, <1>19
  <1>25. Between(r, M, F, arrayDecls, scopes, c)
    BY <1>3, <1>20, <1>23, <1>24, <1>27, OpenBetween
  <1>26. Between(ir', M, F, arrayDecls, scopes, c) BY <1>17, <1>25
  <1> QED BY <1>1, <1>2, <1>8, <1>26, FlowPushes

(* The instructions before the condition of a for.                         *)
LEMMA FourInstrs ==
    ASSUME NEW i, NEW j, NEW k, NEW l, i.to = <<>>, j.to = <<>>, k.to = <<>>,
           NEW S, ToSet(l.to) = S,
           i.op \notin {"save", "restore"}, j.op \notin {"save", "restore"},
           k.op \notin {"save", "restore"}, l.op \notin {"save", "restore"}
    PROVE  /\ Sequence(<<i, j, k, l>>) /\ Neutral(<<i, j, k, l>>)
           /\ Exits(<<i, j, k, l>>) = S
  <1> DEFINE q == <<i, j, k, l>>
  <1>1. /\ Len(q) = 4 /\ q[1] = i /\ q[2] = j /\ q[3] = k /\ q[4] = l
        /\ q \in Seq({i, j, k, l})
    OBVIOUS
  <1> HIDE DEF q
  <1>2. Sequence(q) BY <1>1 DEF Sequence
  <1>3. \A n \in 1..4 : n = 1 \/ n = 2 \/ n = 3 \/ n = 4 OBVIOUS
  <1>4. Neutral(q) BY <1>1, <1>3 DEF Neutral
  <1>5. ToSet(i.to) = {} /\ ToSet(j.to) = {} /\ ToSet(k.to) = {}
    <2>1. Len(<<>>) = 0 BY EmptySeq
    <2> QED BY <2>1 DEF ToSet
  <1>6. \A n \in 1..Len(q) : ToSet(q[n].to) \subseteq S BY <1>1, <1>3, <1>5
  <1>7. 4 \in 1..Len(q) /\ ToSet(q[4].to) = S BY <1>1
  <1>8. Exits(q) = S BY <1>6, <1>7 DEF Exits
  <1>9. Sequence(q) /\ Neutral(q) /\ Exits(q) = S BY <1>2, <1>4, <1>8
  <1> QED BY <1>9 DEF q

Opened(f, is, g) ==
    /\ IsFunction(g) /\ Len(g.blocks) >= Len(f.blocks)
    /\ \A b \in Exits(is) : b \in Blocks(g) \ Blocks(f)
    /\ g.blocks[f.at] = f.blocks[f.at] \o is
    /\ \A b \in Blocks(f) : b # f.at => g.blocks[b] = f.blocks[b]
    /\ \A b \in Blocks(g) \ Blocks(f) :
          Neutral(g.blocks[b]) /\ Exits(g.blocks[b]) \subseteq Blocks(g) \ Blocks(f)
    /\ g.at \in Blocks(g) \ Blocks(f) /\ Exits(g.blocks[g.at]) = {}

(* The current block goes on into one of the blocks just made.             *)
LEMMA FlowOpens ==
    ASSUME NEW f, NEW L, NEW F, NEW A, NEW scs, FlowAt(f, L, F, A, scs),
           Len(A) \in Nat, \A n \in 1..Len(A) : A[n].save # None,
           NEW is, Sequence(is), Neutral(is), NEW g, Opened(f, is, g)
    PROVE  \E M : /\ FlowAt(g, M, F, A, scs)
                  /\ \A b \in Blocks(g) \ Blocks(f) : M[b] = Saves(A, Len(A))
  BY FlowOpen DEF Opened

(* The blocks of a for: its header, its body and what follows.             *)
LEMMA LoopBlocks ==
    ASSUME NEW f, NEW L, NEW F, NEW A, NEW scs, FlowAt(f, L, F, A, scs),
           Len(A) \in Nat, \A n \in 1..Len(A) : A[n].save # None,
           NEW N, N = Len(f.blocks),
           NEW is, Sequence(is), Neutral(is), Exits(is) = {N + 1},
           NEW xs, Sequence(xs), Neutral(xs), Exits(xs) = {N + 1 + 1, N + 1 + 2},
           NEW ys, Sequence(ys), Neutral(ys), Exits(ys) = {},
           NEW g, Adds(f, 3, is, g), NEW h, Puts(g, N + 1, xs, h),
           NEW m, Puts(h, N + 1 + 1, ys, m), NEW r, Moves(m, N + 1 + 1, r)
    PROVE  /\ N \in Nat /\ r.at = N + 1 + 1
           /\ N + 1 \in Blocks(r) \ Blocks(f)
           /\ N + 1 + 2 \in Blocks(r) \ Blocks(f) /\ r.blocks[N + 1 + 2] = <<>>
           /\ \E M : /\ FlowAt(r, M, F, A, scs)
                     /\ \A b \in Blocks(r) \ Blocks(f) : M[b] = Saves(A, Len(A))
  <1>0. IsFunction(f) BY DEF FlowAt, Labelled
  <1>5. /\ IsFunction(g) /\ Len(g.blocks) = N + 3 /\ g.at = f.at
        /\ Blocks(g) = 1..(N + 3) /\ Blocks(f) = 1..N
        /\ N \in Nat /\ f.at \in Blocks(f)
        /\ g.blocks[f.at] = f.blocks[f.at] \o is
        /\ \A b \in Blocks(f) : b # f.at => g.blocks[b] = f.blocks[b]
        /\ \A b \in Blocks(g) \ Blocks(f) : g.blocks[b] = <<>>
    BY SMTT(30), <1>0, ThreeBlocks
  <1>6. N + 1 \in Blocks(g) /\ N + 1 + 1 \in Blocks(g) /\ N + 1 + 2 \in Blocks(g) BY <1>5
  <1>7. /\ IsFunction(h) /\ Len(h.blocks) = Len(g.blocks) /\ h.at = g.at
        /\ Blocks(h) = Blocks(g) /\ h.blocks[N + 1] = xs
        /\ \A c \in Blocks(g) : c # N + 1 => h.blocks[c] = g.blocks[c]
    <2>1. IsFunction(g) BY <1>5
    <2>2. N + 1 \in Blocks(g) BY <1>6
    <2> QED BY <2>1, <2>2, PutsBlock
  <1>9. /\ IsFunction(m) /\ Len(m.blocks) = Len(h.blocks) /\ m.at = h.at
        /\ Blocks(m) = Blocks(h) /\ m.blocks[N + 1 + 1] = ys
        /\ \A c \in Blocks(h) : c # N + 1 + 1 => m.blocks[c] = h.blocks[c]
    <2>1. IsFunction(h) BY <1>7
    <2>2. N + 1 + 1 \in Blocks(h) BY <1>6, <1>7
    <2> QED BY <2>1, <2>2, PutsBlock
  <1>11. IsFunction(r) /\ r.blocks = m.blocks /\ r.at = N + 1 + 1 /\ Blocks(r) = Blocks(m)
    BY <1>6, <1>7, <1>9, MovesBlock
  <1>12. Blocks(r) = 1..(N + 3) /\ Len(r.blocks) = N + 3 BY <1>5, <1>7, <1>9, <1>11
  <1>13. \A b \in Blocks(r) \ Blocks(f) : b = N + 1 \/ b = N + 1 + 1 \/ b = N + 1 + 2
    <2>1. \A K \in Nat : \A b \in 1..(K + 3) :
              b \notin 1..K => b = K + 1 \/ b = K + 1 + 1 \/ b = K + 1 + 2
      OBVIOUS
    <2>2. N \in Nat /\ Blocks(f) = 1..N BY <1>5
    <2> QED BY <1>12, <2>1, <2>2
  <1>14. /\ N + 1 \in Blocks(r) \ Blocks(f) /\ N + 1 + 1 \in Blocks(r) \ Blocks(f)
         /\ N + 1 + 2 \in Blocks(r) \ Blocks(f)
    BY <1>5, <1>12
  <1>15. N + 1 # N + 1 + 1 /\ N + 1 # N + 1 + 2 /\ N + 1 + 1 # N + 1 + 2 BY <1>5
  <1>16. /\ r.blocks[N + 1] = xs /\ r.blocks[N + 1 + 1] = ys
         /\ r.blocks[N + 1 + 2] = <<>>
    <2>1. g.blocks[N + 1 + 2] = <<>> BY <1>5, <1>12, <1>14
    <2> QED BY <1>6, <1>7, <1>9, <1>11, <1>15, <2>1
  <1>17. \A b \in Blocks(f) : r.blocks[b] = g.blocks[b]
    <2>1. \A b \in Blocks(f) : b \in Blocks(g) /\ b # N + 1 /\ b # N + 1 + 1 BY SMTT(30), <1>5
    <2> QED BY <1>7, <1>9, <1>11, <2>1
  <1>18. ASSUME NEW b \in Blocks(r) \ Blocks(f)
         PROVE  Neutral(r.blocks[b]) /\ Exits(r.blocks[b]) \subseteq Blocks(r) \ Blocks(f)
    <2>1. CASE b = N + 1 BY <1>14, <1>16, <2>1
    <2>2. CASE b = N + 1 + 1 BY <1>16, <2>2
    <2>3. CASE b = N + 1 + 2 BY <1>16, <2>3, EmptySequence
    <2> QED BY <1>13, <2>1, <2>2, <2>3
  <1>19. r.at \in Blocks(r) \ Blocks(f) /\ Exits(r.blocks[r.at]) = {}
    BY <1>11, <1>14, <1>16
  <1>20. \A b \in Exits(is) : b \in Blocks(r) \ Blocks(f) BY <1>14
  <1>21. Len(r.blocks) >= Len(f.blocks) BY <1>5, <1>12
  <1>22. /\ r.blocks[f.at] = f.blocks[f.at] \o is
         /\ \A b \in Blocks(f) : b # f.at => r.blocks[b] = f.blocks[b]
    BY <1>5, <1>17
  <1>23. \E M : /\ FlowAt(r, M, F, A, scs)
                /\ \A b \in Blocks(r) \ Blocks(f) : M[b] = Saves(A, Len(A))
    <2>1. IsFunction(r) BY <1>11
    <2>2. \A b \in Blocks(r) \ Blocks(f) :
             Neutral(r.blocks[b]) /\ Exits(r.blocks[b]) \subseteq Blocks(r) \ Blocks(f)
      BY <1>18
    <2>3. Opened(f, is, r) BY <1>19, <1>20, <1>21, <1>22, <2>1, <2>2 DEF Opened
    <2> QED BY <2>3, FlowOpens
  <1> QED BY <1>5, <1>11, <1>14, <1>16, <1>23

(* A for makes those of its condition, its body and its end.               *)
LEMMA ForFlows ==
    ASSUME IndInv, ArrayInv, FlowInv, For
    PROVE  FlowInv'
  <1> DEFINE N    == Len(ir.blocks)
             hdr  == N + 1
             var  == node.kids[1]
             cont == named[node.x]
             ident == named[ast[var].x]
             i    == Instr("array of", var, cont.decl, <<>>, <<>>)
             j    == Alloca(Counter(pc))
             k    == Instr("start", var, Counter(pc), <<>>, <<>>)
             l    == Br(hdr)
             x    == Made("more", Counter(pc), <<var>>, <<hdr + 1, hdr + 2>>)
             y    == Made("item", ident.decl, <<var>>, <<>>)
             g    == Emit(AddBlocks(ir, 3), <<i, j, k, l>>)
             h    == Put(g, hdr, <<x>>)
             m    == Put(h, hdr + 1, <<y>>)
             c    == OpenScope("for", hdr, hdr + 2)
  <1>1. phase = "codegen" /\ pc <= Len(ast) BY Zenon DEF For, At
  <1>2. \/ Halt("failed")
        \/ Halt("crash")
        \/ /\ ir' = SetInsertPoint(m, hdr + 1) /\ scopes' = Append(scopes, c) /\ Statement
    BY Zenon DEF For, Put
  <1>3. CASE Halt("failed") \/ Halt("crash") BY <1>3, HaltFlows
  <1>4. CASE ir' = SetInsertPoint(m, hdr + 1) /\ scopes' = Append(scopes, c) /\ Statement
    <2>1. Yield("none") /\ UNCHANGED arrayDecls BY <1>4, Zenon DEF Statement
    <2>2. scopes' = Append(scopes, c) BY <1>4, Zenon
    <2>3. PICK L, F : FlowAt(ir, L, F, arrayDecls, scopes) BY <1>1, FlowHere
    <2>4. Len(arrayDecls) \in Nat /\ \A a \in 1..Len(arrayDecls) : arrayDecls[a].save # None
      BY <1>1, FlowHere
    <2>5. i.to = <<>> /\ j.to = <<>> /\ k.to = <<>> /\ y.to = <<>>
      BY Zenon DEF Made, Alloca, Instr
    <2>6. ToSet(l.to) = {hdr} /\ ToSet(x.to) = {hdr + 1, hdr + 2} BY Targets DEF Made, Br, Instr
    <2>7. /\ i.op \notin {"save", "restore"} /\ j.op \notin {"save", "restore"}
          /\ k.op \notin {"save", "restore"} /\ l.op \notin {"save", "restore"}
          /\ x.op \notin {"save", "restore"} /\ y.op \notin {"save", "restore"}
      BY Zenon DEF Made, Alloca, Br, Instr
    <2>8. /\ Adds(ir, 3, <<i, j, k, l>>, g) /\ Puts(g, hdr, <<x>>, h)
          /\ Puts(h, hdr + 1, <<y>>, m) /\ Moves(m, hdr + 1, ir')
      BY <1>4, Zenon DEF Adds, Puts, Moves
    <2>9. c.blk = pc /\ c.k = "for" /\ c.hdr = hdr /\ c.next = hdr + 2 BY DEF OpenScope
    <2>10. N = Len(ir.blocks) /\ hdr = N + 1 OBVIOUS
    <2> HIDE DEF N, hdr, var, cont, ident, i, j, k, l, x, y, g, h, m, c
    <2>11. PICK is, xs, ys : is = <<i, j, k, l>> /\ xs = <<x>> /\ ys = <<y>> OBVIOUS
    <2>12. Sequence(is) /\ Neutral(is) /\ Exits(is) = {hdr} BY <2>5, <2>6, <2>7, <2>11, FourInstrs
    <2>13. Sequence(xs) /\ Neutral(xs) /\ Exits(xs) = {hdr + 1, hdr + 2}
      BY <2>6, <2>7, <2>11, OneBranch
    <2>14. Sequence(ys) /\ Neutral(ys) /\ Exits(ys) = {} BY <2>5, <2>7, <2>11, OneInstr
    <2>15. PICK r : r = ir' OBVIOUS
    <2>16. /\ Adds(ir, 3, is, g) /\ Puts(g, N + 1, xs, h)
           /\ Puts(h, N + 1 + 1, ys, m) /\ Moves(m, N + 1 + 1, r)
      BY <2>8, <2>10, <2>11, <2>15
    <2>28. /\ Exits(is) = {N + 1} /\ Exits(xs) = {N + 1 + 1, N + 1 + 2} /\ N = Len(ir.blocks)
      BY <2>10, <2>12, <2>13
    <2>29. Sequence(is) /\ Neutral(is) /\ Sequence(xs) /\ Neutral(xs) BY <2>12, <2>13
    <2>31. Sequence(ys) /\ Neutral(ys) /\ Exits(ys) = {} BY <2>14
    <2>32. Adds(ir, 3, is, g) BY <2>16
    <2>33. Puts(g, N + 1, xs, h) BY <2>16
    <2>34. Puts(h, N + 1 + 1, ys, m) BY <2>16
    <2>35. Moves(m, N + 1 + 1, r) BY <2>16
    <2>36. N = Len(ir.blocks) BY <2>28
    <2>37. Exits(is) = {N + 1} BY <2>28
    <2>38. Exits(xs) = {N + 1 + 1, N + 1 + 2} BY <2>28
    <2>30. /\ N \in Nat /\ r.at = N + 1 + 1 /\ N + 1 \in Blocks(r) \ Blocks(ir)
           /\ N + 1 + 2 \in Blocks(r) \ Blocks(ir) /\ r.blocks[N + 1 + 2] = <<>>
           /\ \E M : /\ FlowAt(r, M, F, arrayDecls, scopes)
                     /\ \A b \in Blocks(r) \ Blocks(ir) :
                           M[b] = Saves(arrayDecls, Len(arrayDecls))
      BY SMTT(30), <2>3, <2>4, <2>29, <2>31, <2>32, <2>33, <2>34, <2>35, <2>36, <2>37, <2>38,
         LoopBlocks
    <2>17. /\ N \in Nat /\ r.at = hdr + 1 /\ hdr \in Blocks(r) \ Blocks(ir)
           /\ hdr + 2 \in Blocks(r) \ Blocks(ir) /\ r.blocks[hdr + 2] = <<>>
           /\ \E M : /\ FlowAt(r, M, F, arrayDecls, scopes)
                     /\ \A b \in Blocks(r) \ Blocks(ir) :
                           M[b] = Saves(arrayDecls, Len(arrayDecls))
      BY <2>10, <2>30
    <2>18. PICK M : /\ FlowAt(r, M, F, arrayDecls, scopes)
                    /\ \A b \in Blocks(r) \ Blocks(ir) :
                          M[b] = Saves(arrayDecls, Len(arrayDecls))
      BY <2>17
    <2>19. hdr \in Nat /\ hdr + 2 # 0 /\ hdr + 2 # hdr + 1
      <3>1. hdr \in Nat BY <2>10, <2>17
      <3> QED BY <3>1
    <2>20. pc # 0 BY <1>1, FlowHere
    <2>21. c.next # 0 /\ c.k # "then" /\ c.blk # 0 BY <2>9, <2>19, <2>20
    <2>22. Pending(c) = {hdr + 2} BY <2>9, <2>21 DEF Pending
    <2>23. \A p \in Pending(c) : p \in Blocks(r) \ Blocks(ir) /\ p # r.at /\ r.blocks[p] = <<>>
      BY <2>17, <2>19, <2>22
    <2>24. c.k \in BlockKinds BY <2>9 DEF BlockKinds
    <2>25. c.hdr \in Blocks(r) \ Blocks(ir) BY <2>9, <2>17
    <2>26. Between(r, M, F, arrayDecls, scopes, c)
      BY <2>3, <2>18, <2>21, <2>23, <2>24, <2>25, OpenBetween
    <2>27. Between(ir', M, F, arrayDecls, scopes, c) BY <2>15, <2>26
    <2> QED BY <1>1, <2>1, <2>2, <2>9, <2>27, FlowPushes
  <1> QED BY <1>2, <1>3, <1>4, Zenon

(* A block's arrays are released, and its return is made.                  *)
LEMMA CloseFlow ==
    ASSUME IndInv, ArrayInv, FlowInv, phase = "codegen", pc <= Len(ast), scopes # <<>>
    PROVE  \E L, F : \E k \in 0..Len(arrayDecls) :
              /\ k = Len(arrayDecls) - Cardinality(Mine)
              /\ Between(Closed, L, F, SubSeq(arrayDecls, 1, k), Front(scopes), Scope)
  <1> DEFINE R == IF Scope.ret = 0 THEN <<>> ELSE <<Ret(Scope.ret, ast[Scope.ret].kids)>>
  <1>1. PICK L, F : FlowAt(ir, L, F, arrayDecls, scopes) BY FlowHere
  <1>2. Len(arrayDecls) \in Nat /\ \A a \in 1..Len(arrayDecls) : arrayDecls[a].save # None
    BY FlowHere
  <1>3. PICK S, U : scopes \in Seq(S) /\ arrayDecls \in Seq(U) BY FlowHere
  <1>4. PICK k : k = F[Len(scopes)] OBVIOUS
  <1>5. Outside(F, arrayDecls, scopes) BY <1>1 DEF FlowAt
  <1>6. k \in 0..Len(arrayDecls) /\ Cardinality(Mine) = Len(arrayDecls) - k
    BY <1>3, <1>4, <1>5, MineAre
  <1>7. k = Len(arrayDecls) - Cardinality(Mine)
    <2>1. \A a \in Nat : \A b \in 0..a : \A c : c = a - b => b = a - c OBVIOUS
    <2> QED BY <1>2, <1>6, <2>1
  <1>8. /\ Sequence(Restores) /\ Exits(Restores) = {}
        /\ Runs(Restores, Saves(arrayDecls, Len(arrayDecls)), Saves(arrayDecls, k))
    BY <1>2, <1>6, RestoresRun
  <1>9. Sequence(R) /\ Neutral(R) /\ Exits(R) = {}
    <2>1. CASE Scope.ret = 0
      <3>1. R = <<>> BY <2>1
      <3> QED BY <3>1, EmptySequence
    <2>2. CASE Scope.ret # 0
      <3> DEFINE i == Ret(Scope.ret, ast[Scope.ret].kids)
      <3>1. R = <<i>> BY <2>2
      <3>2. i.to = <<>> /\ i.op \notin {"save", "restore"} BY DEF Ret, Instr
      <3> HIDE DEF i, R
      <3> QED BY <3>1, <3>2, OneInstr
    <2> QED BY <2>1, <2>2
  <1>10. Closed = Emit(ir, Restores \o R) BY DEF Closed
  <1> HIDE DEF R
  <1>11. PICK is : is = Restores \o R OBVIOUS
  <1>12. Sequence(is) /\ Exits(is) = {}
    <2>1. Sequence(Restores) /\ Sequence(R) BY <1>8, <1>9
    <2>2. Sequence(Restores \o R) BY <2>1, SequencesJoin
    <2>3. Exits(Restores \o R) = Exits(Restores) \cup Exits(R) BY <2>1, NeutralJoin
    <2> QED BY <1>8, <1>9, <1>11, <2>2, <2>3
  <1>13. Runs(is, Saves(arrayDecls, Len(arrayDecls)), Saves(arrayDecls, k))
    <2>1. Len(R) \in Nat BY <1>9, SequenceLen
    <2>2. Runs(R, Saves(arrayDecls, k), Saves(arrayDecls, k)) BY <1>9, <2>1, RunsNeutral
    <2> QED BY <1>8, <1>9, <1>11, <2>2, RunsJoin
  <1>14. Between(Emit(ir, is), L, F, SubSeq(arrayDecls, 1, k), Front(scopes), scopes[Len(scopes)])
    BY <1>1, <1>2, <1>3, <1>4, <1>12, <1>13, FlowPop
  <1>15. Scope = scopes[Len(scopes)] BY <1>3, LastLemma DEF Scope
  <1>16. Between(Closed, L, F, SubSeq(arrayDecls, 1, k), Front(scopes), Scope)
    BY <1>10, <1>11, <1>14, <1>15
  <1> QED BY <1>6, <1>7, <1>16

-----------------------------------------------------------------------------
(* A block is left for one that its scope awaits.                          *)
(* g is f, with is at the end of the current block and gone on to p.       *)
Goes(f, is, p, g) == g = SetInsertPoint(Emit(f, is), p)

(* To go on is to branch to a block and to fill it next.                   *)
LEMMA GoesOn ==
    ASSUME NEW f, IsFunction(f), NEW is, Sequence(is), NEW p \in Blocks(f),
           NEW g, Goes(f, is, p, g)
    PROVE  /\ IsFunction(g) /\ Len(g.blocks) = Len(f.blocks) /\ g.at = p
           /\ g.blocks[f.at] = f.blocks[f.at] \o is
           /\ \A b \in Blocks(f) : b # f.at => g.blocks[b] = f.blocks[b]
  <1>1. PICK e : e = Emit(f, is) OBVIOUS
  <1>2. /\ IsFunction(e) /\ Len(e.blocks) = Len(f.blocks)
        /\ e.at = f.at
        /\ e.blocks[f.at] = f.blocks[f.at] \o is
        /\ \A c \in Blocks(f) : c # f.at => e.blocks[c] = f.blocks[c]
    BY <1>1, EmitBlock
  <1>3. p \in Blocks(e) BY <1>2 DEF Blocks
  <1>4. Moves(e, p, g) BY <1>1 DEF Goes, Moves
  <1>5. IsFunction(g) /\ g.blocks = e.blocks /\ g.at = p BY <1>2, <1>3, <1>4, MovesBlock
  <1> QED BY <1>2, <1>5

(* It may be reached by a branch.                                          *)
LEMMA GoesArrives ==
    ASSUME NEW f, NEW L, NEW F, NEW A, NEW scs, NEW c, Between(f, L, F, A, scs, c),
           Len(A) \in Nat, \A n \in 1..Len(A) : A[n].save # None,
           NEW is, Sequence(is), Neutral(is),
           \A b \in Exits(is) : b \in Blocks(f) /\ L[b] = Saves(A, Len(A)),
           NEW p \in Pending(c),
           NEW g, Goes(f, is, p, g)
    PROVE  Arrived(g, L, F, A, scs, c, p)
  <1>1. IsFunction(f) /\ p \in Blocks(f) BY DEF Between, FlowAt, Labelled, Awaits
  <1>2. Continues(f, is, p, g) BY <1>1, GoesOn DEF Continues
  <1> QED BY <1>2, Arrives

Branches(f, b, p, g) == g = SetInsertPoint(BranchUnlessTerminated(f, b), p)

(* Or by one that is left out where the block has ended.                   *)
LEMMA BranchArrives ==
    ASSUME NEW f, NEW L, NEW F, NEW A, NEW scs, NEW c, Between(f, L, F, A, scs, c),
           Len(A) \in Nat, \A n \in 1..Len(A) : A[n].save # None,
           NEW b \in Blocks(f), L[b] = Saves(A, Len(A)), NEW p \in Pending(c),
           NEW g, Branches(f, b, p, g)
    PROVE  Arrived(g, L, F, A, scs, c, p)
  <1>1. CASE Terminated(f)
    <2>1. Moves(f, p, g) BY <1>1 DEF Branches, BranchUnlessTerminated, Moves
    <2>2. IsFunction(f) /\ p \in Blocks(f) BY DEF Between, FlowAt, Labelled, Awaits
    <2>3. IsFunction(g) /\ g.blocks = f.blocks /\ g.at = p BY <2>1, <2>2, MovesBlock
    <2>4. Sequence(f.blocks[f.at]) BY <2>2, FunctionLen
    <2>5. PICK is : is = <<>> OBVIOUS
    <2>6. Sequence(is) /\ Neutral(is) /\ Exits(is) = {} BY <2>5, EmptySequence
    <2>7. f.blocks[f.at] \o is = f.blocks[f.at] BY <2>4, <2>5, ConcatEmptySeq DEF Sequence
    <2>8. g.blocks[f.at] = f.blocks[f.at] \o is BY <2>3, <2>7
    <2>9. Continues(f, is, p, g) BY <2>3, <2>8 DEF Continues
    <2>10. Sequence(is) /\ Neutral(is) BY <2>6
    <2>11. \A d \in Exits(is) : d \in Blocks(f) /\ L[d] = Saves(A, Len(A)) BY <2>6
    <2> QED BY <2>9, <2>10, <2>11, Arrives
  <1>2. CASE ~Terminated(f)
    <2> DEFINE i == Br(b)
    <2>1. Goes(f, <<i>>, p, g) BY <1>2 DEF Branches, BranchUnlessTerminated, Goes
    <2>2. ToSet(i.to) = {b} /\ i.op \notin {"save", "restore"} BY Targets DEF Br, Instr
    <2> HIDE DEF i
    <2>3. PICK is : is = <<i>> OBVIOUS
    <2>4. Sequence(is) /\ Neutral(is) /\ Exits(is) = {b} BY <2>2, <2>3, OneBranch
    <2>5. Goes(f, is, p, g) BY <2>1, <2>3
    <2>6. \A d \in Exits(is) : d \in Blocks(f) /\ L[d] = Saves(A, Len(A)) BY <2>4
    <2>7. Sequence(is) /\ Neutral(is) BY <2>4
    <2> QED BY <2>5, <2>6, <2>7, GoesArrives
  <1> QED BY <1>1, <1>2

-----------------------------------------------------------------------------
(* A scope is popped with its arrays.                                      *)
LEMMA FlowEnds ==
    ASSUME IndInv, ArrayInv, FlowInv, phase = "codegen", pc <= Len(ast), scopes # <<>>,
           NEW ty, Yield(ty), NEW k \in 0..Len(arrayDecls),
           arrayDecls' = SubSeq(arrayDecls, 1, k), scopes' = Front(scopes),
           Flows(ir', SubSeq(arrayDecls, 1, k), Front(scopes))
    PROVE  FlowInv'
  <1>1. pc \in Nat /\ pc >= 1 BY FlowHere
  <1>2. PICK S, U : scopes \in Seq(S) /\ arrayDecls \in Seq(U) BY FlowHere
  <1>3. Declared(arrayDecls, scopes, pc) BY DEF FlowInv
  <1>4. Declared(SubSeq(arrayDecls, 1, k), Front(scopes), pc + 1)
    BY <1>1, <1>2, <1>3, DeclaredPop
  <1> QED BY <1>4, FlowSteps

(* The arrays that are left.                                               *)
LEMMA ArraysLeft ==
    ASSUME IndInv, ArrayInv, FlowInv, phase = "codegen", pc <= Len(ast), scopes # <<>>,
           NEW k \in 0..Len(arrayDecls), NEW A, A = SubSeq(arrayDecls, 1, k)
    PROVE  /\ Len(A) \in Nat
           /\ \A n \in 1..Len(A) : A[n].save # None /\ A[n].blk # pc
           /\ \E U : A \in Seq(U)
           /\ \E S : Front(scopes) \in Seq(S) /\ scopes \in Seq(S)
           /\ Declared(A, Front(scopes), pc)
  <1>1. pc \in Nat /\ pc >= 1 BY FlowHere
  <1>2. PICK S, U : scopes \in Seq(S) /\ arrayDecls \in Seq(U) BY FlowHere
  <1>3. Declared(arrayDecls, scopes, pc) BY DEF FlowInv
  <1>4. Declared(A, Front(scopes), pc) BY <1>1, <1>2, <1>3, DeclaredPop
  <1>5. A \in Seq(U) /\ Len(A) = k BY <1>2, PrefixLemma
  <1>6. Front(scopes) \in Seq(S) BY <1>2, FrontLemma
  <1>7. \A n \in 1..Len(A) : A[n].blk \in 0..(pc - 1) /\ A[n].save # None
    BY <1>4 DEF Declared
  <1>8. \A n \in 1..Len(A) : A[n].save # None /\ A[n].blk # pc BY <1>1, <1>7
  <1>9. Len(A) \in Nat BY <1>5
  <1> QED BY <1>2, <1>4, <1>5, <1>6, <1>8, <1>9

(* The ends of a bare block and of a function: the arrays are released.    *)
LEMMA LeaveBareFlows ==
    ASSUME IndInv, ArrayInv, FlowInv, LeaveBare
    PROVE  FlowInv'
  <1>1. /\ phase = "codegen" /\ pc <= Len(ast) /\ At("end") /\ Yield("none")
        /\ arrayDecls' = SubSeq(arrayDecls, 1, Len(arrayDecls) - Cardinality(Mine))
        /\ ir' = Closed /\ scopes' = Front(scopes)
    BY DEF LeaveBare, At, CloseScope
  <1>2. scopes # <<>>
    <2>1. "end" \in BlockPart BY DEF BlockPart, Ends
    <2> QED BY <1>1, <2>1, TopScope
  <1>3. PICK L, F : \E k \in 0..Len(arrayDecls) :
              /\ k = Len(arrayDecls) - Cardinality(Mine)
              /\ Between(Closed, L, F, SubSeq(arrayDecls, 1, k), Front(scopes), Scope)
    BY <1>1, <1>2, CloseFlow
  <1>4. PICK k \in 0..Len(arrayDecls) :
              /\ k = Len(arrayDecls) - Cardinality(Mine)
              /\ Between(Closed, L, F, SubSeq(arrayDecls, 1, k), Front(scopes), Scope)
    BY <1>3
  <1>5. Flows(ir', SubSeq(arrayDecls, 1, k), Front(scopes)) BY <1>1, <1>4 DEF Between, Flows
  <1>6. arrayDecls' = SubSeq(arrayDecls, 1, k) BY <1>1, <1>4
  <1> QED BY <1>1, <1>2, <1>5, <1>6, FlowEnds

(* Nothing is awaited where no scope is open.                              *)
LEMMA FlowBare ==
    ASSUME NEW f, NEW L, NEW F, NEW A, NEW scs, FlowAt(f, L, F, A, scs)
    PROVE  Flows(f, A, <<>>)
  <1>1. Len(<<>>) = 0 BY EmptySeq
  <1>2. \A j \in 1..Len(<<>>) : FALSE BY <1>1
  <1>3. Labelled(f, L, Saves(A, Len(A))) BY DEF FlowAt
  <1>4. Outside(F, A, <<>>) BY <1>2 DEF Outside
  <1>5. AllAwait(f, L, F, A, <<>>) BY <1>2 DEF AllAwait
  <1>6. FlowAt(f, L, F, A, <<>>) BY <1>3, <1>4, <1>5 DEF FlowAt
  <1> QED BY <1>6 DEF Flows

LEMMA EndFunctionFlows ==
    ASSUME IndInv, ArrayInv, FlowInv, EndFunction
    PROVE  FlowInv'
  <1>1. /\ phase = "codegen" /\ pc <= Len(ast) /\ At("end") /\ Yield("none")
        /\ arrayDecls' = SubSeq(arrayDecls, 1, Len(arrayDecls) - Cardinality(Mine))
        /\ ir' = Finished /\ scopes' = <<>>
    BY DEF EndFunction, At
  <1>2. scopes # <<>>
    <2>1. "end" \in BlockPart BY DEF BlockPart, Ends
    <2> QED BY <1>1, <2>1, TopScope
  <1>3. PICK L, F : \E k \in 0..Len(arrayDecls) :
              /\ k = Len(arrayDecls) - Cardinality(Mine)
              /\ Between(Closed, L, F, SubSeq(arrayDecls, 1, k), Front(scopes), Scope)
    BY <1>1, <1>2, CloseFlow
  <1>4. PICK k \in 0..Len(arrayDecls) :
              /\ k = Len(arrayDecls) - Cardinality(Mine)
              /\ Between(Closed, L, F, SubSeq(arrayDecls, 1, k), Front(scopes), Scope)
    BY <1>3
  <1>5. PICK A : A = SubSeq(arrayDecls, 1, k) OBVIOUS
  <1>6. FlowAt(Closed, L, F, A, Front(scopes)) BY <1>4, <1>5 DEF Between
  <1>7. Len(A) \in Nat /\ \A n \in 1..Len(A) : A[n].save # None BY <1>1, <1>2, <1>5, ArraysLeft
  <1>8. FlowAt(Finished, L, F, A, Front(scopes))
    <2> DEFINE i == Ret(pc, <<>>)
    <2>1. Finished = Closed \/ Finished = Emit(Closed, <<i>>) BY DEF Finished
    <2>2. i.to = <<>> /\ i.op \notin {"save", "restore"} BY DEF Ret, Instr
    <2> HIDE DEF i
    <2>3. PICK is, f : is = <<i>> /\ f = Closed OBVIOUS
    <2>4. Sequence(is) /\ Neutral(is) /\ Exits(is) = {} BY <2>2, <2>3, OneInstr
    <2>5. FlowAt(f, L, F, A, Front(scopes)) BY <1>6, <2>3
    <2>6. FlowAt(Emit(f, is), L, F, A, Front(scopes)) BY <1>7, <2>4, <2>5, FlowEmit
    <2> QED BY <2>1, <2>3, <2>5, <2>6
  <1>9. Flows(ir', A, <<>>) BY <1>1, <1>8, FlowBare
  <1>10. Declared(A, Front(scopes), pc) BY <1>1, <1>2, <1>5, ArraysLeft
  <1>11. Declared(A, Front(scopes), pc + 1) BY <1>1, <1>10, FlowHere, DeclaredMore
  <1>12. Declared(A, <<>>, pc + 1)
    <2>1. Len(<<>>) = 0 BY EmptySeq
    <2>2. \A j \in 1..Len(<<>>) : FALSE BY <2>1
    <2> QED BY <1>11, <2>2 DEF Declared
  <1>13. arrayDecls' = A BY <1>1, <1>4, <1>5
  <1> QED BY <1>1, <1>9, <1>12, <1>13, FlowSteps

(* What a block's end leaves.                                              *)
LEMMA Closing ==
    ASSUME IndInv, ArrayInv, FlowInv, NEW e \in Ends, At(e), CloseScope
    PROVE  /\ phase = "codegen" /\ pc <= Len(ast) /\ Yield("none")
           /\ scopes # <<>> /\ IsScope(Scope)
           /\ \E k \in 0..Len(arrayDecls) : \E A, L, F :
                 /\ A = SubSeq(arrayDecls, 1, k) /\ arrayDecls' = A
                 /\ Len(A) \in Nat /\ \A n \in 1..Len(A) : A[n].save # None /\ A[n].blk # pc
                 /\ Between(Closed, L, F, A, Front(scopes), Scope)
  <1>1. phase = "codegen" /\ pc <= Len(ast) BY DEF At
  <1>2. /\ Yield("none")
        /\ arrayDecls' = SubSeq(arrayDecls, 1, Len(arrayDecls) - Cardinality(Mine))
    BY DEF CloseScope
  <1>3. e \in BlockPart BY DEF BlockPart
  <1>4. scopes # <<>> /\ IsScope(Scope) BY <1>3, TopScope
  <1>5. PICK L, F : \E k \in 0..Len(arrayDecls) :
              /\ k = Len(arrayDecls) - Cardinality(Mine)
              /\ Between(Closed, L, F, SubSeq(arrayDecls, 1, k), Front(scopes), Scope)
    BY <1>1, <1>4, CloseFlow
  <1>6. PICK k \in 0..Len(arrayDecls) :
              /\ k = Len(arrayDecls) - Cardinality(Mine)
              /\ Between(Closed, L, F, SubSeq(arrayDecls, 1, k), Front(scopes), Scope)
    BY <1>5
  <1>7. PICK A : A = SubSeq(arrayDecls, 1, k) OBVIOUS
  <1>8. Len(A) \in Nat /\ \A n \in 1..Len(A) : A[n].save # None /\ A[n].blk # pc
    BY <1>1, <1>4, <1>7, ArraysLeft
  <1>9. Between(Closed, L, F, A, Front(scopes), Scope) BY <1>6, <1>7
  <1>10. arrayDecls' = A BY <1>2, <1>6, <1>7
  <1> QED BY <1>1, <1>2, <1>4, <1>7, <1>8, <1>9, <1>10

(* What a scope may go on to, and what has to be there.                    *)
LEMMA BetweenAwaits ==
    ASSUME NEW f, NEW L, NEW F, NEW A, NEW scs, NEW c, Between(f, L, F, A, scs, c)
    PROVE  /\ c.k \in BlockKinds /\ (c.k \in {"body", "bare"} \/ c.next # 0)
           /\ c.k = "then" => c.hdr # 0
           /\ c.blk = 0 => c.next # c.hdr + 1
           /\ \A p \in Pending(c) : p \in Blocks(f) /\ L[p] = Saves(A, Len(A))
           /\ IsLoop(c) => c.hdr \in Blocks(f) /\ L[c.hdr] = Saves(A, Len(A))
  BY DEF Between, Awaits

(* The end of an if moves to where its parts meet.                         *)
LEMMA EndIfFlows ==
    ASSUME IndInv, ArrayInv, FlowInv, EndIf
    PROVE  FlowInv'
  <1>1. /\ At("end") /\ CloseScope /\ scopes' = Front(scopes) /\ node.op \in {"then", "else"}
        /\ Branches(Closed, Scope.next, Scope.next, ir')
    BY DEF EndIf, Branches
  <1>2. "end" \in Ends /\ "end" \in BlockPart BY DEF Ends, BlockPart
  <1>3. /\ phase = "codegen" /\ pc <= Len(ast) /\ Yield("none") /\ scopes # <<>>
        /\ \E k \in 0..Len(arrayDecls) : \E A, L, F :
                 /\ A = SubSeq(arrayDecls, 1, k) /\ arrayDecls' = A
                 /\ Len(A) \in Nat /\ \A n \in 1..Len(A) : A[n].save # None /\ A[n].blk # pc
                 /\ Between(Closed, L, F, A, Front(scopes), Scope)
    BY <1>1, <1>2, Closing
  <1>4. PICK k \in 0..Len(arrayDecls) : \E A, L, F :
                 /\ A = SubSeq(arrayDecls, 1, k) /\ arrayDecls' = A
                 /\ Len(A) \in Nat /\ \A n \in 1..Len(A) : A[n].save # None /\ A[n].blk # pc
                 /\ Between(Closed, L, F, A, Front(scopes), Scope)
    BY <1>3
  <1>5. PICK A, L, F :
                 /\ A = SubSeq(arrayDecls, 1, k) /\ arrayDecls' = A
                 /\ Len(A) \in Nat /\ \A n \in 1..Len(A) : A[n].save # None /\ A[n].blk # pc
                 /\ Between(Closed, L, F, A, Front(scopes), Scope)
    BY <1>4
  <1>6. FormOfScope(Scope) = FormOf(node.op, "none") BY <1>1, <1>2, TopScope
  <1>7. Scope.k \notin {"body", "bare"}
    <2>1. FormOfScope(Scope) = "arm" BY <1>1, <1>6 DEF FormOf
    <2> QED BY <2>1 DEF FormOfScope, FormOf
  <1>8. PICK c, f, g : c = Scope /\ f = Closed /\ g = ir' OBVIOUS
  <1>9. Between(f, L, F, A, Front(scopes), c) BY <1>5, <1>8
  <1>10. c.next # 0 BY <1>7, <1>8, <1>9, BetweenAwaits
  <1>11. c.next \in Pending(c) BY <1>10 DEF Pending
  <1>12. c.next \in Blocks(f) /\ L[c.next] = Saves(A, Len(A)) BY <1>9, <1>11, BetweenAwaits
  <1>13. Branches(f, c.next, c.next, g) BY <1>1, <1>8
  <1>14. Arrived(g, L, F, A, Front(scopes), c, c.next)
    BY <1>5, <1>9, <1>11, <1>12, <1>13, BranchArrives
  <1>15. Flows(ir', SubSeq(arrayDecls, 1, k), Front(scopes))
    BY <1>5, <1>8, <1>14 DEF Arrived, Flows
  <1> QED BY <1>1, <1>3, <1>5, <1>15, FlowEnds

(* The end of a loop goes back to its condition, and on after it.          *)
LEMMA EndLoopFlows ==
    ASSUME IndInv, ArrayInv, FlowInv, EndLoop
    PROVE  FlowInv'
  <1> DEFINE X  == IF node.op = "while" THEN <<>>
                   ELSE <<Made("next", Counter(Scope.blk), <<>>, <<>>)>>
             i  == Br(Scope.hdr)
  <1>1. /\ At("end") /\ CloseScope /\ scopes' = Front(scopes) /\ node.op \in {"while", "for"}
        /\ Goes(Closed, X \o <<i>>, Scope.next, ir')
    BY DEF EndLoop, Goes
  <1>2. "end" \in Ends /\ "end" \in BlockPart BY DEF Ends, BlockPart
  <1>3. /\ phase = "codegen" /\ pc <= Len(ast) /\ Yield("none") /\ scopes # <<>>
        /\ \E k \in 0..Len(arrayDecls) : \E A, L, F :
                 /\ A = SubSeq(arrayDecls, 1, k) /\ arrayDecls' = A
                 /\ Len(A) \in Nat /\ \A n \in 1..Len(A) : A[n].save # None /\ A[n].blk # pc
                 /\ Between(Closed, L, F, A, Front(scopes), Scope)
    BY <1>1, <1>2, Closing
  <1>4. PICK k \in 0..Len(arrayDecls) : \E A, L, F :
                 /\ A = SubSeq(arrayDecls, 1, k) /\ arrayDecls' = A
                 /\ Len(A) \in Nat /\ \A n \in 1..Len(A) : A[n].save # None /\ A[n].blk # pc
                 /\ Between(Closed, L, F, A, Front(scopes), Scope)
    BY <1>3
  <1>5. PICK A, L, F :
                 /\ A = SubSeq(arrayDecls, 1, k) /\ arrayDecls' = A
                 /\ Len(A) \in Nat /\ \A n \in 1..Len(A) : A[n].save # None /\ A[n].blk # pc
                 /\ Between(Closed, L, F, A, Front(scopes), Scope)
    BY <1>4
  <1>6. FormOfScope(Scope) = FormOf(node.op, "none") BY <1>1, <1>2, TopScope
  <1>7. Scope.k \notin {"body", "bare", "then", "else"}
    <2>1. FormOfScope(Scope) = "loop" BY <1>1, <1>6 DEF FormOf
    <2> QED BY <2>1 DEF FormOfScope, FormOf
  <1>16. Sequence(X) /\ Neutral(X) /\ Exits(X) = {}
    <2> DEFINE y == Made("next", Counter(Scope.blk), <<>>, <<>>)
    <2>1. X = <<>> \/ X = <<y>> OBVIOUS
    <2>2. y.to = <<>> /\ y.op \notin {"save", "restore"} BY DEF Made, Instr
    <2> HIDE DEF y, X
    <2> QED BY <2>1, <2>2, OneInstr, EmptySequence
  <1>17. ToSet(i.to) = {Scope.hdr} /\ i.op \notin {"save", "restore"} BY Targets DEF Br, Instr
  <1> HIDE DEF X, i
  <1>8. PICK c, f, g, bs, is : /\ c = Scope /\ f = Closed /\ g = ir' /\ bs = <<i>>
                               /\ is = X \o <<i>>
    OBVIOUS
  <1>18. Sequence(bs) /\ Neutral(bs) /\ Exits(bs) = {c.hdr} BY <1>8, <1>17, OneBranch
  <1>19. Sequence(is) /\ Neutral(is) /\ Exits(is) = {c.hdr}
    <2>1. is = X \o bs BY <1>8
    <2>2. Sequence(X \o bs) BY <1>16, <1>18, SequencesJoin
    <2>3. Neutral(X \o bs) /\ Exits(X \o bs) = Exits(X) \cup Exits(bs)
      BY <1>16, <1>18, NeutralJoin
    <2> QED BY <1>16, <1>18, <2>1, <2>2, <2>3
  <1>9. Between(f, L, F, A, Front(scopes), c) BY <1>5, <1>8
  <1>10. c.next # 0 /\ IsLoop(c)
    <2>1. c.k \in BlockKinds /\ (c.k \in {"body", "bare"} \/ c.next # 0) BY <1>9, BetweenAwaits
    <2> QED BY <1>7, <1>8, <2>1 DEF BlockKinds, IsLoop
  <1>11. c.next \in Pending(c) BY <1>10 DEF Pending
  <1>12. c.hdr \in Blocks(f) /\ L[c.hdr] = Saves(A, Len(A)) BY <1>9, <1>10, BetweenAwaits
  <1>13. Goes(f, is, c.next, g) BY <1>1, <1>8
  <1>20. Sequence(is) /\ Neutral(is) BY <1>19
  <1>21. \A b \in Exits(is) : b \in Blocks(f) /\ L[b] = Saves(A, Len(A)) BY <1>12, <1>19
  <1>14. Arrived(g, L, F, A, Front(scopes), c, c.next)
    BY <1>5, <1>9, <1>11, <1>13, <1>20, <1>21, GoesArrives
  <1>15. Flows(ir', SubSeq(arrayDecls, 1, k), Front(scopes))
    BY <1>5, <1>8, <1>14 DEF Arrived, Flows
  <1> QED BY <1>1, <1>3, <1>5, <1>15, FlowEnds

(* A scope takes the place of another, with the same block to come after.  *)
LEMMA MakesWay ==
    ASSUME NEW f, NEW L, NEW F, NEW A, NEW scs, NEW c, Between(f, L, F, A, scs, c),
           NEW p, NEW g, Arrived(g, L, F, A, scs, c, p),
           c.next \in Pending(c), c.next # p,
           NEW d, d.k \in BlockKinds, d.k # "then", d.blk # 0, d.next = c.next,
           IsLoop(d) => d.hdr \in Blocks(g) /\ L[d.hdr] = Saves(A, Len(A))
    PROVE  Between(g, L, F, A, scs, d)
  <1>1. c.next # 0 BY DEF Pending
  <1>2. Pending(d) = {c.next} BY <1>1 DEF Pending
  <1>3. /\ c.next \in Blocks(g) \ {1, g.at}
        /\ g.blocks[c.next] = <<>> /\ L[c.next] = Saves(A, Len(A))
    BY DEF Arrived
  <1>4. Awaits(g, L, Saves(A, Len(A)), d) BY <1>1, <1>2, <1>3 DEF Awaits
  <1>5. ASSUME NEW j \in 1..Len(scs)
        PROVE  Pending(d) \cap Pending(scs[j]) = {}
    <2>1. Pending(c) \cap Pending(scs[j]) = {} BY DEF Between
    <2> QED BY <1>2, <2>1
  <1>6. FlowAt(g, L, F, A, scs) BY DEF Arrived
  <1> QED BY <1>4, <1>5, <1>6 DEF Between

(* A scope takes the place of the one whose block has ended.               *)
LEMMA FlowReplaces ==
    ASSUME IndInv, ArrayInv, FlowInv, phase = "codegen", pc <= Len(ast), scopes # <<>>,
           NEW ty, Yield(ty), NEW k \in 0..Len(arrayDecls), NEW A, A = SubSeq(arrayDecls, 1, k),
           arrayDecls' = A, NEW d, d.blk = pc, scopes' = Append(Front(scopes), d),
           NEW L, NEW F, Between(ir', L, F, A, Front(scopes), d)
    PROVE  FlowInv'
  <1>1. pc \in Nat /\ pc >= 1 BY FlowHere
  <1>2. \A n \in 1..Len(A) : A[n].blk # d.blk BY ArraysLeft
  <1>3. PICK U : A \in Seq(U) BY ArraysLeft
  <1>4. PICK S : Front(scopes) \in Seq(S) BY ArraysLeft
  <1>5. Declared(A, Front(scopes), pc) BY ArraysLeft
  <1>6. PICK scs : scs = Front(scopes) OBVIOUS
  <1>7. scs \in Seq(S) /\ Between(ir', L, F, A, scs, d) /\ Declared(A, scs, pc)
    BY <1>4, <1>5, <1>6
  <1>8. Flows(ir', A, Append(scs, d)) BY <1>2, <1>3, <1>7, FlowPush
  <1>9. d.blk \in {0, pc} OBVIOUS
  <1>10. Declared(A, Append(scs, d), pc + 1) BY <1>1, <1>7, <1>9, DeclaredPush
  <1> QED BY <1>6, <1>8, <1>10, FlowSteps

(* An else moves to its own block.                                         *)
LEMMA ElseFlows ==
    ASSUME IndInv, ArrayInv, FlowInv, Else
    PROVE  FlowInv'
  <1> DEFINE d == OpenScope("else", 0, Scope.next)
  <1>1. /\ At("else") /\ CloseScope /\ scopes' = Append(Front(scopes), d)
        /\ Branches(Closed, Scope.next, Scope.hdr, ir')
    BY DEF Else, Branches
  <1>2. "else" \in Ends /\ "else" \in BlockPart BY DEF Ends, BlockPart
  <1>16. d.blk = pc /\ d.k = "else" /\ d.next = Scope.next BY DEF OpenScope
  <1> HIDE DEF d
  <1>3. /\ phase = "codegen" /\ pc <= Len(ast) /\ Yield("none") /\ scopes # <<>>
        /\ \E k \in 0..Len(arrayDecls) : \E A, L, F :
                 /\ A = SubSeq(arrayDecls, 1, k) /\ arrayDecls' = A
                 /\ Len(A) \in Nat /\ \A n \in 1..Len(A) : A[n].save # None /\ A[n].blk # pc
                 /\ Between(Closed, L, F, A, Front(scopes), Scope)
    BY <1>1, <1>2, Closing
  <1>4. PICK k \in 0..Len(arrayDecls) : \E A, L, F :
                 /\ A = SubSeq(arrayDecls, 1, k) /\ arrayDecls' = A
                 /\ Len(A) \in Nat /\ \A n \in 1..Len(A) : A[n].save # None /\ A[n].blk # pc
                 /\ Between(Closed, L, F, A, Front(scopes), Scope)
    BY <1>3
  <1>5. PICK A, L, F :
                 /\ A = SubSeq(arrayDecls, 1, k) /\ arrayDecls' = A
                 /\ Len(A) \in Nat /\ \A n \in 1..Len(A) : A[n].save # None /\ A[n].blk # pc
                 /\ Between(Closed, L, F, A, Front(scopes), Scope)
    BY <1>4
  <1>6. FormOfScope(Scope) = "fork" BY <1>1, <1>2, TopScope
  <1>7. Scope.k = "then" /\ Scope.hdr # Scope.next BY <1>6 DEF FormOfScope, FormOf
  <1>8. PICK c, f, g : c = Scope /\ f = Closed /\ g = ir' OBVIOUS
  <1>9. Between(f, L, F, A, Front(scopes), c) BY <1>5, <1>8
  <1>10. c.next # 0 /\ c.hdr # 0 BY <1>7, <1>8, <1>9, BetweenAwaits
  <1>11. c.next \in Pending(c) /\ c.hdr \in Pending(c) BY <1>7, <1>8, <1>10 DEF Pending
  <1>12. c.next \in Blocks(f) /\ L[c.next] = Saves(A, Len(A)) BY <1>9, <1>11, BetweenAwaits
  <1>13. Branches(f, c.next, c.hdr, g) BY <1>1, <1>8
  <1>14. Arrived(g, L, F, A, Front(scopes), c, c.hdr)
    BY <1>5, <1>9, <1>11, <1>12, <1>13, BranchArrives
  <1>15. pc # 0 BY <1>3, FlowHere
  <1>17. d.k \in BlockKinds /\ d.k # "then" /\ d.blk # 0 /\ d.next = c.next /\ ~IsLoop(d)
    BY <1>8, <1>15, <1>16 DEF BlockKinds, IsLoop
  <1>18. c.next # c.hdr BY <1>7, <1>8
  <1>19. Between(g, L, F, A, Front(scopes), d) BY <1>9, <1>11, <1>14, <1>17, <1>18, MakesWay
  <1>20. Between(ir', L, F, A, Front(scopes), d) BY <1>8, <1>19
  <1> QED BY <1>1, <1>3, <1>5, <1>16, <1>20, FlowReplaces

(* A while's header has declared nothing, so its body begins as it did.    *)
LEMMA HeaderBetween ==
    ASSUME IndInv, ArrayInv, FlowInv, phase = "codegen", pc <= Len(ast), scopes # <<>>,
           Scope.blk = 0
    PROVE  \E L, F : /\ Between(Emit(ir, <<>>), L, F, arrayDecls, Front(scopes), Scope)
                     /\ IsFunction(ir)
  <1>1. PICK L, F : FlowAt(ir, L, F, arrayDecls, scopes) BY FlowHere
  <1>2. /\ Len(arrayDecls) \in Nat
        /\ \A a \in 1..Len(arrayDecls) : arrayDecls[a].save # None /\ arrayDecls[a].blk # 0
    BY FlowHere
  <1>3. PICK S, U : scopes \in Seq(S) /\ arrayDecls \in Seq(U) BY FlowHere
  <1>4. Scope = scopes[Len(scopes)] /\ Len(scopes) \in 1..Len(scopes) /\ Len(scopes) \in Nat
    BY <1>3, LastLemma, LenPositive DEF Scope
  <1>5. PICK k : k = F[Len(scopes)] OBVIOUS
  <1>6. k = Len(arrayDecls)
    <2>1. k \in 0..Len(arrayDecls) BY <1>1, <1>4, <1>5 DEF FlowAt, Outside
    <2>2. ASSUME NEW n \in (k + 1)..Len(arrayDecls)
          PROVE  FALSE
      <3>1. PICK i \in Len(scopes)..Len(scopes) : scopes[i].blk = arrayDecls[n].blk
        BY <1>1, <1>4, <1>5 DEF FlowAt, Outside
      <3>2. i = Len(scopes) BY <1>4
      <3>3. arrayDecls[n].blk = 0 BY <1>4, <3>1, <3>2
      <3>4. n \in 1..Len(arrayDecls) BY <1>2, <2>1
      <3> QED BY <1>2, <3>3, <3>4
    <2>3. k < Len(arrayDecls) => k + 1 \in (k + 1)..Len(arrayDecls) BY <1>2, <2>1
    <2> QED BY <1>2, <2>1, <2>2, <2>3
  <1>7. PICK is : is = <<>> OBVIOUS
  <1>8. Sequence(is) /\ Neutral(is) /\ Exits(is) = {} /\ Len(is) \in Nat
    BY <1>7, EmptySequence
  <1>9. Runs(is, Saves(arrayDecls, Len(arrayDecls)), Saves(arrayDecls, k))
    BY <1>6, <1>8, RunsNeutral
  <1>10. Between(Emit(ir, is), L, F, SubSeq(arrayDecls, 1, k), Front(scopes), scopes[Len(scopes)])
    BY <1>1, <1>2, <1>3, <1>5, <1>8, <1>9, FlowPop
  <1>11. SubSeq(arrayDecls, 1, k) = arrayDecls BY <1>3, <1>6, SubSeqFull
  <1>12. Between(Emit(ir, <<>>), L, F, arrayDecls, Front(scopes), Scope)
    BY <1>4, <1>7, <1>10, <1>11
  <1>13. IsFunction(ir) BY <1>1 DEF FlowAt, Labelled
  <1> QED BY <1>12, <1>13

(* A condition: one branch is followed, the other is left pending.         *)
LEMMA GoesAsWell ==
    ASSUME NEW e, IsFunction(e), NEW f, f = Emit(e, <<>>), NEW is, Sequence(is),
           NEW p \in Blocks(f), NEW g, Goes(e, is, p, g)
    PROVE  Continues(f, is, p, g) /\ Blocks(g) = Blocks(f)
  <1>1. PICK os : os = <<>> /\ Sequence(os) BY EmptySequence
  <1>2. /\ Len(f.blocks) = Len(e.blocks) /\ f.at = e.at
        /\ f.blocks[e.at] = e.blocks[e.at] \o os
        /\ \A c \in Blocks(e) : c # e.at => f.blocks[c] = e.blocks[c]
    BY <1>1, EmitBlock
  <1>3. Sequence(e.blocks[e.at]) /\ e.at \in Blocks(e) BY FunctionLen
  <1>4. e.blocks[e.at] \o os = e.blocks[e.at] BY <1>1, <1>3, ConcatEmptySeq DEF Sequence
  <1>5. \A c \in Blocks(e) : f.blocks[c] = e.blocks[c] BY <1>2, <1>4
  <1>6. Blocks(f) = Blocks(e) BY <1>2 DEF Blocks
  <1>7. /\ IsFunction(g) /\ Len(g.blocks) = Len(e.blocks) /\ g.at = p
        /\ g.blocks[e.at] = e.blocks[e.at] \o is
        /\ \A b \in Blocks(e) : b # e.at => g.blocks[b] = e.blocks[b]
    BY <1>6, GoesOn
  <1>8. g.blocks[f.at] = f.blocks[f.at] \o is BY <1>2, <1>3, <1>5, <1>7
  <1>9. \A b \in Blocks(f) : b # f.at => g.blocks[b] = f.blocks[b] BY <1>2, <1>5, <1>6, <1>7
  <1>10. Len(g.blocks) = Len(f.blocks) BY <1>2, <1>7
  <1>11. Blocks(g) = Blocks(f) BY <1>10 DEF Blocks
  <1> QED BY <1>7, <1>8, <1>9, <1>10, <1>11 DEF Continues

(* The condition of a while has been visited, and its body is next.        *)
LEMMA WhileBodyFlows ==
    ASSUME IndInv, ArrayInv, FlowInv, WhileBody
    PROVE  FlowInv'
  <1> DEFINE d == [Scope EXCEPT !.blk = pc]
             i == Made("test", None, node.kids, <<Scope.hdr + 1, Scope.next>>)
  <1>1. /\ At("whilebody") /\ phase = "codegen" /\ pc <= Len(ast)
        /\ Yield("none") /\ UNCHANGED arrayDecls
        /\ scopes' = Append(Front(scopes), d)
    BY DEF WhileBody, Statement, At
  <1>2. Goes(ir, <<i>>, Scope.hdr + 1, ir') BY DEF WhileBody, Goes
  <1>3. "whilebody" \in BlockPart BY DEF BlockPart
  <1>4. scopes # <<>> /\ IsScope(Scope) /\ Scope.blk = 0 /\ FormOfScope(Scope) = "loop"
    BY <1>1, <1>3, TopScope
  <1>5. d.blk = pc /\ d.k = Scope.k /\ d.hdr = Scope.hdr /\ d.next = Scope.next
    BY <1>4 DEF IsScope
  <1>6. ToSet(i.to) = {Scope.hdr + 1, Scope.next} /\ i.op \notin {"save", "restore"}
    BY Targets DEF Made, Instr
  <1> HIDE DEF d, i
  <1>7. PICK L, F : /\ Between(Emit(ir, <<>>), L, F, arrayDecls, Front(scopes), Scope)
                    /\ IsFunction(ir)
    BY <1>1, <1>4, HeaderBetween
  <1>8. PICK c, e, f, g, is : /\ c = Scope /\ e = ir /\ f = Emit(e, <<>>) /\ g = ir'
                              /\ is = <<i>>
    OBVIOUS
  <1>9. Sequence(is) /\ Neutral(is) /\ Exits(is) = {c.hdr + 1, c.next} BY <1>6, <1>8, OneBranch
  <1>10. Between(f, L, F, arrayDecls, Front(scopes), c) BY <1>7, <1>8
  <1>11. Scope.k \notin {"body", "bare", "then", "else"} BY <1>4 DEF FormOfScope, FormOf
  <1>12. c.k \in BlockKinds /\ (c.k \in {"body", "bare"} \/ c.next # 0) BY <1>10, BetweenAwaits
  <1>13. c.next # 0 /\ IsLoop(c) BY <1>8, <1>11, <1>12 DEF BlockKinds, IsLoop
  <1>14. /\ c.hdr \in Blocks(f) /\ L[c.hdr] = Saves(arrayDecls, Len(arrayDecls))
         /\ c.next # c.hdr + 1
    BY <1>4, <1>8, <1>10, <1>13, BetweenAwaits
  <1>15. c.hdr + 1 # 0
    <2>1. c.hdr \in Nat BY <1>14 DEF Blocks
    <2> QED BY <2>1
  <1>16. c.next \in Pending(c) /\ c.hdr + 1 \in Pending(c)
    BY <1>4, <1>8, <1>11, <1>13, <1>15 DEF Pending
  <1>17. PICK p : p = c.hdr + 1 OBVIOUS
  <1>18. p \in Pending(c) /\ p \in Blocks(f) BY <1>10, <1>16, <1>17, BetweenAwaits
  <1>19. Goes(e, is, p, g) BY <1>2, <1>8, <1>17
  <1>20. IsFunction(e) /\ Sequence(is) /\ Neutral(is) BY <1>7, <1>8, <1>9
  <1>21. Continues(f, is, p, g) /\ Blocks(g) = Blocks(f) BY <1>8, <1>18, <1>19, <1>20, GoesAsWell
  <1>22. \A b \in Exits(is) : b \in Blocks(f) /\ L[b] = Saves(arrayDecls, Len(arrayDecls))
    BY <1>9, <1>10, <1>16, BetweenAwaits
  <1>23. Len(arrayDecls) \in Nat /\ \A n \in 1..Len(arrayDecls) : arrayDecls[n].save # None
    BY <1>1, FlowHere
  <1>24. Continues(f, is, p, g) BY <1>21
  <1>25. Arrived(g, L, F, arrayDecls, Front(scopes), c, p)
    BY <1>10, <1>18, <1>20, <1>22, <1>23, <1>24, Arrives
  <1>26. pc # 0 BY <1>1, FlowHere
  <1>27. /\ d.k \in BlockKinds /\ d.k # "then" /\ d.blk # 0 /\ d.next = c.next
         /\ d.hdr \in Blocks(g) /\ L[d.hdr] = Saves(arrayDecls, Len(arrayDecls))
    BY <1>5, <1>8, <1>11, <1>12, <1>14, <1>21, <1>26
  <1>28. c.next # p BY <1>14, <1>17
  <1>29. Between(g, L, F, arrayDecls, Front(scopes), d)
    BY <1>10, <1>16, <1>25, <1>27, <1>28, MakesWay
  <1>30. Between(ir', L, F, arrayDecls, Front(scopes), d) BY <1>8, <1>29
  <1>31. PICK k : k = Len(arrayDecls) OBVIOUS
  <1>32. k \in 0..Len(arrayDecls) BY <1>23, <1>31
  <1>33. arrayDecls = SubSeq(arrayDecls, 1, k)
    <2>1. PICK U : arrayDecls \in Seq(U) BY <1>1, FlowHere
    <2> QED BY <1>31, <2>1, SubSeqFull
  <1> QED BY <1>1, <1>4, <1>5, <1>30, <1>32, <1>33, FlowReplaces

(* A return notes itself in the innermost scope.                           *)
LEMMA ReturnFlows ==
    ASSUME IndInv, ArrayInv, FlowInv, Return
    PROVE  FlowInv'
  <1> DEFINE n == Len(scopes)
             f == [scopes[n] EXCEPT !.ret = pc]
             ss == [scopes EXCEPT ![n] = f]
  <1>1. /\ phase = "codegen" /\ pc <= Len(ast) /\ At("return")
        /\ UNCHANGED <<arrayDecls, ir>> /\ \E ty : Yield(ty)
    BY DEF Return, At
  <1>2. scopes' = ss BY DEF Return
  <1>3. PICK S : scopes \in Seq(S) BY <1>1, FlowHere
  <1>4. scopes # <<>> /\ Scope = scopes[n] /\ IsScope(Scope)
    <2>1. "return" \in BlockPart BY DEF BlockPart
    <2> QED BY <1>1, <2>1, TopScope
  <1>5. n \in 1..Len(scopes) /\ n \in Nat BY <1>3, <1>4, LastLemma, LenPositive
  <1>7. /\ f.blk = scopes[n].blk /\ f.k = scopes[n].k /\ f.hdr = scopes[n].hdr
        /\ f.next = scopes[n].next
    BY <1>4 DEF IsScope
  <1> HIDE DEF f
  <1> DEFINE T == S \cup {f}
  <1>8. scopes \in Seq(T) /\ f \in T BY <1>3, SeqMonotonic
  <1> HIDE DEF T
  <1>9. /\ ss \in Seq(T) /\ Len(ss) = Len(scopes)
        /\ \A j \in 1..Len(scopes) : ss[j] = IF j = n THEN f ELSE scopes[j]
    BY <1>5, <1>8, ExceptSeq
  <1> HIDE DEF ss
  <1>10. \A j \in 1..Len(scopes) : /\ ss[j].blk = scopes[j].blk /\ ss[j].k = scopes[j].k
                                   /\ ss[j].hdr = scopes[j].hdr /\ ss[j].next = scopes[j].next
    BY <1>7, <1>9
  <1>11. PICK L, F : FlowAt(ir, L, F, arrayDecls, scopes) BY <1>1, FlowHere
  <1>12. Len(arrayDecls) \in Nat /\ Len(scopes) \in Nat BY <1>1, FlowHere
  <1>13. Outside(F, arrayDecls, ss)
    <2>1. Outside(F, arrayDecls, scopes) BY <1>11 DEF FlowAt
    <2>2. Len(ss) = Len(scopes) BY <1>9
    <2>3. \A i \in 1..Len(scopes) : \A m \in 1..Len(arrayDecls) :
             ss[i].blk = arrayDecls[m].blk <=> scopes[i].blk = arrayDecls[m].blk
      BY <1>10
    <2> QED BY <1>12, <2>1, <2>2, <2>3, OutsideKept
  <1>14. \A j \in 1..Len(scopes) : Pending(ss[j]) = Pending(scopes[j]) BY <1>10 DEF Pending
  <1>15. AllAwait(ir, L, F, arrayDecls, ss)
    <2>1. AllAwait(ir, L, F, arrayDecls, scopes) BY <1>11 DEF FlowAt
    <2>2. ASSUME NEW j \in 1..Len(ss)
          PROVE  Awaits(ir, L, Saves(arrayDecls, F[j]), ss[j])
      <3>1. j \in 1..Len(scopes) BY <1>9
      <3>2. Awaits(ir, L, Saves(arrayDecls, F[j]), scopes[j]) BY <2>1, <3>1 DEF AllAwait
      <3>3. Pending(ss[j]) = Pending(scopes[j]) BY <1>14, <3>1
      <3>4. /\ ss[j].blk = scopes[j].blk /\ ss[j].k = scopes[j].k
            /\ ss[j].hdr = scopes[j].hdr /\ ss[j].next = scopes[j].next
        BY <1>10, <3>1
      <3> QED BY <3>2, <3>3, <3>4 DEF Awaits, IsLoop
    <2>3. \A i, j \in 1..Len(ss) : i # j => Pending(ss[i]) \cap Pending(ss[j]) = {}
      BY <1>9, <1>14, <2>1 DEF AllAwait
    <2> QED BY <2>2, <2>3 DEF AllAwait
  <1>16. Flows(ir, arrayDecls, ss) BY <1>11, <1>13, <1>15 DEF FlowAt, Flows
  <1>17. Declared(arrayDecls, ss, pc + 1)
    <2>1. pc \in Nat /\ pc >= 1 /\ Declared(arrayDecls, scopes, pc) BY <1>1, FlowHere DEF FlowInv
    <2>2. Declared(arrayDecls, scopes, pc + 1) BY <2>1, DeclaredMore
    <2> QED BY <1>9, <1>10, <2>2 DEF Declared
  <1> QED BY <1>1, <1>2, <1>16, <1>17, FlowSteps

(* An array's save is pushed.                                              *)
LEMMA SavesMore ==
    ASSUME NEW A, NEW B, NEW a, Len(A) \in Nat, Len(B) = Len(A) + 1, B[Len(A) + 1] = a,
           \A n \in 1..Len(A) : B[n] = A[n]
    PROVE  Saves(B, Len(B)) = Append(Saves(A, Len(A)), a.save)
  <1> DEFINE k == Len(A)
             s == Saves(A, k)
             t == Saves(B, k + 1)
             X == {A[n].save : n \in 1..k}
             Y == {B[n].save : n \in 1..(k + 1)}
             Z == X \cup Y \cup {a.save}
  <1>1. s \in Seq(X) /\ Len(s) = k /\ \A n \in 1..k : s[n] = A[n].save BY SavesStack
  <1>2. k + 1 \in Nat OBVIOUS
  <1>3. t \in Seq(Y) /\ Len(t) = k + 1 /\ \A n \in 1..(k + 1) : t[n] = B[n].save
    BY <1>2, SavesStack
  <1> HIDE DEF s, t, X, Y
  <1>4. s \in Seq(Z) /\ t \in Seq(Z) /\ a.save \in Z BY <1>1, <1>3, SeqMonotonic
  <1> HIDE DEF Z
  <1>5. /\ Append(s, a.save) \in Seq(Z) /\ Len(Append(s, a.save)) = k + 1
        /\ \A n \in 1..k : Append(s, a.save)[n] = s[n]
        /\ Append(s, a.save)[k + 1] = a.save
    BY <1>1, <1>4, PushLemma
  <1>6. \A n \in 1..(k + 1) : n \in 1..k \/ n = k + 1 BY <1>2
  <1>7. \A n \in 1..Len(t) : t[n] = Append(s, a.save)[n] BY <1>1, <1>3, <1>5, <1>6
  <1>8. t = Append(s, a.save) BY <1>3, <1>4, <1>5, <1>7, SeqEqual
  <1> QED BY <1>8 DEF s, t

(* The instructions of an array declaration.                               *)
LEMMA SaveRuns ==
    ASSUME NEW i, NEW j, i.op = "save", j.op \notin {"save", "restore"},
           i.to = <<>>, j.to = <<>>, NEW s
    PROVE  /\ Sequence(<<i, j>>) /\ Exits(<<i, j>>) = {}
           /\ Runs(<<i, j>>, s, Append(s, i.arg))
  <1> DEFINE q == <<i, j>>
  <1>1. Len(q) = 2 /\ q[1] = i /\ q[2] = j /\ q \in Seq({i, j})
    OBVIOUS
  <1> HIDE DEF q
  <1>2. Sequence(q) BY <1>1 DEF Sequence
  <1>3. \A n \in 1..2 : n = 1 \/ n = 2 OBVIOUS
  <1>5. ToSet(i.to) = {} /\ ToSet(j.to) = {}
    <2>1. Len(<<>>) = 0 BY EmptySeq
    <2> QED BY <2>1 DEF ToSet
  <1>6. \A n \in 1..Len(q) : ToSet(q[n].to) = {} BY <1>1, <1>3, <1>5
  <1>7. Exits(q) = {} BY <1>6 DEF Exits
  <1>8. Runs(q, s, Append(s, i.arg))
    <2> DEFINE t == Append(s, i.arg)
               g == [n \in 0..2 |-> IF n = 0 THEN s ELSE t]
    <2>1. Effect(i, s) = t /\ Effect(j, t) = t BY DEF Effect
    <2>2. g[0] = s /\ g[1] = t /\ g[2] = t OBVIOUS
    <2> HIDE DEF g, t
    <2>3. g[1] = Effect(q[1], g[1 - 1]) /\ g[2] = Effect(q[2], g[2 - 1])
      BY <1>1, <2>1, <2>2
    <2>4. \A n \in 1..Len(q) : g[n] = Effect(q[n], g[n - 1]) BY <1>1, <1>3, <2>3
    <2>5. g[Len(q)] = t BY <1>1, <2>2
    <2>6. Runs(q, s, t) BY <2>2, <2>4, <2>5 DEF Runs
    <2> QED BY <2>6 DEF t
  <1> QED BY <1>2, <1>7, <1>8 DEF q

(* The array belongs to the innermost scope.                               *)
LEMMA FlowDeclares ==
    ASSUME NEW f, NEW L, NEW F, NEW A, NEW scs, FlowAt(f, L, F, A, scs),
           Len(A) \in Nat, Len(scs) \in Nat, Len(scs) >= 1,
           NEW B, NEW a, Len(B) = Len(A) + 1, B[Len(A) + 1] = a, \A n \in 1..Len(A) : B[n] = A[n],
           a.blk = scs[Len(scs)].blk, \A n \in 1..Len(B) : B[n].save # None,
           NEW is, Sequence(is), Exits(is) = {},
           Runs(is, Saves(A, Len(A)), Saves(B, Len(B)))
    PROVE  FlowAt(Emit(f, is), L, F, B, scs)
  <1> DEFINE s == Saves(A, Len(A))
             t == Saves(B, Len(B))
             g == Emit(f, is)
  <1>1. Labelled(f, L, s) /\ IsFunction(f) BY DEF FlowAt, Labelled
  <1>2. /\ Len(f.blocks) \in Nat /\ f.at \in Blocks(f) /\ Blocks(f) = 1..Len(f.blocks)
        /\ \A b \in Blocks(f) : Sequence(f.blocks[b])
    BY <1>1, FunctionLen
  <1>3. /\ IsFunction(g) /\ Len(g.blocks) = Len(f.blocks) /\ g.at = f.at
        /\ g.blocks[f.at] = f.blocks[f.at] \o is
        /\ \A c \in Blocks(f) : c # f.at => g.blocks[c] = f.blocks[c]
    BY <1>1, EmitBlock
  <1>4. t # Unbalanced
    <2>1. Len(B) \in Nat OBVIOUS
    <2> QED BY <2>1, SavesBracket
  <1>13. Runs(is, s, t) OBVIOUS
  <1> HIDE DEF s, t, g
  <1>5. Blocks(g) = Blocks(f) /\ Len(g.blocks) >= Len(f.blocks) BY <1>2, <1>3 DEF Blocks
  <1>6. Exits(g.blocks[g.at]) = {} /\ Runs(g.blocks[g.at], L[g.at], t)
    <2>1. Exits(f.blocks[f.at]) = {} /\ Runs(f.blocks[f.at], L[f.at], s) BY <1>1 DEF Labelled
    <2>2. Exits(f.blocks[f.at] \o is) = Exits(f.blocks[f.at]) \cup Exits(is)
      BY <1>2, NeutralJoin
    <2>4. Runs(f.blocks[f.at] \o is, L[f.at], t) BY <1>2, <1>13, <2>1, RunsJoin
    <2> QED BY <1>3, <2>1, <2>2, <2>4
  <1>7. \A b \in Blocks(g) : L[b] = IF b \in Blocks(f) THEN L[b] ELSE t BY <1>5
  <1>8. Labelled(g, L, t) BY <1>1, <1>3, <1>4, <1>5, <1>6, <1>7, <1>13, GrowLabels
  <1>9. Enlarged(f, L, g, L) BY <1>2, <1>3 DEF Enlarged
  <1>10. \A j \in 1..Len(scs) : g.at \notin Pending(scs[j])
    BY <1>3 DEF FlowAt, AllAwait, Awaits
  <1>14. Outside(F, B, scs) /\ \A j \in 1..Len(scs) : Saves(B, F[j]) = Saves(A, F[j])
    <2>1. Outside(F, A, scs) BY DEF FlowAt
    <2> QED BY <2>1, OutsideDeclare
  <1>11. AllAwait(g, L, F, B, scs) BY <1>9, <1>10, <1>14, AllAwaitKept DEF FlowAt
  <1>12. FlowAt(g, L, F, B, scs) BY <1>8, <1>11, <1>14 DEF FlowAt, t
  <1> QED BY <1>12 DEF g

(* An array is declared in the innermost scope.                            *)
LEMMA ArrayDeclFlows ==
    ASSUME IndInv, ArrayInv, FlowInv, ArrayDecl
    PROVE  FlowInv'
  <1> DEFINE a == [blk |-> Scope.blk, save |-> DeclAt(pc)]
             B == Append(arrayDecls, a)
             i == StackSave(DeclAt(pc))
             j == Made("array", DeclAt(pc), node.kids, <<>>)
  <1>1. /\ At("arraydecl") /\ phase = "codegen" /\ pc <= Len(ast)
        /\ UNCHANGED scopes /\ Yield("none") /\ arrayDecls' = B
        /\ ir' = Emit(ir, <<i, j>>)
    BY DEF ArrayDecl, At
  <1>2. PICK S, U : scopes \in Seq(S) /\ arrayDecls \in Seq(U) BY <1>1, FlowHere
  <1>3. scopes # <<>> /\ Len(scopes) >= 1 /\ Scope = scopes[Len(scopes)]
    <2>1. "arraydecl" \in BlockPart BY DEF BlockPart
    <2> QED BY <1>1, <2>1, TopScope
  <1>4. pc \in Nat /\ pc >= 1 BY <1>1, FlowHere
  <1>5. a.blk = scopes[Len(scopes)].blk /\ a.save = DeclAt(pc) BY <1>3
  <1>6. a.save # None BY <1>4 DEF DeclAt, None
  <1>7. i.op = "save" /\ i.to = <<>> /\ i.arg = DeclAt(pc) BY DEF StackSave, Instr
  <1>8. j.op \notin {"save", "restore"} /\ j.to = <<>> BY DEF Made, Instr
  <1> HIDE DEF a, i, j
  <1>9. arrayDecls \in Seq(U \cup {a}) /\ a \in U \cup {a} BY <1>2, SeqMonotonic
  <1>10. /\ Len(arrayDecls) \in Nat
         /\ Len(B) = Len(arrayDecls) + 1 /\ B[Len(arrayDecls) + 1] = a
         /\ \A n \in 1..Len(arrayDecls) : B[n] = arrayDecls[n]
    BY <1>9, PushLemma
  <1> HIDE DEF B
  <1>11. PICK L, F : FlowAt(ir, L, F, arrayDecls, scopes) BY <1>1, FlowHere
  <1>12. /\ Len(scopes) \in Nat
         /\ \A n \in 1..Len(arrayDecls) : arrayDecls[n].save # None
    BY <1>1, FlowHere
  <1>13. \A n \in 1..Len(B) : n \in 1..Len(arrayDecls) \/ n = Len(arrayDecls) + 1 BY <1>10
  <1>14. \A n \in 1..Len(B) : B[n].save # None BY <1>6, <1>10, <1>12, <1>13
  <1>15. PICK is : is = <<i, j>> OBVIOUS
  <1>16. /\ Sequence(is) /\ Exits(is) = {}
         /\ Runs(is, Saves(arrayDecls, Len(arrayDecls)),
                 Append(Saves(arrayDecls, Len(arrayDecls)), i.arg))
    BY <1>7, <1>8, <1>15, SaveRuns
  <1>17. Saves(B, Len(B)) = Append(Saves(arrayDecls, Len(arrayDecls)), a.save)
    BY <1>10, SavesMore
  <1>18. Runs(is, Saves(arrayDecls, Len(arrayDecls)), Saves(B, Len(B)))
    BY <1>5, <1>7, <1>16, <1>17
  <1>19. a.blk = scopes[Len(scopes)].blk BY <1>5
  <1>20. Sequence(is) /\ Exits(is) = {} BY <1>16
  <1>21. FlowAt(Emit(ir, is), L, F, B, scopes)
    BY <1>3, <1>10, <1>11, <1>12, <1>14, <1>18, <1>19, <1>20, FlowDeclares
  <1>22. Flows(ir', B, scopes) BY <1>1, <1>15, <1>21 DEF Flows
  <1>23. Declared(B, scopes, pc + 1)
    <2>1. Declared(arrayDecls, scopes, pc) BY DEF FlowInv
    <2>2. Declared(arrayDecls, scopes, pc + 1) BY <1>4, <2>1, DeclaredMore
    <2>3. Len(scopes) \in 1..Len(scopes) BY <1>3, <1>12
    <2>4. a.blk \in 0..((pc + 1) - 1) BY <1>19, <2>2, <2>3 DEF Declared
    <2>5. \A n \in 1..Len(B) : B[n].blk \in 0..((pc + 1) - 1)
      BY <1>10, <1>13, <2>2, <2>4 DEF Declared
    <2> QED BY <1>14, <2>2, <2>5 DEF Declared
  <1> QED BY <1>1, <1>22, <1>23, FlowSteps

-----------------------------------------------------------------------------
(* A function begins with the allocas of its parameters, and nothing is    *)
(* saved.                                                                  *)
LEMMA NeutralOver ==
    ASSUME NEW I, NEW is \in Seq(I),
           \A i \in I : i.to = <<>> /\ i.op \notin {"save", "restore"}
    PROVE  Sequence(is) /\ Neutral(is) /\ Exits(is) = {}
  <1>1. \A n \in 1..Len(is) : is[n] \in I BY ElementOfSeq
  <1>2. Sequence(is) BY DEF Sequence
  <1>3. Neutral(is) BY <1>1 DEF Neutral
  <1>4. \A n \in 1..Len(is) : ToSet(is[n].to) = {}
    <2>1. Len(<<>>) = 0 BY EmptySeq
    <2>2. ToSet(<<>>) = {} BY <2>1 DEF ToSet
    <2> QED BY <1>1, <2>2
  <1>5. Exits(is) = {} BY <1>4 DEF Exits
  <1> QED BY <1>2, <1>3, <1>5

(* The allocas of the parameters, and what is stored in them.              *)
LEMMA AllocasNeutral ==
    ASSUME NEW ps, Len(ps) \in Nat
    PROVE  Sequence(Allocas(ps)) /\ Neutral(Allocas(ps)) /\ Exits(Allocas(ps)) = {}
  <1> DEFINE A(j) == Alloca(ParamDecl(pc, j))
             C(j) == Instr("clear", 0, ParamDecl(pc, j),
                           <<Bytes(CreateLLVMType(ps[j].type))>>, <<>>)
             I == {A(j) : j \in 1..Len(ps)} \cup {C(j) : j \in 1..Len(ps)}
             P(j) == ClearedAlloca(ParamDecl(pc, j), CreateLLVMType(ps[j].type))
             q == [j \in 1..Len(ps) |-> P(j)]
  <1>1. \A j : A(j).to = <<>> /\ A(j).op = "alloca" BY DEF Alloca, Instr
  <1>2. \A j : C(j).to = <<>> /\ C(j).op = "clear" BY DEF Instr
  <1>3. \A j : P(j) = <<A(j)>> \/ P(j) = <<A(j), C(j)>> BY DEF ClearedAlloca
  <1>4. Allocas(ps) = FlattenSeq(q) BY DEF Allocas
  <1> HIDE DEF A, C, P
  <1>5. \A i \in I : i.to = <<>> /\ i.op \notin {"save", "restore"} BY <1>1, <1>2
  <1>6. ASSUME NEW j \in 1..Len(ps) PROVE P(j) \in Seq(I)
    <2>1. A(j) \in I /\ C(j) \in I OBVIOUS
    <2>2. PICK x, y : x = A(j) /\ y = C(j) OBVIOUS
    <2> HIDE DEF I
    <2>3. x \in I /\ y \in I BY <2>1, <2>2
    <2>4. <<x>> \in Seq(I) /\ <<x, y>> \in Seq(I) BY <2>3
    <2> QED BY <1>3, <2>2, <2>4
  <1> HIDE DEF I
  <1>7. \A j \in 1..Len(ps) : P(j) \in Seq(I) BY <1>6
  <1>8. q \in Seq(Seq(I)) BY <1>7, IsASeq
  <1> HIDE DEF q
  <1>9. FlattenSeq(q) \in Seq(I) BY <1>8, Flattened
  <1> QED BY <1>4, <1>5, <1>9, NeutralOver

LEMMA ArgumentsNeutral ==
    ASSUME NEW n \in Nat, NEW is,
           is = [j \in 1..n |-> Made("argument", ParamDecl(pc, j), <<j>>, <<>>)]
    PROVE  Sequence(is) /\ Neutral(is) /\ Exits(is) = {}
  <1> DEFINE A(j) == Made("argument", ParamDecl(pc, j), <<j>>, <<>>)
             I == {A(j) : j \in 1..n}
  <1>1. \A j : A(j).to = <<>> /\ A(j).op = "argument" BY DEF Made, Instr
  <1>2. is = [j \in 1..n |-> A(j)] OBVIOUS
  <1> HIDE DEF A
  <1>3. \A j \in 1..n : A(j) \in I OBVIOUS
  <1>4. \A i \in I : i.to = <<>> /\ i.op \notin {"save", "restore"} BY <1>1
  <1> HIDE DEF I
  <1>5. is \in Seq(I) BY <1>2, <1>3, IsASeq
  <1> QED BY <1>4, <1>5, NeutralOver

(* A function without an instruction.                                      *)
LEMMA NewFlows ==
    ASSUME NEW c, c.k = "body", c.hdr = 0, c.next = 0, c.blk # 0,
           NEW scs, Len(scs) = 0 \/ (Len(scs) = 1 /\ scs[1] = c)
    PROVE  \E L, F : FlowAt(NewFunction, L, F, <<>>, scs)
  <1> DEFINE L == [b \in 1..1 |-> <<>>]
             F == [j \in 1..1 |-> 0]
             f == NewFunction
  <1>1. /\ f.blocks = << <<>> >> /\ f.at = 1 /\ f = [blocks |-> f.blocks, at |-> f.at]
    BY DEF NewFunction
  <1>2. PICK e : e = <<>> /\ Sequence(e) /\ Len(e) = 0 /\ Exits(e) = {} /\ Neutral(e)
    BY EmptySequence
  <1>3. f.blocks = <<e>> /\ <<e>> \in Seq({e}) /\ Len(<<e>>) = 1 /\ <<e>>[1] = e BY <1>1, <1>2
  <1>4. L[1] = e /\ F[1] = 0 BY <1>2
  <1> HIDE DEF f, L, F
  <1>5. Blocks(f) = 1..1 /\ f.blocks[1] = e BY <1>3 DEF Blocks
  <1>6. \A n \in 1..1 : n = 1 OBVIOUS
  <1>7. IsFunction(f)
    <2>1. Sequence(f.blocks) BY <1>3 DEF Sequence
    <2> QED BY <1>1, <1>2, <1>5, <1>6, <2>1 DEF IsFunction
  <1>8. PICK s : s = Saves(<<>>, Len(<<>>)) OBVIOUS
  <1>9. s = e
    <2>1. 0 \in Nat /\ Len(<<>>) = 0 BY EmptySeq
    <2>2. s \in Seq({<<>>[n].save : n \in 1..0}) /\ Len(s) = 0 BY <1>8, <2>1, SavesStack
    <2> QED BY <1>2, <2>2, EmptySeq
  <1>10. e # Unbalanced
    <2>1. Len(<<None>>) = 1 OBVIOUS
    <2> QED BY <1>2, <2>1 DEF Unbalanced
  <1>11. Runs(e, e, e) BY <1>2, RunsNeutral
  <1>12. Labelled(f, L, s)
    <2>1. L[1] = <<>> /\ \A b \in Blocks(f) : L[b] # Unbalanced
      BY <1>2, <1>4, <1>5, <1>6, <1>10
    <2>2. \A b \in Blocks(f) : \A d \in Exits(f.blocks[b]) : FALSE BY <1>2, <1>5, <1>6
    <2>3. Exits(f.blocks[f.at]) = {} /\ Runs(f.blocks[f.at], L[f.at], s)
      <3>1. f.at = 1 BY <1>1
      <3> QED BY <1>2, <1>4, <1>5, <1>9, <1>11, <3>1
    <2> QED BY <1>7, <2>1, <2>2, <2>3 DEF Labelled
  <1>13. \A j \in 1..Len(scs) : j = 1 /\ scs[j] = c
    <2>1. CASE Len(scs) = 0
      <3>1. \A j \in 1..0 : FALSE OBVIOUS
      <3> QED BY <2>1, <3>1
    <2>2. CASE Len(scs) = 1 /\ scs[1] = c BY <1>6, <2>2
    <2> QED BY <2>1, <2>2
  <1>14. Outside(F, <<>>, scs)
    <2>1. Len(<<>>) = 0 BY EmptySeq
    <2>2. ASSUME NEW j \in 1..Len(scs)
          PROVE  /\ F[j] \in 0..Len(<<>>)
                 /\ \A n \in 1..F[j] : FALSE
                 /\ \A n \in (F[j] + 1)..Len(<<>>) : FALSE
      <3>1. F[j] = 0 BY <1>4, <1>13
      <3> QED BY <2>1, <3>1
    <2> QED BY <2>2 DEF Outside
  <1>15. AllAwait(f, L, F, <<>>, scs)
    <2>1. Pending(c) = {} BY DEF Pending
    <2>2. \A t : Awaits(f, L, t, c) BY <2>1 DEF Awaits, IsLoop, BlockKinds
    <2>3. \A j \in 1..Len(scs) : Awaits(f, L, Saves(<<>>, F[j]), scs[j]) BY <1>13, <2>2
    <2>4. \A i, j \in 1..Len(scs) : i # j => Pending(scs[i]) \cap Pending(scs[j]) = {}
      BY <1>13
    <2> QED BY <2>3, <2>4 DEF AllAwait
  <1>16. FlowAt(f, L, F, <<>>, scs) BY <1>8, <1>12, <1>14, <1>15 DEF FlowAt
  <1> QED BY <1>16 DEF f

(* It begins with its parameters.                                          *)
LEMMA BeginFunctionFlows ==
    ASSUME IndInv, ArrayInv, FlowInv, BeginFunction
    PROVE  FlowInv'
  <1> DEFINE c == [blk |-> pc, k |-> "body", ret |-> 0, hdr |-> 0, next |-> 0]
             i == node.kids[1]
             args(ps) == [j \in 1..Len(ps) |-> Made("argument", ParamDecl(pc, j), <<j>>, <<>>)]
  <1>1. PICK ps : ps = fns[i].params OBVIOUS
  <1>2. /\ At("fn") /\ scopes' = <<c>> /\ Yield("none") /\ UNCHANGED arrayDecls
        /\ ir' = Emit(EmitInEntry(NewFunction, Allocas(ps)), args(ps))
    BY <1>1, Zenon DEF BeginFunction
  <1>3. phase = "codegen" /\ pc <= Len(ast) /\ node.k = "fn" BY <1>2 DEF At
  <1>4. pc \in Nat /\ pc >= 1 /\ Fresh(pc) BY <1>3, NodeHere, FlowHere
  <1>5. Len(ps) \in Nat
    <2>1. i \in 1..Len(fns) BY <1>3, <1>4 DEF Fresh, node
    <2>2. fns \in Seq(Prototype) BY ProtosAssumption DEF IndInv, Good, TcGood, TcTyped
    <2>3. fns[i] \in Prototype BY <2>1, <2>2, ElementOfSeq
    <2>4. ps \in Seq(FnParam) BY <1>1, <2>3 DEF Prototype
    <2> QED BY <2>4, LenProperties
  <1>6. c.k = "body" /\ c.hdr = 0 /\ c.next = 0 /\ c.blk = pc OBVIOUS
  <1> HIDE DEF c
  <1>7. PICK scs : scs = <<c>> OBVIOUS
  <1>8. Len(scs) = 1 /\ scs[1] = c /\ scopes' = scs BY <1>2, <1>7
  <1>9. c.blk # 0 BY <1>4, <1>6
  <1>10. PICK L, F : FlowAt(NewFunction, L, F, <<>>, scs) BY <1>6, <1>8, <1>9, NewFlows
  <1>11. arrayDecls' = <<>> BY <1>2, NothingOpen
  <1>12. PICK al, as : al = Allocas(ps) /\ as = args(ps) OBVIOUS
  <1>13. Sequence(al) /\ Neutral(al) /\ Exits(al) = {} BY <1>5, <1>12, AllocasNeutral
  <1>14. Sequence(as) /\ Neutral(as) /\ Exits(as) = {} BY <1>5, <1>12, ArgumentsNeutral
  <1>15. PICK f, g : f = NewFunction /\ g = EmitInEntry(f, al) OBVIOUS
  <1>16. FlowAt(f, L, F, <<>>, scs) BY <1>10, <1>15
  <1>17. FlowAt(g, L, F, <<>>, scs) BY <1>13, <1>15, <1>16, FlowEntry
  <1>18. ir' = Emit(g, as) BY <1>2, <1>12, <1>15
  <1> HIDE DEF args
  <1>19. Len(<<>>) \in Nat /\ \A n \in 1..Len(<<>>) : FALSE BY EmptySeq
  <1>20. PICK A : A = <<>> OBVIOUS
  <1>21. Len(A) \in Nat /\ \A n \in 1..Len(A) : A[n].save # None BY <1>19, <1>20
  <1>22. FlowAt(g, L, F, A, scs) BY <1>17, <1>20
  <1>23. FlowAt(Emit(g, as), L, F, A, scs) BY <1>14, <1>21, <1>22, FlowEmit
  <1>24. Flows(ir', arrayDecls', scopes') BY <1>8, <1>11, <1>18, <1>20, <1>23 DEF Flows
  <1>25. Declared(arrayDecls', scopes', pc + 1)
    <2>1. \A j \in 1..1 : j = 1 OBVIOUS
    <2>2. \A j \in 1..Len(scs) : scs[j].blk = pc BY <1>6, <1>8, <2>1
    <2>3. pc \in 0..((pc + 1) - 1) BY <1>4
    <2>4. Declared(A, scs, pc + 1) BY <1>19, <1>20, <2>2, <2>3 DEF Declared
    <2> QED BY <1>8, <1>11, <1>20, <2>4
  <1> QED BY <1>2, <1>3, <1>24, <1>25, FlowSteps

-----------------------------------------------------------------------------
(* Every step.                                                             *)
LEMMA ProgramFlows ==
    ASSUME IndInv, ArrayInv, FlowInv, CodegenProgram
    PROVE  FlowInv'
  <1>1. CASE CreateFunctions \/ EndProgram
    <2>1. \E how : Halt(how) BY <1>1 DEF CreateFunctions, EndProgram
    <2> QED BY <2>1, HaltFlows
  <1>2. CASE PassOver BY <1>2, FlowPasses DEF PassOver
  <1> QED BY <1>1, <1>2, BeginFunctionFlows, EndFunctionFlows DEF CodegenProgram

(* Every step of the code generator.                                       *)
LEMMA CodegenFlows ==
    ASSUME IndInv, ArrayInv, FlowInv,
           CodegenProgram \/ CodegenBlock \/ CodegenStmt \/ CodegenExpr
    PROVE  FlowInv'
  <1>1. CASE CodegenBlock
    BY <1>1, EnterBareFlows, LeaveBareFlows, IfFlows, ElseFlows, EndIfFlows, WhileFlows,
       WhileBodyFlows, ForIdentFlows, ForFlows, EndLoopFlows DEF CodegenBlock
  <1>2. CASE CodegenStmt
    BY <1>2, VarDeclFlows, ArrayDeclFlows, AbortFlows, ReturnFlows, StoreFlows, ElemAddrFlows
    DEF CodegenStmt
  <1> QED BY <1>1, <1>2, ProgramFlows, ExprFlows, ArrayExprFlows

(* And before it.                                                          *)
LEMMA InitFlows ==
    ASSUME Init
    PROVE  FlowInv
  <1>1. scopes = <<>> /\ arrayDecls = <<>> /\ ir = NewFunction BY DEF Init, CodegenInit
  <1> DEFINE c == [blk |-> 1, k |-> "body", ret |-> 0, hdr |-> 0, next |-> 0]
  <1>2. c.k = "body" /\ c.hdr = 0 /\ c.next = 0 /\ c.blk # 0 OBVIOUS
  <1> HIDE DEF c
  <1>3. Len(scopes) = 0 /\ Len(arrayDecls) = 0 BY <1>1, EmptySeq
  <1>4. \E L, F : FlowAt(NewFunction, L, F, <<>>, scopes) BY <1>2, <1>3, NewFlows
  <1>5. Flows(ir, arrayDecls, scopes) BY <1>1, <1>4 DEF Flows
  <1>6. Declared(arrayDecls, scopes, pc) BY <1>3 DEF Declared
  <1> QED BY <1>5, <1>6 DEF FlowInv

LEMMA NextFlows ==
    ASSUME IndInv, ArrayInv, FlowInv, [Next]_vars
    PROVE  FlowInv'
  <1>1. CASE UNCHANGED cgVars BY <1>1, FlowStays DEF cgVars
  <1>2. CASE UNCHANGED vars BY <1>1, <1>2 DEF vars
  <1> QED BY <1>1, <1>2, CodegenFlows DEF Next, Ended

LEMMA FlowHolds == Spec => [](ArrayInv /\ FlowInv)
  <1>1. Init => ArrayInv /\ FlowInv BY InitArrays, InitFlows
  <1>2. IndInv /\ IndInv' /\ ArrayInv /\ FlowInv /\ [Next]_vars => (ArrayInv /\ FlowInv)'
    <2> SUFFICES ASSUME IndInv, IndInv', ArrayInv, FlowInv, [Next]_vars
                 PROVE  (ArrayInv /\ FlowInv)'
      OBVIOUS
    <2>1. PICK L, F : FlowAt(ir, L, F, arrayDecls, scopes) BY DEF FlowInv, Flows
    <2>2. IsFunction(ir) BY <2>1 DEF FlowAt, Labelled
    <2>3. Len(ir.blocks) \in Nat BY <2>2, FunctionLen
    <2> QED BY <2>3, NextArrays, NextFlows
  <1>3. Spec => []IndInv BY Inductive
  <1> QED BY <1>1, <1>2, <1>3, PTL DEF Spec

-----------------------------------------------------------------------------
(* The loop that releases a block's arrays finds all of them and no other: *)
(* the arrays still to be released are those of the scopes open, the inner *)
(* scopes' above the outer ones'.                                          *)
THEOREM ArraysReleased == Spec => []ArraysOwned
  <1>1. ArrayInv => ArraysOwned
    <2> SUFFICES ASSUME ArrayInv PROVE ArraysOwned OBVIOUS
    <2>1. PICK o : Owners(o, arrayDecls, scopes) BY DEF ArrayInv, OwnedInv, Owned
    <2>2. Len(scopes) \in Nat /\ Len(arrayDecls) \in Nat BY ScopesLength DEF ArrayInv
    <2>3. ASSUME NEW n \in 1..Len(arrayDecls)
          PROVE  \E j \in 1..Len(scopes) :
                    /\ scopes[j].blk = arrayDecls[n].blk
                    /\ \A m \in 1..(n - 1) : \E i \in 1..j : scopes[i].blk = arrayDecls[m].blk
      <3>1. /\ o[n] \in 1..Len(scopes) /\ scopes[o[n]].blk = arrayDecls[n].blk
            /\ \A m \in 1..n : o[m] <= o[n]
        BY <2>1 DEF Owners
      <3>2. ASSUME NEW m \in 1..(n - 1)
            PROVE  o[m] \in 1..o[n] /\ scopes[o[m]].blk = arrayDecls[m].blk
        <4>1. m \in 1..Len(arrayDecls) /\ m \in 1..n BY <2>2
        <4>2. o[m] \in 1..Len(scopes) /\ scopes[o[m]].blk = arrayDecls[m].blk
          BY <2>1, <4>1 DEF Owners
        <4>3. o[m] <= o[n] BY <3>1, <4>1
        <4> QED BY <2>2, <3>1, <4>2, <4>3
      <3> QED BY <3>1, <3>2
    <2>4. scopes = <<>> => arrayDecls = <<>>
      <3>1. scopes = <<>> => Len(scopes) = 0 BY EmptySeq
      <3> QED BY <3>1, OwnedNone DEF ArrayInv, OwnedInv, ScopesTyped
    <2> QED BY <2>3, <2>4 DEF ArraysOwned
  <1> QED BY <1>1, FlowHolds, PTL

(* Wherever the branches of a verified function lead, the saves of the     *)
(* stack have been restored as often as made, in reverse: a block is       *)
(* entered with the same saves outstanding on every path, and no restore   *)
(* is met by another save than its own.                                    *)
THEOREM SavesPaired == Spec => []SavesBalanced
  <1>1. FlowInv => SavesBalanced
    <2> SUFFICES ASSUME FlowInv PROVE SavesBalanced OBVIOUS
    <2>1. PICK L, F : FlowAt(ir, L, F, arrayDecls, scopes) BY DEF FlowInv, Flows
    <2>2. PICK s : Labelled(ir, L, s) BY <2>1 DEF FlowAt
    <2>3. \A e \in Entries(ir) : e[1] \in Blocks(ir) /\ e[2] = L[e[1]]
      BY <2>2, EntriesLabelled
    <2>4. \A b \in Blocks(ir) : L[b] # Unbalanced BY <2>2 DEF Labelled
    <2>5. \A e \in Entries(ir) : e[2] # Unbalanced BY <2>3, <2>4
    <2>6. \A d, e \in Entries(ir) : d[1] = e[1] => d[2] = e[2] BY <2>3
    <2> QED BY <2>5, <2>6 DEF SavesBalanced
  <1> QED BY <1>1, FlowHolds, PTL
=============================================================================
