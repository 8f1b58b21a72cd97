---------------------------- MODULE OpenBlocks ----------------------------
(***************************************************************************)
(* Why ArraysOwned holds: the blocks that the tree has open at a node, as  *)
(* the typechecker has visited them, are those on the code generator's     *)
(* stack of scopes, as far as it reaches; and an array that is still to be *)
(* released belongs to one of these.                                       *)
(***************************************************************************)
EXTENDS Scoping

(* A block open, by what its end will do, and in which state: a "fork" is  *)
(* the true part of an if with an else, an "arm" the last part of an if; a *)
(* while whose condition is visited is a "header", a block that a return   *)
(* has ended is "returned".                                                *)
Forms       == {"plain", "fork", "arm", "loop"}
BlockStates == [form : Forms, state : {"open", "header", "returned"}]

Block(form, state) == [form |-> form, state |-> state]

FormOf(k, op) == CASE k \in {"body", "bare"} -> "plain"
                   [] k = "then"             -> IF op = "else" THEN "fork" ELSE "arm"
                   [] k = "else"             -> "arm"
                   [] OTHER                  -> "loop"

(* What a node opens, and what it does to the blocks open before it,       *)
(* outermost first.                                                        *)
FormAt(n) == CASE n.k \in {"fn", "bare"} -> "plain"
               [] n.k = "if"             -> IF n.op = "else" THEN "fork" ELSE "arm"
               [] n.k = "else"           -> "arm"
               [] OTHER                  -> "loop"

Instead(s, state) == Append(Front(s), state)

Through(s, n) ==
    CASE n.k \in {"fn", "bare", "if", "for"} -> Append(s, Block(FormAt(n), "open"))
      [] n.k = "while"                       -> Append(s, Block("loop", "header"))
      [] n.k \in {"whilebody", "else"}       -> Instead(s, Block(FormAt(n), "open"))
      [] n.k = "return"                      -> Instead(s, Block(Last(s).form, "returned"))
      [] n.k = "end"                         -> Front(s)
      [] OTHER                               -> s

Unreturned(s) == \A j \in 1..Len(s) : s[j].state # "returned"

(* The blocks a node can find open, and when the code generator reaches it.*)
Ends      == {"else", "end"}
BlockPart == Ends \cup {"bare", "if", "while", "whilebody", "for", "return", "arraydecl"}

Placed(s, n) ==
    /\ n.k = "fn" => s = <<>> /\ n.live
    /\ n.k \in BlockPart => s # <<>> /\ (s[Len(s)].state = "header" <=> n.k = "whilebody")
    /\ n.k = "else" => s[Len(s)].form = "fork"
    /\ n.k = "whilebody" => s[Len(s)].form = "loop"
    /\ n.k = "end" => s[Len(s)].form = FormOf(n.op, "none")
    /\ n.k = "end" /\ n.op = "body" => Len(s) = 1
    /\ n.k \in BlockPart => (n.live <=> Unreturned(IF n.k \in Ends THEN Front(s) ELSE s))

(* An operation on two operands is one that there is.                      *)
Operates(n) == n.k = "binop" => isBinOp(n.op)

(* The blocks open before the i-th node, and now.                          *)
Opens(f)   == IsBlock(f) \/ f.k = "whilecond"
StateOf(f) == Block(FormOf(f.k, f.op), IF f.k = "whilecond" THEN "header"
                                       ELSE IF f.ret THEN "returned" ELSE "open")

Matches(s, vs) ==
    /\ s \in Seq(BlockStates) /\ Len(s) <= Len(vs)
    /\ \A j \in 1..Len(vs) : Operates(vs[j]) /\ (Opens(vs[j]) <=> j <= Len(s))
    /\ \A j \in 1..Len(s) : s[j] = StateOf(vs[j])

History(h) ==
    /\ h[1] = <<>>
    /\ \A i \in 1..Len(ast) : /\ h[i] \in Seq(BlockStates)
                              /\ Placed(h[i], ast[i]) /\ Operates(ast[i])
                              /\ h[i + 1] = Through(h[i], ast[i])
    /\ Matches(h[Len(ast) + 1], visiting)

-----------------------------------------------------------------------------
(* The code generator's scopes are the blocks open at the node, up to the  *)
(* first that a return has ended; that of a header is no block's yet.      *)
FormOfScope(f) == FormOf(f.k, IF f.hdr # f.next THEN "else" ELSE "none")

Scoped(s, scs) ==
    /\ Len(scs) <= Len(s)
    /\ \A j \in 1..Len(scs) : /\ scs[j].blk = 0 <=> s[j].state = "header"
                              /\ FormOfScope(scs[j]) = s[j].form
                              /\ j < Len(scs) => s[j].state # "returned"
    /\ Len(scs) < Len(s) => Len(scs) > 0 /\ s[Len(scs)].state = "returned"

NestingInv == \E h : History(h) /\ Scoped(h[pc], scopes)

(* Every array that is to be released has a scope it was declared in, an   *)
(* older one's being no deeper.                                            *)
Owners(o, arrays, scs) ==
    /\ \A n \in 1..Len(arrays) :
          /\ o[n] \in 1..Len(scs)
          /\ scs[o[n]].blk = arrays[n].blk
          /\ \A m \in 1..n : o[m] <= o[n]

Owned(arrays, scs) == \E o : Owners(o, arrays, scs)

OwnedInv ==
    /\ \A n \in 1..Len(arrayDecls) : arrayDecls[n].blk # 0
    /\ Owned(arrayDecls, scopes)
    /\ phase \in {"declare", "typecheck"} => scopes = <<>> /\ arrayDecls = <<>>
=============================================================================
