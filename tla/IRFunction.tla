----------------------------- MODULE IRFunction -----------------------------
(***************************************************************************)
(* An LLVM function under construction, as codegenvisitor.cpp drives it:   *)
(* the basic blocks and the block the IRBuilder inserts into.  LLVM itself *)
(* is a library; this is what its IRBuilder and verifyFunction do with the *)
(* instructions the visitor creates.  Address arithmetic is part of the    *)
(* load or store it is for, and a comparison made for a branch part of the *)
(* branch.                                                                 *)
(***************************************************************************)
EXTENDS Naturals, SequencesExt

(* An instruction: what it is, the node in whose visit it was made (which  *)
(* names its value: node->llvmVal), the declaration or the save it refers  *)
(* to, the values it takes, and the blocks it may go to.                   *)
Instr(op, node, arg, vals, to) ==
    [op |-> op, node |-> node, arg |-> arg, vals |-> vals, to |-> to]

None            == <<0, 0>>
Alloca(d)       == Instr("alloca", 0, d, <<>>, <<>>)
StackSave(d)    == Instr("save", 0, d, <<>>, <<>>)
StackRestore(d) == Instr("restore", 0, d, <<>>, <<>>)
Br(b)           == Instr("br", 0, None, <<>>, <<b>>)
Ret(i, vals)    == Instr("ret", i, None, vals, <<>>)
Trap(i)         == <<Instr("abort", i, None, <<>>, <<>>),
                     Instr("unreachable", i, None, <<>>, <<>>)>>

IsTerminator(i) == i.to # <<>> \/ i.op \in {"ret", "unreachable"}
Allocates(i, d) == i.op \in {"alloca", "array"} /\ i.arg = d
Addresses(i)    == i.arg # None /\ i.op \notin {"alloca", "array", "save", "restore"}

(* The function [blocks, at]; block 1 is the entry block.                  *)
NewFunction == [blocks |-> << <<>> >>, at |-> 1]

(* Mutated form of EmitInEntry: at the end of the entry block.             *)
EmitAtEntryEnd(ir, is) == [ir EXCEPT !.blocks[1] = @ \o is]

Emit(ir, is)       == [ir EXCEPT !.blocks[ir.at] = @ \o is]
EmitInEntry(ir, is) == [ir EXCEPT !.blocks[1] = is \o @]
AddBlocks(ir, n)   == [ir EXCEPT !.blocks = @ \o [b \in 1..n |-> <<>>]]
SetInsertPoint(ir, b) == [ir EXCEPT !.at = b]

(* BasicBlock::getTerminator: the last instruction, if it is a terminator. *)
Terminated(ir) ==
    /\ ir.blocks[ir.at] # <<>>
    /\ IsTerminator(Last(ir.blocks[ir.at]))

-----------------------------------------------------------------------------
(* The verifier.                                                           *)

Blocks(ir) == 1..Len(ir.blocks)

WellTerminated(ir) ==
    \A b \in Blocks(ir) :
        LET is == ir.blocks[b] IN
        /\ is # <<>>
        /\ \A n \in 1..Len(is) : IsTerminator(is[n]) <=> n = Len(is)

Succs(ir, b) == UNION {ToSet(ir.blocks[b][n].to) : n \in 1..Len(ir.blocks[b])}

(* The blocks reached from the entry without passing through `avoid'.      *)
ReachedAvoiding(ir, avoid) ==
    LET R[n \in 0..Len(ir.blocks)] ==
          IF n = 0 THEN {1} \ {avoid}
          ELSE LET r == R[n-1]
               IN  r \cup (UNION {Succs(ir, b) : b \in r} \ {avoid})
    IN  R[Len(ir.blocks)]

Reached(ir) == ReachedAvoiding(ir, 0)

(* Every use of an alloca that can be reached is dominated by it.          *)
UsesDominated(ir) ==
    \A b \in Reached(ir) : \A n \in 1..Len(ir.blocks[b]) :
        Addresses(ir.blocks[b][n]) =>
            \E c \in Blocks(ir) : \E m \in 1..Len(ir.blocks[c]) :
                /\ Allocates(ir.blocks[c][m], ir.blocks[b][n].arg)
                /\ IF c = b THEN m < n ELSE b \notin ReachedAvoiding(ir, c)

Verified(ir) == WellTerminated(ir) /\ UsesDominated(ir)

-----------------------------------------------------------------------------
(* The saves not yet restored after running `is' on a stack of them; a     *)
(* restore that is not of the innermost one leaves the mark Unbalanced.    *)
(* The save made for an array carries the array's declaration, so an array *)
(* is on the stack as long as its save is not restored.                    *)
Unbalanced == <<None>>

SavesAfter(is, saves) ==
    LET S[n \in 0..Len(is)] ==
          IF n = 0 THEN saves
          ELSE LET s == S[n-1] IN
               CASE is[n].op = "save"    -> Append(s, is[n].arg)
                 [] is[n].op = "restore" -> IF s # <<>> /\ Last(s) = is[n].arg
                                            THEN Front(s) ELSE Unbalanced
                 [] OTHER                -> s
    IN  S[Len(is)]

(* The pairs of a block and a stack of saves with which it can be entered, *)
(* found by following at most two branches more than there are blocks.     *)
Entries(ir) ==
    LET E[n \in 0..(Len(ir.blocks) + 2)] ==
          IF n = 0 THEN {<<1, <<>> >>}
          ELSE LET es == E[n-1]
               IN  es \cup UNION {{<<c, SavesAfter(ir.blocks[e[1]], e[2])>> :
                                     c \in Succs(ir, e[1])} : e \in es}
    IN  E[Len(ir.blocks) + 2]

IsArray(ir, d) == \E b \in Blocks(ir) : \E n \in 1..Len(ir.blocks[b]) :
                     ir.blocks[b][n].op = "array" /\ ir.blocks[b][n].arg = d

(* A use, in a block entered with the saves, of an array already released. *)
UsesReleased(ir, b, saves) ==
    \E n \in 1..Len(ir.blocks[b]) :
        LET i == ir.blocks[b][n] IN
        /\ Addresses(i) /\ IsArray(ir, i.arg)
        /\ i.arg \notin ToSet(SavesAfter(SubSeq(ir.blocks[b], 1, n), saves))
=============================================================================
