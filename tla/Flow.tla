-------------------------------- MODULE Flow --------------------------------
(***************************************************************************)
(* Why SavesBalanced holds: for every basic block there is one stack of    *)
(* saves with which it is entered, whatever the branch; a block that is    *)
(* still to be filled has that of the arrays declared outside the          *)
(* statement that made it, and the code generator moves to it when just    *)
(* these are left.                                                         *)
(***************************************************************************)
EXTENDS OpenBlocks

(* What an instruction does to the saves outstanding; a sequence of them   *)
(* takes the saves s to t.                                                 *)
Effect(i, s) == CASE i.op = "save"    -> Append(s, i.arg)
                  [] i.op = "restore" -> IF s # <<>> /\ Last(s) = i.arg
                                         THEN Front(s) ELSE Unbalanced
                  [] OTHER            -> s

Runs(is, s, t) ==
    \E g : /\ g[0] = s /\ g[Len(is)] = t
           /\ \A n \in 1..Len(is) : g[n] = Effect(is[n], g[n - 1])

(* Where it may go; Succs(f, b) are the exits of the block b.              *)
Exits(is) == UNION {ToSet(is[n].to) : n \in 1..Len(is)}

Neutral(is) == \A n \in 1..Len(is) : is[n].op \notin {"save", "restore"}

Sequence(s) == \E S : s \in Seq(S)

IsFunction(f) ==
    /\ f = [blocks |-> f.blocks, at |-> f.at]
    /\ Sequence(f.blocks) /\ f.at \in Blocks(f)
    /\ \A b \in Blocks(f) : Sequence(f.blocks[b])

(* L[b] are the saves outstanding when the block b is entered; they are s  *)
(* where the next instruction goes, and nothing leaves that block yet.     *)
Labelled(f, L, s) ==
    /\ IsFunction(f)
    /\ L[1] = <<>> /\ \A b \in Blocks(f) : L[b] # Unbalanced
    /\ \A b \in Blocks(f) : \A c \in Exits(f.blocks[b]) :
          c \in Blocks(f) /\ Runs(f.blocks[b], L[b], L[c])
    /\ Exits(f.blocks[f.at]) = {} /\ Runs(f.blocks[f.at], L[f.at], s)

-----------------------------------------------------------------------------
(* The saves of the first k arrays; the arrays of the scopes outside the   *)
(* j-th are the first F[j].                                                *)
Saves(arrays, k) == [n \in 1..k |-> arrays[n].save]

Outside(F, arrays, scs) ==
    \A j \in 1..Len(scs) :
        /\ F[j] \in 0..Len(arrays)
        /\ \A n \in 1..F[j] : \A i \in j..Len(scs) : scs[i].blk # arrays[n].blk
        /\ \A n \in (F[j] + 1)..Len(arrays) :
              \E i \in j..Len(scs) : scs[i].blk = arrays[n].blk

(* The blocks that a scope's end, or what it makes way for, will move to.  *)
Pending(c) == ({c.next} \cup (IF c.k = "then" THEN {c.hdr}
                              ELSE IF c.blk = 0 THEN {c.hdr + 1} ELSE {})) \ {0}

IsLoop(c) == c.k \in {"while", "for"}

Awaits(f, L, s, c) ==
    /\ c.k \in BlockKinds /\ (c.k \in {"body", "bare"} \/ c.next # 0)
    /\ c.k = "then" => c.hdr # 0
    /\ c.blk = 0 => c.next # c.hdr + 1
    /\ \A p \in Pending(c) : /\ p \in Blocks(f) \ {1, f.at}
                             /\ f.blocks[p] = <<>> /\ L[p] = s
    /\ IsLoop(c) => c.hdr \in Blocks(f) /\ L[c.hdr] = s

AllAwait(f, L, F, arrays, scs) ==
    /\ \A j \in 1..Len(scs) : Awaits(f, L, Saves(arrays, F[j]), scs[j])
    /\ \A i, j \in 1..Len(scs) : i # j => Pending(scs[i]) \cap Pending(scs[j]) = {}

FlowAt(f, L, F, arrays, scs) ==
    /\ Labelled(f, L, Saves(arrays, Len(arrays)))
    /\ Outside(F, arrays, scs)
    /\ AllAwait(f, L, F, arrays, scs)

Flows(f, arrays, scs) == \E L, F : FlowAt(f, L, F, arrays, scs)

Declared(arrays, scs, i) ==
    /\ \A j \in 1..Len(scs) : scs[j].blk \in 0..(i - 1)
    /\ \A n \in 1..Len(arrays) : arrays[n].blk \in 0..(i - 1) /\ arrays[n].save # None

FlowInv == Declared(arrayDecls, scopes, pc) /\ Flows(ir, arrayDecls, scopes)
=============================================================================
