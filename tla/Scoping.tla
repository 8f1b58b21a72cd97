------------------------------ MODULE Scoping ------------------------------
(***************************************************************************)
(* Why NoShadowing, ScopesMatch and BindingAgreement hold, and at the end  *)
(* ReturnFindsItsFunction: the inductive invariants of their proofs, in    *)
(* named parts.  They speak of the visits in progress, of the chain of     *)
(* tables, of the trail the chain has left, and of the one map of the code *)
(* generator.                                                              *)
(***************************************************************************)
EXTENDS Compiler

IsBlock(f) == f.k \in BlockKinds

(* The visits in progress are blocks, outermost first, then at most one    *)
(* statement, then expressions; the outermost block is a function's body.  *)
(* A block's scope is one deeper than that of the block around it, for the *)
(* body of a `for' it is two; a body's is the fourth.                      *)
StackInv ==
    \A j \in 1..Len(visiting) :
        /\ visiting[j].k = "body" <=> j = 1
        /\ visiting[j].k \in BlockKinds \cup StmtKinds =>
              \A i \in 1..(j - 1) : IsBlock(visiting[i])
        /\ IsBlock(visiting[j]) =>
              /\ visiting[j].base >= 4
              /\ \A i \in 1..(j - 1) : visiting[i].base < visiting[j].base
              /\ j = 1 => visiting[j].base = 4
              /\ j > 1 => visiting[j].base =
                            visiting[j - 1].base + (IF visiting[j].k = "for" THEN 2 ELSE 1)

(* The chain is as deep as the innermost block's scope; while the header   *)
(* of a `for' is visited the scope of its identifier comes on top.         *)
Innermost(j) == IsBlock(visiting[j]) /\ (j < Len(visiting) => ~IsBlock(visiting[j + 1]))
InHeader(j)  == j < Len(visiting) /\ visiting[j + 1].k = "forhdr"

DepthInv ==
    /\ visiting = <<>> => Len(symTab) = 1
    /\ \A j \in 1..Len(visiting) :
          Innermost(j) => Len(symTab) = visiting[j].base + (IF InHeader(j) THEN 1 ELSE 0)

(* A visit's operands are nodes; a call has a prototype, which its symbol  *)
(* got from the first pass; an array declaration has a name; op is a type  *)
(* only in an assignment; the operands of a binary operator agree.         *)
FrameGood(f, tree, protos, doing) ==
    /\ f.kids \in Seq(1..Len(tree))
    /\ f.k = "call" => f.proto \in 1..Len(protos)
    /\ f.k = "arraydecl" => f.x \in Names
    /\ f.k # "assign" => f.op \in Labels
    /\ doing = "typecheck" /\ f.k = "binop" /\ Len(f.kids) = 2 =>
          BinopResult(f.op, tree[f.kids[1]].res, tree[f.kids[2]].res) # "Err"

VisitsGood(vs, tree, protos, doing) ==
    \A j \in 1..Len(vs) : FrameGood(vs[j], tree, protos, doing)

FrameInv == VisitsGood(visiting, ast, fns, phase)

ProtosIn(chain, protos) ==
    \A L \in 1..Len(chain) : \A n \in Keys :
        chain[L][n].type = "Function" => chain[L][n].proto \in 1..Len(protos)

ProtoInv == ProtosIn(symTab, fns)

-----------------------------------------------------------------------------
(* The trail.                                                              *)

IsVar(s) == IsSym(s) /\ s.type # "Function"

(* Before the trail begins there is nothing else; then it is one longer    *)
(* than the program, ends with the current chain, and every chain of it    *)
(* has the functions at the top and nothing but functions there.           *)
TrailInv ==
    /\ phase = "declare" => trail = <<>>
    /\ phase \in {"typecheck", "codegen"} => trail # <<>>
    /\ trail = <<>> => ast = <<>> /\ visiting = <<>> /\ symTab = <<EmptyTable>>
    /\ trail # <<>> => /\ Len(trail) = Len(ast) + 1
                       /\ trail[Len(trail)] = symTab /\ Len(symTab) >= 1
                       /\ trail[1] = <<FnTable>>
                       /\ symTab[1] = FnTable

(* Every symbol after the i-th node was there before it, at the same       *)
(* level, or is the node's own.                                            *)
DeclKinds == {"vardecl", "arraydecl", "forvar"}

Sourced(i) ==
    \A L \in 1..Len(trail[i + 1]) : \A x \in Names :
        LET s  == trail[i + 1][L][x]
            ps == fns[ast[i].kids[1]].params
        IN  IsVar(s) =>
              \/ L <= Len(trail[i]) /\ s = trail[i][L][x]
              \/ /\ ast[i].k \in DeclKinds /\ x = ast[i].x
                 /\ s = VarInfo(ast[i].res, DeclAt(i))
              \/ /\ ast[i].k = "fn" /\ IsParam(ps, x)
                 /\ s = VarInfo(ps[ParamAt(ps, x)].type, ParamDecl(i, ParamAt(ps, x)))

(* A declaration finds its name unused, a function only other functions.   *)
Fresh(i) ==
    /\ ast[i].k \in DeclKinds =>
          /\ ast[i].x \in Names
          /\ \A L \in 1..Len(trail[i]) : ~IsSym(trail[i][L][ast[i].x])
          /\ ast[i].k = "arraydecl" => ast[i].res = "Type_array"
          /\ ast[i].k = "forvar" => ast[i].res = "Type_int"
          /\ ast[i].res \in TypeTokens
    /\ ast[i].k = "fn" =>
          /\ ast[i].live
          /\ ast[i].kids[1] \in 1..Len(fns)
          /\ \A L \in 1..Len(trail[i]) : \A x \in Names : ~IsVar(trail[i][L][x])

LinkInv == \A i \in 1..Len(ast) : Sourced(i) /\ Fresh(i)

-----------------------------------------------------------------------------
(* What code generation passes over is out of scope where it looks.        *)

LiveSym(s) == ast[s.decl[1]].live

(* Every variable on a chain was declared by a node.                       *)
DeclaredInv ==
    \A i \in 1..Len(trail) : \A L \in 1..Len(trail[i]) : \A x \in Names :
        IsVar(trail[i][L][x]) => trail[i][L][x].decl[1] \in 1..Len(ast)

(* A symbol of the chain whose declaration code generation will not reach  *)
(* belongs to a block whose statement list a return has ended, or to one   *)
(* inside it.                                                              *)
DeadInv ==
    \A L \in 1..Len(symTab) : \A x \in Names :
        IsVar(symTab[L][x]) /\ ~LiveSym(symTab[L][x]) =>
            \E j \in 1..Len(visiting) : /\ IsBlock(visiting[j]) /\ visiting[j].ret
                                        /\ visiting[j].base <= L

(* So a name looked up at a node that it does reach has such a declaration.*)
LookupInv ==
    \A i \in 1..Len(ast) :
        ast[i].live /\ ast[i].k \in Lookups =>
            \A L \in 1..Len(trail[i]) : \A x \in Names :
                IsVar(trail[i][L][x]) => LiveSym(trail[i][L][x])

(* The map of the code generator holds the alloca of every symbol on the   *)
(* chain before the next node.                                             *)
AgreeInv ==
    /\ phase \in {"declare", "typecheck"} => pc = 1
    /\ phase = "codegen" =>
        \A L \in 1..Len(trail[pc]) : \A x \in Names :
            LET s == trail[pc][L][x] IN
            IsVar(s) /\ LiveSym(s) =>
                named[x] = AllocaOf(s.decl, CreateLLVMType(SymbolToTokenType(s.type)))

(* NoShadowing, of every chain of the trail.                               *)
Unshadowed(chain) ==
    \A n \in Keys : \A L, M \in 1..Len(chain) :
        IsSym(chain[L][n]) /\ IsSym(chain[M][n]) => L = M

TrailUnshadowed == \A i \in 1..Len(trail) : Unshadowed(trail[i])

(* All of it but for the map: what the typechecker establishes.            *)
ScopeInv ==
    /\ StackInv /\ DepthInv /\ TrailInv /\ NoShadowing /\ TrailUnshadowed
    /\ LinkInv /\ DeclaredInv /\ DeadInv /\ LookupInv

ScopingInv == FrameInv /\ ProtoInv /\ ScopeInv /\ AgreeInv

-----------------------------------------------------------------------------
(* The second scope holds the marker of the function being visited and     *)
(* nothing else; the scopes above it hold no marker and no prototype.      *)
Plain(n, s) == s.proto = 0 /\ (n = FnMarker => ~IsSym(s))

Marked(chain, i) ==
    /\ chain[2][FnMarker] = FnInfo(i)
    /\ \A n \in Names : ~IsSym(chain[2][n])
    /\ \A L \in 3..Len(chain) : \A n \in Keys : Plain(n, chain[L][n])

MarkerInv == visiting # <<>> => Marked(symTab, fnIdx)
=============================================================================
