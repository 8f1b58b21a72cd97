------------------------------ MODULE Compiler ------------------------------
(***************************************************************************)
(* main() after parsing: TypecheckerVisitor over the whole program, then   *)
(* CodegenVisitor over the same tree.  The two keep track of names each in *)
(* its own way, the first in a chain of scopes and the second in one flat  *)
(* map that is never unbound; the properties below are about what one may  *)
(* rely on after the other.                                                *)
(***************************************************************************)
EXTENDS Typechecker, Codegen

shared == <<fns, ast, trail>>
tcVars == <<symTab, visiting, fnIdx>>
vars   == <<phase, shared, tcVars, cgVars>>

Init == TypecheckerInit /\ CodegenInit

(* An Exception ends main with NOK; the last stage ends it with OK.        *)
Ended == phase \in Endings /\ UNCHANGED vars

Next == \/ TypecheckProgram  /\ UNCHANGED cgVars
        \/ TypecheckBlock    /\ UNCHANGED cgVars
        \/ TypecheckStmt     /\ UNCHANGED cgVars
        \/ TypecheckLeaf     /\ UNCHANGED cgVars
        \/ TypecheckCompound /\ UNCHANGED cgVars
        \/ CodegenProgram    /\ UNCHANGED <<shared, tcVars>>
        \/ CodegenBlock      /\ UNCHANGED <<shared, tcVars>>
        \/ CodegenStmt       /\ UNCHANGED <<shared, tcVars>>
        \/ CodegenExpr       /\ UNCHANGED <<shared, tcVars>>
        \/ Ended

Spec == Init /\ [][Next]_vars

-----------------------------------------------------------------------------
(* Type invariant: what the variables of both visitors hold.               *)

StmtKinds  == {"ifcond", "whilecond", "forhdr", "arraydecl", "print", "abort",
               "return", "assign", "elemaddr", "elemassign"}
FrameKinds == BlockKinds \cup StmtKinds \cup {"ternary", "binop", "unary", "sizeof",
                                            "elem", "call"}

Frames == [k : FrameKinds, x : Names \cup {NoName},
           op : Labels \cup TypeTokens \cup {"Err"}, proto : Nat, kids : Seq(Nat),
           ret : BOOLEAN, last : NodeKinds \cup FrameKinds \cup {"none"}, base : Nat]

TypeOK ==
    /\ phase \in Phases
    /\ fns \in Protos
    /\ ast \in Seq(Nodes)
    /\ trail \in Seq(Chains)
    /\ symTab \in Chains
    /\ visiting \in Seq(Frames)
    /\ fnIdx \in 0..Len(fns)
    /\ pc \in 1..(Len(ast) + 1)
    /\ func \in 0..Len(fns)
    /\ named \in [Names -> [decl : Nat \X Nat, ty : LLVMTypes \cup {"none"}]]
    /\ Len(val) = pc - 1
    /\ err \in BOOLEAN

-----------------------------------------------------------------------------
(* The typechecker's scopes.                                               *)

(* No name is in two tables of a chain: addSymbol and addFnSymbol look all *)
(* the way up, so a declaration in an inner scope never hides another.     *)
(* The code generator's single flat map rests on this.                     *)
NoShadowing ==
    \A n \in Keys : \A L, M \in 1..Len(symTab) :
        IsSym(symTab[L][n]) /\ IsSym(symTab[M][n]) => L = M

(* Every EnterScope has had its LeaveScope: whenever a block is about to   *)
(* visit its next statement the chain is as deep as when it was entered,   *)
(* and between two functions only the top-level table is left.             *)
ScopesMatch ==
    phase = "typecheck" =>
        /\ visiting = <<>> => Len(symTab) = 1
        /\ visiting # <<>> /\ Top.k \in BlockKinds => Len(symTab) = Top.base

(* Wherever a return may stand, getEnclosingFnProto walks past the scopes  *)
(* of nested blocks and of the parameters to the prototype of the function *)
(* being visited, whatever those scopes hold; only a name that begins with *)
(* "lilfn_" can make it stop early, and then at a null prototype.          *)
ReturnFindsItsFunction ==
    phase = "typecheck" /\ visiting # <<>> =>
        \/ getEnclosingFnProto(symTab) = fnIdx
        \/ /\ getEnclosingFnProto(symTab) = 0
           /\ \E n \in LilfnNames : Declares(symTab, n)

-----------------------------------------------------------------------------
(* One visitor against the other.                                          *)

(* The nodes whose visit reads _NamedValues under the node's name.         *)
Lookups == {"id", "assign", "elemaddr", "elem", "sizeof", "for"}

(* Whenever code generation looks a name up, and the name is visible at    *)
(* that place of the program, _NamedValues holds the alloca of the very    *)
(* declaration the typechecker resolved the name to, with the LLVM type    *)
(* of the declared type: the flat map that forgets nothing when a block    *)
(* ends agrees with the scopes that do.                                    *)
BindingAgreement ==
    phase = "codegen" /\ pc <= Len(ast) /\ node.live
    /\ node.k \in Lookups /\ node.x # NoName =>
        LET s == hasSymbol(trail[pc], node.x) IN
        IsSym(s) /\ s.type # "Function" =>
            named[node.x] = AllocaOf(s.decl, CreateLLVMType(SymbolToTokenType(s.type)))

(* The LLVM value of every expression has the type that the result the     *)
(* typechecker put in the node stands for.                                 *)
ValueTypes ==
    \A i \in 1..(pc - 1) :
        ast[i].live /\ ast[i].k \in ExprKinds =>
            val[i] = IF ast[i].res = "Literal_string" THEN "i8*"
                     ELSE CreateLLVMType(ast[i].res)

(* The arrays still to be released belong to blocks still open, those of   *)
(* an inner block above those of an outer one, so the loop that releases a *)
(* block's arrays finds all of them and no other; none is left over when a *)
(* function ends, whatever returns it contains.                            *)
ArraysOwned ==
    /\ \A n \in 1..Len(arrayDecls) : \E j \in 1..Len(scopes) :
          /\ scopes[j].blk = arrayDecls[n].blk
          /\ \A m \in 1..(n - 1) : \E i \in 1..j : scopes[i].blk = arrayDecls[m].blk
    /\ scopes = <<>> => arrayDecls = <<>>

(* On every path through a function that verifies, stack saves and         *)
(* restores pair up like brackets, and a block is entered with the same    *)
(* saves outstanding by whichever path: a loop that declares arrays does   *)
(* not let the stack grow.                                                 *)
AtFunctionEnd == phase = "codegen" /\ pc > 1 /\ ast[pc-1].k = "end" /\ ast[pc-1].op = "body"

SavesBalanced ==
    AtFunctionEnd /\ Verified(ir) =>
        LET entries == Entries(ir) IN
        /\ \A e \in entries : e[2] # Unbalanced
        /\ \A d, e \in entries : d[1] = e[1] => d[2] = e[2]

(* The typechecker lets `x[e]' through whatever x is; these are the        *)
(* programs in which every indexed name is an array in scope.              *)
Live(k) == {i \in 1..Len(ast) : ast[i].live /\ ast[i].k = k}

IndexesArrays == \A i \in Live("elem") : hasSymbol(trail[i], ast[i].x).type = "Array"

(* In such a program no path through a function that verifies addresses an *)
(* array once the block that declared it has given its stack back.         *)
NoReleasedArrayUsed ==
    AtFunctionEnd /\ Verified(ir) /\ IndexesArrays =>
        \A e \in Entries(ir) : ~UsesReleased(ir, e[1], e[2])

-----------------------------------------------------------------------------
(* What the typechecker accepts, code generation should compile.  It does  *)
(* for the programs that keep to what follows; each part stands for one    *)
(* way in which an accepted program is refused, or worse.                  *)

(* The block the i-th node is in: the last one opened at its depth.        *)
Openers  == {"fn", "bare", "if", "else", "whilebody", "for"}
Opener(i) == CHOOSE j \in 1..(i - 1) :
                /\ ast[j].k \in Openers /\ Len(trail[j+1]) = Len(trail[i])
                /\ \A m \in (j+1)..(i-1) : ast[m].k \in Openers => Len(trail[m+1]) # Len(trail[i])

(* The next statement, and a loop's back edge, go where the `ret' or the   *)
(* `unreachable' has just ended the basic block; so would the releases     *)
(* that follow an abort at the end of a block with arrays.                 *)
EndsItsBlock == {"fn", "if", "else"}
TameReturns == \A i \in Live("return") : ast[Opener(i)].k \in EndsItsBlock
TameAborts  == \A i \in Live("abort") :
                  /\ ast[Opener(i)].k \in EndsItsBlock
                  /\ ast[i + 1].k \in {"end", "else"}
                  /\ \A j \in Live("arraydecl") : j < i => Opener(j) # Opener(i)

(* An array is returned as nothing; a void variable or choice has no value.*)
TameTypes ==
    /\ \A i \in Live("return") :
          ast[i].kids # <<>> => ast[ast[i].kids[1]].res # "Type_array"
    /\ \A i \in Live("vardecl") : ast[i].res # "Type_void"
    /\ \A i \in Live("ternary") : ast[i].res # "Type_void"

(* sizeof and for want the array's name itself, and a user's function must *)
(* not have the name of one of the runtime's.                              *)
TameNames ==
    /\ IndexesArrays
    /\ \A i \in Live("sizeof") \cup Live("for") : ast[i].x # NoName
    /\ \A i \in 1..Len(fns) : fns[i].name \notin Intrinsics

Tame == TameReturns /\ TameAborts /\ TameTypes /\ TameNames

Typechecked == phase \notin {"declare", "typecheck"} /\ ast # <<>>
               /\ visiting = <<>> /\ fnIdx = Len(fns)

(* A typechecked program that is tame compiles: CodegenVisitor neither     *)
(* throws nor goes through a bad pointer, and the module verifies.  That   *)
(* is with an int of 64 bits: a -width changes the type of int but not     *)
(* that of the parameters an int is passed to.                             *)
TameProgramsCompile == Typechecked /\ Tame /\ Width = 64 => phase \in {"codegen", "OK"}

-----------------------------------------------------------------------------
(* What the source says of itself; each is refuted by a run of its own.    *)

(* baseast.cpp:36, "not allowed to create such value", symtab.hpp:105,     *)
(* that a scope with one symbol named "lilfn_..." is a function's, and     *)
(* typecheckervisitor.cpp:128, "Only arrays can be indexed": what a name   *)
(* is used as has been checked.                                            *)
NamesChecked ==
    /\ phase \notin {"assertValue", "assertFnProto"}
    /\ Typechecked => IndexesArrays

(* parser.cpp:35, "-width=N Underlying integer width of int datatype".     *)
WidthCompiles ==
    Typechecked /\ Tame => phase \in {"codegen", "OK"}
=============================================================================
