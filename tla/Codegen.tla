------------------------------ MODULE Codegen ------------------------------
(***************************************************************************)
(* CodegenVisitor (codegenvisitor.cpp), walking the program the            *)
(* typechecker has accepted.  An action is the work of one node; a node    *)
(* the visitor does not reach is passed over.  What the IRBuilder and the  *)
(* verifier do with the instructions is IRFunction.                        *)
(***************************************************************************)
EXTENDS AST, IRFunction

CONSTANTS Width,       \* the -width option; 64 when it is not given
          Intrinsics   \* names of the runtime functions lilang declares

ASSUME WidthAssumption == Width \in Nat \ {0, 1}

VARIABLES pc,          \* the next node
          func,        \* index of the function definition being generated
          named,       \* _NamedValues
          scopes,      \* _scope, and the visits that pushed its blocks
          arrayDecls,  \* _arrayDecls
          ir,          \* the llvm::Function and the insertion point
          val,         \* the type of node->llvmVal, for each node passed
          err          \* the module so far would not verify

cgVars == <<pc, func, named, scopes, arrayDecls, ir, val, err>>

(* The LLVM types.  "null" is a null llvm::Value*, "none" a node without.  *)
IntN(width) == IF width = 64 THEN "i64" ELSE "iN"
LLVMTypes   == {"i64", "iN", "i1", "void", "array", "i8*"}

CreateLLVMType(type) ==
    CASE type = "Type_int"   -> IntN(Width)
      [] type = "Type_bool"  -> "i1"
      [] type = "Type_void"  -> "void"
      [] type = "Type_array" -> "array"

UpdateToIntWidth(ty, width) ==
    CASE ty \notin {"i64", "iN", "i1"} -> "null"
      [] ty = "i1"                     -> "i1"
      [] OTHER                         -> IntN(width)

(* An entry of _NamedValues: which declaration's alloca it is, and the     *)
(* allocated type; NoAlloca for a null one.                                *)
NoAlloca        == [decl |-> <<0, 0>>, ty |-> "none"]
AllocaOf(d, ty) == [decl |-> d, ty |-> ty]

(* The alloca of the counter of the `for' whose body is the block b.       *)
Counter(b) == <<b, 1>>

node   == ast[pc]
kid(n) == val[node.kids[n]]

(* memset's length argument has the width of int, its parameter is an i64; *)
(* an alloca of void has no size, is not cleared and does not verify.      *)
BadLength    == Width # 64
BadAlloca(t) == t = "Type_void" \/ BadLength

At(k) == phase = "codegen" /\ pc <= Len(ast) /\ node.live /\ node.k = k

(* The node's visit ends with an llvmVal of type ty.                       *)
Yield(ty) == pc' = pc + 1 /\ val' = Append(val, ty)

Halt(how) ==
    /\ phase' = how
    /\ UNCHANGED cgVars

(* An instruction of the node's visit.                                     *)
Made(op, arg, vals, to) == Instr(op, pc, arg, vals, to)
Insert(op, arg, vals)   == ir' = Emit(ir, <<Made(op, arg, vals, <<>>)>>)

(* CreateEntryBlockAlloca: the alloca, and a memset to 0 of as many bytes  *)
(* as there are in its bits, rounded down; none if the type has no size.   *)
Bytes(ty) == CASE ty = "i1"    -> 0
               [] ty = "array" -> 16
               [] OTHER        -> Width \div 8

(* Mutated form of ClearedAlloca: without the memset.                      *)
Uncleared(d, ty) == <<Alloca(d)>>

ClearedAlloca(d, ty) ==
    IF ty = "void" THEN <<Alloca(d)>>
    ELSE <<Alloca(d), Instr("clear", 0, d, <<Bytes(ty)>>, <<>>)>>

(* Mutated form of Bind: _NamedValues.emplace() keeps an older entry.      *)
BindOnce(x, alloca) ==
    named' = IF named[x] = NoAlloca THEN [named EXCEPT ![x] = alloca] ELSE named

(* _NamedValues[x] = alloca                                                *)
Bind(x, alloca) == named' = [named EXCEPT ![x] = alloca]

CodegenInit ==
    /\ pc = 1 /\ func = 0
    /\ named = [n \in Names |-> NoAlloca]
    /\ scopes = <<>> /\ arrayDecls = <<>>
    /\ ir = NewFunction /\ val = <<>> /\ err = FALSE

-----------------------------------------------------------------------------
(* visit(Program).  The first pass creates the functions of the module,    *)
(* which already holds the runtime's.                                      *)

CreateFunctions ==
    /\ phase = "codegen" /\ pc = 1
    /\ \E i \in 1..Len(fns) : fns[i].name \in Intrinsics
    /\ Halt("failed")

(* Mutated form of ParamAllocas: the index into fnParams stays at 0.       *)
ParamAllocasOfFirst(ps) ==
    [n \in Names |->
       IF IsParam(ps, n)
       THEN AllocaOf(ParamDecl(pc, ParamAt(ps, n)), CreateLLVMType(ps[1].type))
       ELSE NoAlloca]

(* _NamedValues once cleared and given the parameters.                     *)
ParamAllocas(ps) ==
    [n \in Names |->
       IF IsParam(ps, n)
       THEN AllocaOf(ParamDecl(pc, ParamAt(ps, n)), CreateLLVMType(ps[ParamAt(ps, n)].type))
       ELSE NoAlloca]

Allocas(ps) ==
    FlattenSeq([j \in 1..Len(ps) |->
                  ClearedAlloca(ParamDecl(pc, j), CreateLLVMType(ps[j].type))])

BeginFunction ==
    LET i  == node.kids[1]
        ps == fns[i].params
    IN  /\ At("fn")
        /\ \A j \in 1..Len(fns) : fns[j].name \notin Intrinsics
        /\ func' = i
        /\ named' = ParamAllocas(ps)
        /\ ir' = Emit(EmitInEntry(NewFunction, Allocas(ps)),
                       [j \in 1..Len(ps) |-> Made("argument", ParamDecl(pc, j), <<j>>, <<>>)])
        /\ scopes' = <<[blk |-> pc, k |-> "body", ret |-> 0, hdr |-> 0, next |-> 0]>>
        /\ err' = (err \/ (ps # <<>> /\ BadLength))
        /\ Yield("none")
        /\ UNCHANGED <<phase, arrayDecls>>

EndProgram ==
    /\ phase = "codegen" /\ pc = Len(ast) + 1
    /\ Halt(IF err THEN "failed" ELSE "OK")

(* Nodes the visitor does not reach.                                       *)
PassOver ==
    /\ phase = "codegen" /\ pc <= Len(ast) /\ ~node.live
    /\ Yield("none")
    /\ UNCHANGED <<phase, func, named, scopes, arrayDecls, ir, err>>

-----------------------------------------------------------------------------
(* visit(StmtBlockStmt), in two parts: the push of the scope by the visit  *)
(* that accepts the block, and what follows the statements.                *)

OpenScope(k, hdr, next) ==
    [blk |-> pc, k |-> k, ret |-> 0, hdr |-> hdr, next |-> next]

Scope == Last(scopes)

(* Mutated forms of Mine: one array where the loop takes all of the        *)
(* scope's, and every array whatever scope it is of.                       *)
MineOnce == {n \in {Len(arrayDecls)} \ {0} : arrayDecls[n].blk = Scope.blk}
MineAll  == 1..Len(arrayDecls)

(* The restores of the arrays of this scope on top of _arrayDecls, the     *)
(* innermost first.                                                        *)
Mine == {n \in 1..Len(arrayDecls) :
           \A m \in n..Len(arrayDecls) : arrayDecls[m].blk = Scope.blk}
Restores == [n \in 1..Cardinality(Mine) |->
               StackRestore(arrayDecls[Len(arrayDecls) + 1 - n].save)]

(* CreateRet of a null value makes a `ret void'.                           *)
RetType(i) == IF ast[i].kids = <<>> \/ val[i] = "null" THEN "void" ELSE val[i]

(* The block's ir once its arrays are released and its return, if one      *)
(* ended it, is made.                                                      *)
Closed == Emit(ir, Restores \o (IF Scope.ret = 0 THEN <<>>
                                ELSE <<Ret(Scope.ret, ast[Scope.ret].kids)>>))

BadReturn == Scope.ret # 0 /\ RetType(Scope.ret) # CreateLLVMType(fns[func].type)

CloseScope ==
    /\ arrayDecls' = SubSeq(arrayDecls, 1, Len(arrayDecls) - Cardinality(Mine))
    /\ err' = (err \/ BadReturn)
    /\ Yield("none")
    /\ UNCHANGED <<phase, func, named>>

Statement == Yield("none") /\ UNCHANGED <<phase, func, named, arrayDecls, err>>

EnterBare == At("bare") /\ scopes' = Append(scopes, OpenScope("bare", 0, 0))
                        /\ Statement /\ UNCHANGED ir

LeaveBare == At("end") /\ node.op = "bare" /\ scopes' = Front(scopes)
                       /\ ir' = Closed /\ CloseScope

(* After the body of a function: a void one returns unless it already has. *)
Finished == IF ~Terminated(Closed) /\ fns[func].type = "Type_void"
            THEN Emit(Closed, <<Ret(pc, <<>>)>>) ELSE Closed

EndFunction ==
    /\ At("end") /\ node.op = "body"
    /\ ir' = Finished
    /\ scopes' = <<>>
    /\ arrayDecls' = SubSeq(arrayDecls, 1, Len(arrayDecls) - Cardinality(Mine))
    /\ err' = (err \/ ~Verified(Finished) \/ BadReturn)
    /\ Yield("none")
    /\ UNCHANGED <<phase, func, named>>

-----------------------------------------------------------------------------
(* Control statements.                                                     *)

(* Mutated form of BranchUnlessTerminated: getTerminator is not asked.     *)
BranchAlways(f, b) == Emit(f, <<Br(b)>>)

BranchUnlessTerminated(f, b) == IF Terminated(f) THEN f ELSE Emit(f, <<Br(b)>>)

If ==
    LET then  == Len(ir.blocks) + 1
        else  == then + 1
        merge == IF node.op = "else" THEN then + 2 ELSE then + 1
    IN  /\ At("if")
        /\ ir' = SetInsertPoint(Emit(AddBlocks(ir, merge - then + 1),
                                     <<Made("test", None, node.kids, <<then, else>>)>>), then)
        /\ scopes' = Append(scopes, OpenScope("then", else, merge))
        /\ Statement

Else ==
    /\ At("else")
    /\ ir' = SetInsertPoint(BranchUnlessTerminated(Closed, Scope.next), Scope.hdr)
    /\ scopes' = Append(Front(scopes), OpenScope("else", 0, Scope.next))
    /\ CloseScope

EndIf ==
    /\ At("end") /\ node.op \in {"then", "else"}
    /\ ir' = SetInsertPoint(BranchUnlessTerminated(Closed, Scope.next), Scope.next)
    /\ scopes' = Front(scopes)
    /\ CloseScope

(* The body and the block after the loop are the two after the header.     *)
While ==
    LET hdr == Len(ir.blocks) + 1 IN
    /\ At("while")
    /\ ir' = SetInsertPoint(Emit(AddBlocks(ir, 3), <<Br(hdr)>>), hdr)
    /\ scopes' = Append(scopes, [OpenScope("while", hdr, hdr + 2) EXCEPT !.blk = 0])
    /\ Statement

WhileBody ==
    /\ At("whilebody")
    /\ ir' = SetInsertPoint(
                Emit(ir, <<Made("test", None, node.kids, <<Scope.hdr + 1, Scope.next>>)>>),
                Scope.hdr + 1)
    /\ scopes' = Append(Front(scopes), [Scope EXCEPT !.blk = pc])
    /\ Statement

EndLoop ==
    /\ At("end") /\ node.op \in {"while", "for"}
    /\ ir' = SetInsertPoint(
                Emit(Closed, (IF node.op = "while" THEN <<>>
                              ELSE <<Made("next", Counter(Scope.blk), <<>>, <<>>)>>)
                             \o <<Br(Scope.hdr)>>),
                Scope.next)
    /\ scopes' = Front(scopes)
    /\ CloseScope

(* The identifier's alloca goes where the statement is, not in the entry.  *)
ForIdent ==
    /\ At("forvar")
    /\ ir' = Emit(ir, <<Alloca(DeclAt(pc))>>)
    /\ Bind(node.x, AllocaOf(DeclAt(pc), CreateLLVMType("Type_int")))
    /\ Yield("none")
    /\ UNCHANGED <<phase, func, scopes, arrayDecls, err>>

(* The container must be an identifier; its alloca must be an array's.     *)
For ==
    LET hdr   == Len(ir.blocks) + 1
        cont  == named[node.x]
        var   == node.kids[1]
        ident == named[ast[var].x]
        start == Emit(AddBlocks(ir, 3),
                      <<Instr("array of", var, cont.decl, <<>>, <<>>), Alloca(Counter(pc)),
                        Instr("start", var, Counter(pc), <<>>, <<>>), Br(hdr)>>)
    IN  /\ At("for")
        /\ IF node.x = NoName THEN Halt("failed")
           ELSE IF cont.ty # "array" THEN Halt("crash")
           ELSE /\ ir' = SetInsertPoint(
                           [start EXCEPT
                              !.blocks[hdr]     =
                                 <<Made("more", Counter(pc), <<var>>, <<hdr + 1, hdr + 2>>)>>,
                              !.blocks[hdr + 1] = <<Made("item", ident.decl, <<var>>, <<>>)>>],
                           hdr + 1)
                /\ scopes' = Append(scopes, OpenScope("for", hdr, hdr + 2))
                /\ Statement

-----------------------------------------------------------------------------
(* Simple statements.                                                      *)

VarDecl ==
    /\ At("vardecl")
    /\ ir' = EmitInEntry(ir, ClearedAlloca(DeclAt(pc), CreateLLVMType(node.res)))
    /\ Bind(node.x, AllocaOf(DeclAt(pc), CreateLLVMType(node.res)))
    /\ err' = (err \/ BadAlloca(node.res))
    /\ Yield("none")
    /\ UNCHANGED <<phase, func, scopes, arrayDecls>>

(* The stack pointer is saved before the two allocas of an array, whose    *)
(* elements are cleared.                                                   *)
ArrayDecl ==
    /\ At("arraydecl")
    /\ ir' = Emit(ir, <<StackSave(DeclAt(pc)), Made("array", DeclAt(pc), node.kids, <<>>)>>)
    /\ arrayDecls' = Append(arrayDecls, [blk |-> Scope.blk, save |-> DeclAt(pc)])
    /\ Bind(node.x, AllocaOf(DeclAt(pc), "array"))
    /\ err' = (err \/ BadLength)
    /\ Yield("none")
    /\ UNCHANGED <<phase, func, scopes>>

PrintArg ==
    /\ At("print")
    /\ Insert("print", None, node.kids)
    /\ err' = (err \/ (kid(1) # "i8*" /\ UpdateToIntWidth(kid(1), 64) # "i64"))
    /\ Yield("none")
    /\ UNCHANGED <<phase, func, named, scopes, arrayDecls>>

Abort == At("abort") /\ ir' = Emit(ir, Trap(pc)) /\ Statement /\ UNCHANGED scopes

(* The `ret' is made when the block has released its arrays.               *)
Return ==
    /\ At("return")
    /\ scopes' = [scopes EXCEPT ![Len(scopes)].ret = pc]
    /\ Yield(IF node.kids = <<>> THEN "none" ELSE UpdateToIntWidth(kid(1), 64))
    /\ UNCHANGED <<phase, func, named, arrayDecls, ir, err>>

VarAssignment ==
    /\ At("assign")
    /\ IF named[node.x] = NoAlloca THEN Halt("failed")
       ELSE /\ Insert("store", named[node.x].decl, node.kids)
            /\ err' = (err \/ kid(1) # named[node.x].ty)
            /\ Yield("none")
            /\ UNCHANGED <<phase, func, named, scopes, arrayDecls>>

(* The index is compared with the size, then with 0; either failing traps. *)
BoundsCheck(f, d) ==
    LET gt0  == Len(f.blocks) + 1
        fail == gt0 + 1
        pass == gt0 + 2
        g    == Emit(AddBlocks(f, 3), <<Made("below size", d, node.kids, <<gt0, fail>>)>>)
    IN  SetInsertPoint([g EXCEPT !.blocks[fail] = Trap(pc),
                                 !.blocks[gt0]  =
                                    <<Made("not negative", None, node.kids, <<pass, fail>>)>>],
                       pass)

(* A GEP on a null alloca, or into one that is no array, does not return.  *)
Indexing(x, is, ty) ==
    IF named[x].ty # "array" THEN Halt("crash")
    ELSE /\ ir' = Emit(BoundsCheck(ir, named[x].decl), is)
         /\ err' = (err \/ kid(1) # IntN(Width))
         /\ Yield(ty)
         /\ UNCHANGED <<phase, func, named, scopes, arrayDecls>>

ArrayAssignmentIndex == At("elemaddr") /\ Indexing(node.x, <<>>, "none")
ArrayAssignment ==
    /\ At("elemassign")
    /\ Insert("store element", named[node.x].decl, node.kids)
    /\ err' = (err \/ kid(2) # IntN(Width))
    /\ Yield("none")
    /\ UNCHANGED <<phase, func, named, scopes, arrayDecls>>

-----------------------------------------------------------------------------
(* Expressions.                                                            *)

Constant(ty) == Yield(ty) /\ UNCHANGED <<phase, func, named, scopes, arrayDecls, ir, err>>

TrueFalse == At("bool") /\ Constant("i1")
Num       == At("num") /\ Constant(IntN(Width))
StringLiteral == At("string") /\ Constant("i8*")

(* The instruction takes the values of the node's operands; the verifier   *)
(* does not take it if `bad'.                                              *)
Computed(op, bad, ty) ==
    /\ Insert(op, None, node.kids)
    /\ err' = (err \/ bad)
    /\ Yield(ty)
    /\ UNCHANGED <<phase, func, named, scopes, arrayDecls>>

Input == At("input") /\ Computed("input", FALSE, UpdateToIntWidth("i64", Width))

Id ==
    /\ At("id")
    /\ IF named[node.x] = NoAlloca THEN Halt("failed")
       ELSE /\ Insert("load", named[node.x].decl, <<>>)
            /\ Yield(named[node.x].ty)
            /\ UNCHANGED <<phase, func, named, scopes, arrayDecls, err>>

(* Both arms are evaluated; the select takes values, so nothing void.      *)
Ternary == At("ternary") /\ Computed("select", \/ kid(1) # "i1" \/ kid(2) # kid(3)
                                               \/ kid(2) = "void", kid(2))

(* The switch of visit(BinopExpr).                                         *)
BinopInstr(op) ==
    CASE op = "Op_and"    -> "and"
      [] op = "Op_or"     -> "or"
      [] op = "Op_neq"    -> "icmp ne"
      [] op = "Op_eqeq"   -> "icmp eq"
      [] op = "Op_gt"     -> "icmp sgt"
      [] op = "Op_gte"    -> "icmp sge"
      [] op = "Op_lt"     -> "icmp slt"
      [] op = "Op_lte"    -> "icmp sle"
      [] op = "Op_add"    -> "add"
      [] op = "Op_minus"  -> "sub"
      [] op = "Op_mult"   -> "mul"
      [] op = "Op_divide" -> "sdiv"
      [] op = "Op_mod"    -> "srem"
      [] op = "Op_exp"    -> "pow"

(* Both operands are evaluated, for & and | too.                           *)
Binop == At("binop") /\ Computed(BinopInstr(node.op),
                                 kid(1) # kid(2) \/ kid(1) \notin {"i64", "iN", "i1"},
                                 CASE isAndOr(node.op)  -> kid(1)
                                   [] isCompOp(node.op) -> "i1"
                                   [] node.op = "Op_exp" -> IntN(Width)
                                   [] OTHER             -> kid(1))

Unary == At("unary") /\ Computed(IF node.op = "Op_bang" THEN "not" ELSE "neg",
                                 kid(1) \notin {"i64", "iN", "i1"}, kid(1))

(* The operand is not visited: it must be an identifier.                   *)
Sizeof ==
    /\ At("sizeof")
    /\ IF node.x = NoName THEN Halt("failed")
       ELSE IF named[node.x].ty # "array" THEN Halt("crash")
       ELSE /\ Insert("size", named[node.x].decl, <<>>)
            /\ Yield(IntN(Width))
            /\ UNCHANGED <<phase, func, named, scopes, arrayDecls, err>>

ArrayExpr ==
    /\ At("elem")
    /\ Indexing(node.x, <<Made("load element", named[node.x].decl, node.kids, <<>>)>>, IntN(Width))

FnCall ==
    LET f == fns[CHOOSE i \in 1..Len(fns) : fns[i].name = node.x] IN
    /\ At("call")
    /\ Computed("call", \E j \in 1..Len(f.params) : kid(j) # CreateLLVMType(f.params[j].type),
                CreateLLVMType(f.type))

-----------------------------------------------------------------------------
CodegenProgram == \/ CreateFunctions \/ BeginFunction \/ EndFunction \/ EndProgram
                  \/ PassOver
CodegenBlock   == \/ EnterBare \/ LeaveBare \/ If \/ Else \/ EndIf
                  \/ While \/ WhileBody \/ ForIdent \/ For \/ EndLoop
CodegenStmt    == \/ VarDecl \/ ArrayDecl \/ PrintArg \/ Abort \/ Return
                  \/ VarAssignment \/ ArrayAssignmentIndex \/ ArrayAssignment
CodegenExpr    == \/ TrueFalse \/ Num \/ Input \/ StringLiteral \/ Id \/ Ternary
                  \/ Binop \/ Unary \/ Sizeof \/ ArrayExpr \/ FnCall

CodegenNext == CodegenProgram \/ CodegenBlock \/ CodegenStmt \/ CodegenExpr
=============================================================================
