---------------------------- MODULE Typechecker ----------------------------
(***************************************************************************)
(* TypecheckerVisitor (typecheckervisitor.cpp).  Its recursion over the    *)
(* tree is the sequence `visiting' of the visits in progress, outermost    *)
(* first; an action is the stretch of a visit between two accept() calls.  *)
(* Where the code throws, asserts or reads through a null pointer, the     *)
(* phase says so and nothing runs after it.                                *)
(***************************************************************************)
EXTENDS AST

CONSTANTS Kinds,       \* the node kinds a program is built from; "exprstmt"
                       \* among them lets an expression be a statement
          Ops,         \* the operators tried
          VarTypes,    \* the types of variables tried
          MaxNodes,    \* no statement or compound expression starts beyond
          MaxArgs      \* arguments of an abort, at most

ASSUME OpsAssumption == \A op \in Ops : isBinOp(op) \/ isUnaryOp(op)
ASSUME VarTypesAssumption == VarTypes \subseteq VarTokens
ASSUME BoundsAssumption == MaxNodes \in Nat /\ MaxArgs \in Nat \ {0}

VARIABLES symTab,      \* _symTab and its ancestors
          visiting,    \* the visits in progress
          fnIdx        \* the function being visited in the Program loop

(* What a visit keeps: what it was called on, the prototype it looked up,  *)
(* the operands already visited; for a block whether a return of its own   *)
(* statement list is done, the kind of the last statement, and the depth   *)
(* of the chain when its scope was entered (a history variable).           *)
Frame(k, x, op, proto, base) ==
    [k |-> k, x |-> x, op |-> op, proto |-> proto, kids |-> <<>>,
     ret |-> FALSE, last |-> "none", base |-> base]

Top   == Last(visiting)
Below == Front(visiting)

Arity(f) ==
    CASE f.k = "ternary"                 -> 3
      [] f.k \in {"binop", "elemassign",
                  "forhdr"}              -> 2
      [] f.k = "call"                    -> Len(fns[f.proto].params)
      [] f.k = "abort"                   -> MaxArgs
      [] OTHER                           -> 1

Res(i) == ast[i].res

(* The check a visit makes on an operand's type as soon as it returns.     *)
Accepts(f, ty) ==
    LET n == Len(f.kids) IN
    CASE f.k \in {"print", "abort"}        -> ty \in {"Literal_string", "Type_int"}
      [] f.k \in {"ifcond", "whilecond"}   -> ty = "Type_bool"
      [] f.k \in {"arraydecl", "elemaddr",
                  "elemassign", "elem"}    -> ty = "Type_int"
      [] f.k \in {"forhdr", "sizeof"}      -> ty = "Type_array"
      [] f.k = "ternary" /\ n = 0          -> ty = "Type_bool"
      [] f.k = "ternary" /\ n = 2          -> ty = Res(f.kids[2])
      [] f.k = "binop" /\ n = 1            -> BinopResult(f.op, Res(f.kids[1]), ty) # "Err"
      [] f.k = "unary"                     -> ty = UnaryOperand(f.op)
      [] f.k = "call"                      -> ty = fns[f.proto].params[n + 1].type
      [] f.k = "assign"                    -> ty = f.op
      [] f.k = "return"                    -> ty = fns[f.proto].type
      [] OTHER                             -> TRUE

(* CodegenVisitor reaches what is visited under vs.                        *)
Hidden == {"abort", "sizeof", "forhdr"}
IsLive(vs) == \A j \in 1..Len(vs) : ~vs[j].ret /\ vs[j].k \notin Hidden

Room == Len(ast) + Len(visiting) < MaxNodes

AtStmt(k) ==
    /\ phase = "typecheck" /\ k \in Kinds
    /\ visiting # <<>> /\ Top.k \in BlockKinds /\ Room

AtExpr(k) ==
    /\ phase = "typecheck" /\ k \in Kinds /\ visiting # <<>>
    /\ IF Top.k \in BlockKinds THEN Room /\ "exprstmt" \in Kinds
       ELSE Len(Top.kids) < Arity(Top)

Visited(k) ==
    /\ phase = "typecheck" /\ visiting # <<>>
    /\ Top.k = k /\ Len(Top.kids) = Arity(Top)

(* The frames once a statement or expression k of the block on top starts. *)
Noted(vs, k) ==
    IF vs[Len(vs)].k \in BlockKinds THEN [vs EXCEPT ![Len(vs)].last = k] ELSE vs

(* A node's visit does its work: under the visits vs, leaving the chain st.*)
Record(k, x, op, kids, res, vs, st) ==
    /\ ast' = Append(ast, Node(k, x, op, kids, res, IsLive(vs)))
    /\ symTab' = st
    /\ trail' = Append(trail, st)

Stop(how) ==
    /\ phase' = how
    /\ UNCHANGED <<fns, ast, trail, symTab, visiting, fnIdx>>

Reject == Stop("rejected")

(* accept() is called on a child that has operands of its own.             *)
Visit(k, x, op, proto) ==
    /\ visiting' = Append(Noted(visiting, k), Frame(k, x, op, proto, 0))
    /\ UNCHANGED <<phase, fns, ast, trail, symTab, fnIdx>>

(* An expression's visit returns to the visit below it, which checks the   *)
(* type; an expression that is a statement goes to a block, unchecked.     *)
Deliver(vs, k, x, op, kids, ty) ==
    /\ Record(k, x, op, kids, ty, vs, symTab)
    /\ visiting' = IF Last(vs).k \in BlockKinds THEN Noted(vs, k)
                   ELSE [vs EXCEPT ![Len(vs)].kids = Append(@, Len(ast) + 1)]
    /\ phase' = IF Accepts(Last(vs), ty) THEN phase ELSE "rejected"
    /\ UNCHANGED <<fns, fnIdx>>

-----------------------------------------------------------------------------
(* visit(Program): the first pass, and the loop over the functions.        *)

TypecheckerInit ==
    /\ fns \in Protos
    /\ ast = <<>>
    /\ trail = <<>>
    /\ phase = "declare"
    /\ symTab = <<EmptyTable>>
    /\ visiting = <<>>
    /\ fnIdx = 0

Redefined  == \E i, j \in 1..Len(fns) : i < j /\ fns[i].name = fns[j].name
FnTable    == [n \in Keys |->
                 IF \E i \in 1..Len(fns) : fns[i].name = n
                 THEN FnInfo(CHOOSE i \in 1..Len(fns) : fns[i].name = n)
                 ELSE NoSym]

DeclareFunctions ==
    /\ phase = "declare"
    /\ IF Redefined \/ ~IsSym(FnTable[Main]) THEN Reject
       ELSE /\ symTab' = <<FnTable>>
            /\ trail' = <<symTab'>>
            /\ phase' = "typecheck"
            /\ UNCHANGED <<fns, ast, visiting, fnIdx>>

(* The scope of the "lilfn_ " key, the scope of the parameters, and that   *)
(* of the body; addSymbol refuses a parameter already on the chain.        *)
Repeated(ps)   == \E i, j \in 1..Len(ps) : i < j /\ ps[i].name = ps[j].name
ParamTable(ps) == [n \in Keys |->
                     IF IsParam(ps, n)
                     THEN VarInfo(ps[ParamAt(ps, n)].type,
                                  ParamDecl(Len(ast) + 1, ParamAt(ps, n)))
                     ELSE NoSym]
MarkerTable(i) == [EmptyTable EXCEPT ![FnMarker] = FnInfo(i)]

EnterFunction ==
    LET i  == fnIdx + 1
        ps == fns[i].params
    IN  /\ phase = "typecheck" /\ visiting = <<>> /\ fnIdx < Len(fns)
        /\ IF Repeated(ps) \/ \E j \in 1..Len(ps) : ~CanAdd(symTab, ps[j].name)
           THEN Reject
           ELSE /\ Record("fn", fns[i].name, "none", <<i>>, "none", <<>>,
                          symTab \o <<MarkerTable(i), ParamTable(ps), EmptyTable>>)
                /\ visiting' = <<Frame("body", NoName, "none", i, Len(symTab'))>>
                /\ fnIdx' = i
                /\ UNCHANGED <<phase, fns>>

(* The body ends.  stmt_list.back() of an empty list is only dereferenced  *)
(* for a non-void function, where it reads outside the vector.             *)
LeaveFunction ==
    LET nonVoid == fns[fnIdx].type # "Type_void" IN
    /\ phase = "typecheck" /\ visiting # <<>> /\ Top.k = "body"
    /\ CASE nonVoid /\ Top.last = "none"                   -> Stop("crash")
         [] nonVoid /\ Top.last \notin {"abort", "return",
                                        "none"}            -> Reject
         [] OTHER ->
              /\ Record("end", NoName, "body", <<>>, "none", Below, LeaveScopes(symTab, 3))
              /\ visiting' = Below
              /\ UNCHANGED <<phase, fns, fnIdx>>

FinishTypecheck ==
    /\ phase = "typecheck" /\ visiting = <<>> /\ fnIdx = Len(fns)
    /\ phase' = "codegen"
    /\ UNCHANGED <<fns, ast, trail, symTab, visiting, fnIdx>>

-----------------------------------------------------------------------------
(* Blocks.  EnterBlock is the accept() of a StmtBlockStmt: the chain st    *)
(* plus a new scope, its frame above vs.                                   *)

EnterBlock(vs, node, block, x, op, kids, st) ==
    /\ Record(node, x, op, kids, "none", vs, EnterScope(st))
    /\ visiting' = Append(vs, Frame(block, x, op, 0, Len(st) + 1))
    /\ UNCHANGED <<phase, fns, fnIdx>>

VisitStmtBlock ==
    /\ AtStmt("bare")
    /\ EnterBlock(Noted(visiting, "bare"), "bare", "bare", NoName, "none", <<>>, symTab)

(* A block ends: LeaveScope, and for a `for' that of the ForStmt as well.  *)
(* The true part of an if with an else gives way to the else part.         *)
LeaveStmtBlock ==
    /\ phase = "typecheck" /\ visiting # <<>>
    /\ \/ /\ Top.k \in BlockKinds \ {"body"} /\ Top.op # "else"
          /\ Record("end", NoName, Top.k, <<>>, "none", Below,
                    LeaveScopes(symTab, IF Top.k = "for" THEN 2 ELSE 1))
          /\ visiting' = Below
          /\ UNCHANGED <<phase, fns, fnIdx>>
       \/ /\ Top.k = "then" /\ Top.op = "else"
          /\ EnterBlock(Below, "else", "else", NoName, "none", <<>>, LeaveScope(symTab))

VisitIf == AtStmt("if") /\ \E op \in {"else", "none"} : Visit("ifcond", NoName, op, 0)

EnterThen ==
    /\ Visited("ifcond")
    /\ EnterBlock(Below, "if", "then", NoName, Top.op, Top.kids, symTab)

(* The node comes before the condition: code generation opens the loop     *)
(* header there.                                                           *)
VisitWhile ==
    /\ AtStmt("while")
    /\ Record("while", NoName, "none", <<>>, "none", visiting, symTab)
    /\ visiting' = Append(Noted(visiting, "while"), Frame("whilecond", NoName, "none", 0, 0))
    /\ UNCHANGED <<phase, fns, fnIdx>>

EnterWhileBody ==
    /\ Visited("whilecond")
    /\ EnterBlock(Below, "whilebody", "while", NoName, "none", Top.kids, symTab)

(* A for statement's own scope holds its identifier; NoName stands for an  *)
(* expression before the colon that is no IdExpr.                          *)
VisitFor ==
    /\ AtStmt("for")
    /\ \E x \in Names \cup {NoName} :
         IF x = NoName \/ ~CanAdd(symTab, x) THEN Reject
         ELSE /\ Record("forvar", x, "none", <<>>, "Type_int", visiting,
                        Add(EnterScope(symTab), x, VarInfo("Type_int", DeclAt(Len(ast) + 1))))
              /\ visiting' = Append(Noted(visiting, "for"),
                                    [Frame("forhdr", x, "none", 0, 0) EXCEPT
                                       !.kids = <<Len(ast) + 1>>])
              /\ UNCHANGED <<phase, fns, fnIdx>>

(* The name of the operand i when it is an IdExpr.                         *)
IdName(i) == IF ast[i].k = "id" THEN ast[i].x ELSE NoName

EnterForBody ==
    /\ Visited("forhdr")
    /\ EnterBlock(Below, "for", "for", IdName(Top.kids[2]), "none", Top.kids, symTab)

-----------------------------------------------------------------------------
(* Simple statements.  Finish ends one whose operands are all checked.     *)

Finish(k, x, op, kids, ty, st) ==
    /\ Record(k, x, op, kids, ty, Below, st)
    /\ visiting' = Below
    /\ UNCHANGED <<phase, fns, fnIdx>>

VisitVarDecl ==
    /\ AtStmt("vardecl")
    /\ \E x \in Names, type \in VarTypes :
         IF ~CanAdd(symTab, x) THEN Reject
         ELSE /\ Record("vardecl", x, "none", <<>>, type, visiting,
                        Add(symTab, x, VarInfo(type, DeclAt(Len(ast) + 1))))
              /\ visiting' = Noted(visiting, "vardecl")
              /\ UNCHANGED <<phase, fns, fnIdx>>

VisitArrayDecl == AtStmt("arraydecl") /\ \E x \in Names : Visit("arraydecl", x, "none", 0)

(* The name is entered after the size expression is checked.               *)
FinishArrayDecl ==
    /\ Visited("arraydecl")
    /\ IF ~CanAdd(symTab, Top.x) THEN Reject
       ELSE Finish("arraydecl", Top.x, "none", Top.kids, "Type_array",
                   Add(symTab, Top.x, VarInfo("Type_array", DeclAt(Len(ast) + 1))))

VisitPrint  == AtStmt("print") /\ Visit("print", NoName, "none", 0)
FinishPrint == Visited("print") /\ Finish("print", NoName, "none", Top.kids, "none", symTab)

(* An abort has any number of arguments, but at least one.                 *)
VisitAbort  == AtStmt("abort") /\ Visit("abort", NoName, "none", 0)
FinishAbort ==
    /\ phase = "typecheck" /\ visiting # <<>>
    /\ Top.k = "abort" /\ Top.kids # <<>>
    /\ Finish("abort", NoName, "none", Top.kids, "none", symTab)

(* Once a return is done the rest of its block is out of codegen's reach.  *)
Returned(vs) == [vs EXCEPT ![Len(vs)].ret = TRUE]

VisitReturn ==
    LET m == getEnclosingFnProto(symTab) IN
    /\ AtStmt("return")
    /\ \/ m = 0 /\ Stop("assertFnProto")
       \/ m # 0 /\ Visit("return", NoName, "none", m)
       \/ /\ m # 0
          /\ IF fns[m].type # "Type_void" THEN Reject
             ELSE /\ Record("return", NoName, "none", <<>>, "none", visiting, symTab)
                  /\ visiting' = Returned(Noted(visiting, "return"))
                  /\ UNCHANGED <<phase, fns, fnIdx>>

FinishReturn ==
    /\ Visited("return")
    /\ Record("return", NoName, "none", Top.kids, "none", Below, symTab)
    /\ visiting' = Returned(Below)
    /\ UNCHANGED <<phase, fns, fnIdx>>

VisitVarAssignment ==
    /\ AtStmt("assign")
    /\ \E x \in Names :
         IF ~Declares(symTab, x) THEN Reject
         ELSE Visit("assign", x, SymbolToTokenType(hasSymbol(symTab, x).type), 0)

FinishVarAssignment ==
    Visited("assign") /\ Finish("assign", Top.x, "none", Top.kids, "none", symTab)

(* Mutated form of VisitArrayAssignment: the name need only be declared.   *)
VisitAnyAssignment ==
    /\ AtStmt("elemassign")
    /\ \E x \in Names :
         IF ~Declares(symTab, x) THEN Reject ELSE Visit("elemaddr", x, "none", 0)

(* x[idx] := e.  Code generation does its bounds check between the two.    *)
VisitArrayAssignment ==
    /\ AtStmt("elemassign")
    /\ \E x \in Names :
         IF hasSymbol(symTab, x).type # "Array" THEN Reject
         ELSE Visit("elemaddr", x, "none", 0)

VisitArrayAssignmentRhs ==
    /\ Visited("elemaddr")
    /\ Record("elemaddr", Top.x, "none", Top.kids, "none", Below, symTab)
    /\ visiting' = Append(Below, [Top EXCEPT !.k = "elemassign"])
    /\ UNCHANGED <<phase, fns, fnIdx>>

FinishArrayAssignment ==
    Visited("elemassign") /\ Finish("elemassign", Top.x, "none", Top.kids, "none", symTab)

-----------------------------------------------------------------------------
(* Expressions.                                                            *)

Leaf(k, x, ty) == AtExpr(k) /\ Deliver(visiting, k, x, "none", <<>>, ty)

VisitTrueFalse == Leaf("bool", NoName, "Type_bool")
VisitNum       == Leaf("num", NoName, "Type_int")
VisitInput     == Leaf("input", NoName, "Type_int")

(* The parser builds string literals only as print and abort arguments.    *)
VisitStringLiteral ==
    /\ visiting # <<>> /\ Top.k \in {"print", "abort"}
    /\ Leaf("string", NoName, "Literal_string")

(* createValue asserts when the symbol is a function.                      *)
VisitId ==
    /\ AtExpr("id")
    /\ \E x \in Names :
         LET type == SymbolToTokenType(hasSymbol(symTab, x).type) IN
         IF ~Declares(symTab, x) THEN Reject
         ELSE IF ~CreatableValue(type) THEN Stop("assertValue")
         ELSE Deliver(visiting, "id", x, "none", <<>>, type)

VisitTernary == AtExpr("ternary") /\ Room /\ Visit("ternary", NoName, "none", 0)
VisitBinop   == /\ AtExpr("binop") /\ Room
                /\ \E op \in Ops : isBinOp(op) /\ Visit("binop", NoName, op, 0)
VisitUnary   == /\ AtExpr("unary") /\ Room
                /\ \E op \in Ops : isUnaryOp(op) /\ Visit("unary", NoName, op, 0)
VisitSizeof  == AtExpr("sizeof") /\ Room /\ Visit("sizeof", NoName, "none", 0)

(* The name before the bracket is not looked up.                           *)
VisitArrayExpr == AtExpr("elem") /\ Room /\ \E x \in Names : Visit("elem", x, "none", 0)

FinishTernary == Visited("ternary") /\ Deliver(Below, "ternary", NoName, "none", Top.kids,
                                               Res(Top.kids[2]))
FinishBinop   == Visited("binop") /\ Deliver(Below, "binop", NoName, Top.op, Top.kids,
                                             BinopResult(Top.op, Res(Top.kids[1]),
                                                         Res(Top.kids[2])))
FinishUnary   == Visited("unary") /\ Deliver(Below, "unary", NoName, Top.op, Top.kids,
                                             Res(Top.kids[1]))
FinishSizeof  == Visited("sizeof") /\ Deliver(Below, "sizeof", IdName(Top.kids[1]), "none",
                                              Top.kids, "Type_int")
FinishArrayExpr == Visited("elem") /\ Deliver(Below, "elem", Top.x, "none", Top.kids,
                                              "Type_int")

(* The callee is found anywhere on the chain, then taken from its top; the *)
(* parser gives a call any number of arguments.                            *)
VisitFnCall ==
    /\ AtExpr("call") /\ Room
    /\ \E x \in Names :
         LET proto == getFnProto(symTab, x) IN
         IF ~Declares(symTab, x) \/ proto = 0 THEN Reject
         ELSE \/ Reject       \* the number of arguments differs
              \/ Visit("call", x, "none", proto)

FinishFnCall ==
    Visited("call") /\ Deliver(Below, "call", Top.x, "none", Top.kids, fns[Top.proto].type)

-----------------------------------------------------------------------------
TypecheckProgram  == DeclareFunctions \/ EnterFunction \/ LeaveFunction \/ FinishTypecheck
TypecheckBlock    == \/ VisitStmtBlock \/ LeaveStmtBlock \/ VisitIf \/ EnterThen
                     \/ VisitWhile \/ EnterWhileBody \/ VisitFor \/ EnterForBody
TypecheckStmt     == \/ VisitVarDecl \/ VisitArrayDecl \/ FinishArrayDecl
                     \/ VisitPrint \/ FinishPrint \/ VisitAbort \/ FinishAbort
                     \/ VisitReturn \/ FinishReturn
                     \/ VisitVarAssignment \/ FinishVarAssignment
                     \/ VisitArrayAssignment \/ VisitArrayAssignmentRhs
                     \/ FinishArrayAssignment
TypecheckLeaf     == VisitTrueFalse \/ VisitNum \/ VisitInput \/ VisitStringLiteral \/ VisitId
TypecheckCompound == \/ VisitTernary \/ FinishTernary \/ VisitBinop \/ FinishBinop
                     \/ VisitUnary \/ FinishUnary \/ VisitSizeof \/ FinishSizeof
                     \/ VisitArrayExpr \/ FinishArrayExpr \/ VisitFnCall \/ FinishFnCall

TypecheckerNext == \/ TypecheckProgram \/ TypecheckBlock \/ TypecheckStmt
                   \/ TypecheckLeaf \/ TypecheckCompound
=============================================================================
