--------------------------- MODULE CompilerProofs ---------------------------
(***************************************************************************)
(* The theorems about the compiler: IndInv is inductive, so its variables  *)
(* keep their types, no declaration shadows another, every scope entered   *)
(* is left, and where code generation looks a name up it finds the alloca  *)
(* of the declaration the typechecker resolved the name to.  With          *)
(* MarkerInv, a return finds the function it is in; with ValueInv, the     *)
(* value made of an expression has the type the typechecker found for it.  *)
(*                                                                         *)
(* TypecheckProofs has the typechecker's actions.  Every action of the     *)
(* code generator, which come first here, keeps what the typechecker has   *)
(* established, its own typing, and the agreement of its one map with the  *)
(* chain of scopes before the next node (AgreeInv): it either ends the     *)
(* run, or passes one node, and then it binds nothing, or what the node    *)
(* declares.  Last, what a step of it does to the basic blocks, and to the *)
(* saves with which each is entered (FlowAt), for ArrayProofs.             *)
(***************************************************************************)
EXTENDS TypecheckProofs, Flow, FiniteSetTheorems

AllocaInfo == [decl : Nat \X Nat, ty : LLVMTypes \cup {"none"}]
Namings    == [Names -> AllocaInfo]

(* The code generator's part of TypeOK, and what it adds to be inductive.  *)
CgTyped ==
    /\ phase \in Phases
    /\ pc \in 1..(Len(ast) + 1)
    /\ func \in 0..Len(fns)
    /\ named \in Namings
    /\ Len(val) = pc - 1 /\ \E S : val \in Seq(S)
    /\ err \in BOOLEAN
    /\ phase \in {"declare", "typecheck"} => func = 0

(* The inductive invariant of the specification.                           *)
IndInv == Good /\ CgTyped /\ AgreeInv

(* A step of the code generator leaves the program and the chain alone.    *)
Rest == UNCHANGED <<shared, tcVars>>

LEMMA LLVMTypeType ==
    ASSUME NEW type \in TypeTokens
    PROVE  /\ CreateLLVMType(type) \in LLVMTypes
           /\ SymbolToTokenType(TokenToSymbolType(type)) = type
  BY DEF CreateLLVMType, IntN, LLVMTypes, TypeTokens, SymbolToTokenType, TokenToSymbolType

(* The node that is next, while there is one.                              *)
LEMMA NodeHere ==
    ASSUME IndInv, phase = "codegen", pc <= Len(ast)
    PROVE  /\ pc \in 1..Len(ast) /\ pc \in Nat /\ node \in Nodes
           /\ Len(trail) = Len(ast) + 1
           /\ trail[pc] \in Chains /\ trail[pc + 1] \in Chains
           /\ Sourced(pc) /\ Fresh(pc)
  <1>1. ast \in Seq(Nodes) /\ trail \in Seq(Chains) /\ Len(ast) \in Nat
    BY LenProperties DEF IndInv, Good, TcGood, TcTyped
  <1>2. pc \in 1..Len(ast) BY <1>1 DEF IndInv, CgTyped
  <1>3. Len(trail) = Len(ast) + 1 BY DEF IndInv, Good, ScopeInv, TrailInv
  <1>4. pc \in 1..Len(trail) /\ pc + 1 \in 1..Len(trail) BY <1>1, <1>2, <1>3
  <1>5. trail[pc] \in Chains /\ trail[pc + 1] \in Chains BY <1>1, <1>4, ElementOfSeq
  <1>6. node \in Nodes BY <1>1, <1>2, ElementOfSeq DEF node
  <1>7. Sourced(pc) /\ Fresh(pc) BY <1>2 DEF IndInv, Good, ScopeInv, LinkInv
  <1> QED BY <1>1, <1>2, <1>3, <1>5, <1>6, <1>7

-----------------------------------------------------------------------------
(* The forms of a step.                                                    *)

(* The run ends.                                                           *)
LEMMA HaltGood ==
    ASSUME IndInv, NEW how \in Endings, Halt(how), Rest
    PROVE  IndInv'
  <1>1. how \in Phases /\ how \notin {"declare", "typecheck", "codegen"}
    BY DEF Endings, Phases
  <1>2. Stop(how) BY DEF Halt, Stop, Rest, shared, tcVars
  <1>3. Good' BY <1>2, StopScope DEF IndInv
  <1>4. /\ phase' = how /\ ast' = ast /\ fns' = fns
        /\ pc' = pc /\ func' = func /\ named' = named /\ val' = val /\ err' = err
    BY DEF Halt, cgVars, Rest, shared
  <1>5. CgTyped' BY <1>1, <1>4 DEF IndInv, CgTyped
  <1>6. AgreeInv' BY <1>1, <1>4 DEF AgreeInv
  <1> QED BY <1>3, <1>5, <1>6 DEF IndInv

(* Nothing of the typechecker's changes.                                   *)
LEMMA GoodUnchanged ==
    ASSUME Good, phase' = phase, Rest
    PROVE  Good'
  <1>0. /\ phase' = phase /\ fns' = fns /\ ast' = ast /\ trail' = trail
        /\ symTab' = symTab /\ visiting' = visiting /\ fnIdx' = fnIdx
    BY DEF Rest, shared, tcVars
  <1>1. TcGood' BY <1>0
    DEF Good, TcGood, TcTyped, FrameInv, ProtoInv
  <1>2. StackInv' /\ DepthInv' BY <1>0
    DEF Good, ScopeInv, StackInv, DepthInv, Innermost, InHeader
  <1>3. TrailInv'
    <2>1. TrailInv BY DEF Good, ScopeInv
    <2> QED BY <1>0, <2>1 DEF TrailInv, FnTable
  <1>4. NoShadowing' /\ TrailUnshadowed' /\ LinkInv' /\ DeclaredInv' /\ LookupInv'
    BY <1>0, TrailSame DEF Good
  <1>5. DeadInv' BY <1>0 DEF Good, ScopeInv, DeadInv, LiveSym
  <1> QED BY <1>1, <1>2, <1>3, <1>4, <1>5 DEF Good, ScopeInv

(* One node is passed.                                                     *)
LEMMA YieldGood ==
    ASSUME IndInv, phase = "codegen", pc <= Len(ast), NEW ty, Yield(ty),
           phase' = phase, Rest,
           func' \in 0..Len(fns), named' \in Namings, err' \in BOOLEAN,
           \A L \in 1..Len(trail[pc + 1]) : \A x \in Names :
               LET s == trail[pc + 1][L][x] IN
               IsVar(s) /\ LiveSym(s) =>
                   named'[x] = AllocaOf(s.decl, CreateLLVMType(SymbolToTokenType(s.type)))
    PROVE  IndInv'
  <1>1. /\ phase' = phase /\ fns' = fns /\ ast' = ast /\ trail' = trail
        /\ symTab' = symTab /\ visiting' = visiting /\ fnIdx' = fnIdx
        /\ pc' = pc + 1 /\ val' = Append(val, ty)
    BY DEF Yield, Rest, shared, tcVars
  <1>2. Good' BY GoodUnchanged DEF IndInv
  <1>3. pc \in 1..Len(ast) /\ pc \in Nat /\ Len(ast) \in Nat
    BY NodeHere, LenProperties DEF IndInv, Good, TcGood, TcTyped
  <1>4. Len(val') = pc' - 1 /\ \E S : val' \in Seq(S)
    <2>1. PICK S : val \in Seq(S) /\ Len(val) = pc - 1 BY DEF IndInv, CgTyped
    <2>2. S \subseteq S \cup {ty} /\ ty \in S \cup {ty} OBVIOUS
    <2>3. val \in Seq(S \cup {ty}) BY <2>1, <2>2, SeqMonotonic
    <2>4. /\ Append(val, ty) \in Seq(S \cup {ty})
          /\ Len(Append(val, ty)) = Len(val) + 1
      BY <2>2, <2>3, PushLemma
    <2> QED BY <1>1, <1>3, <2>1, <2>4
  <1>5. CgTyped'
    <2>1. pc' \in 1..(Len(ast') + 1) BY <1>1, <1>3
    <2>2. func' \in 0..Len(fns') BY <1>1
    <2>3. phase' \in Phases /\ phase' \notin {"declare", "typecheck"}
      BY <1>1 DEF IndInv, CgTyped
    <2> QED BY <1>1, <1>4, <2>1, <2>2, <2>3 DEF CgTyped
  <1>6. AgreeInv' BY <1>1 DEF AgreeInv, LiveSym
  <1> QED BY <1>2, <1>5, <1>6 DEF IndInv

(* The node declares nothing that is live, and the map stays as it is.     *)
Undeclaring == ~node.live \/ node.k \notin DeclKinds \cup {"fn"}

LEMMA QuietYieldGood ==
    ASSUME IndInv, phase = "codegen", pc <= Len(ast), NEW ty, Yield(ty),
           Undeclaring, phase' = phase, Rest, func' = func, named' = named,
           err' \in BOOLEAN
    PROVE  IndInv'
  <1>1. /\ pc \in 1..Len(ast) /\ trail[pc] \in Chains /\ trail[pc + 1] \in Chains
        /\ Sourced(pc) /\ Fresh(pc)
    BY NodeHere
  <1>2. ASSUME NEW L \in 1..Len(trail[pc + 1]), NEW x \in Names, NEW s,
               s = trail[pc + 1][L][x], IsVar(s), LiveSym(s)
        PROVE  named'[x] = AllocaOf(s.decl, CreateLLVMType(SymbolToTokenType(s.type)))
    <2>1. ~(ast[pc].k \in DeclKinds /\ s = VarInfo(ast[pc].res, DeclAt(pc)))
      BY <1>2 DEF LiveSym, VarInfo, DeclAt, Undeclaring, node
    <2>2. ast[pc].k # "fn" BY <1>1 DEF Fresh, Undeclaring, node
    <2>3. L <= Len(trail[pc]) /\ s = trail[pc][L][x]
      BY <1>1, <1>2, <2>1, <2>2 DEF Sourced
    <2>4. L \in 1..Len(trail[pc])
      <3>1. Len(trail[pc]) \in Nat /\ Len(trail[pc + 1]) \in Nat
        BY <1>1, LenProperties DEF Chains
      <3> QED BY <2>3, <3>1
    <2> QED BY <1>2, <2>3, <2>4 DEF IndInv, AgreeInv
  <1>3. func' \in 0..Len(fns) /\ named' \in Namings BY DEF IndInv, CgTyped
  <1> QED BY <1>2, <1>3, YieldGood

(* The node is a declaration, and its name is bound to its alloca.         *)
LEMMA BindGood ==
    ASSUME IndInv, phase = "codegen", pc <= Len(ast), NEW ty, Yield(ty),
           node.k \in DeclKinds,
           Bind(node.x, AllocaOf(DeclAt(pc), CreateLLVMType(node.res))),
           phase' = phase, Rest, func' = func, err' \in BOOLEAN
    PROVE  IndInv'
  <1> DEFINE a == AllocaOf(DeclAt(pc), CreateLLVMType(node.res))
  <1>1. /\ pc \in 1..Len(ast) /\ pc \in Nat
        /\ trail[pc] \in Chains /\ trail[pc + 1] \in Chains
        /\ Sourced(pc) /\ Fresh(pc)
    BY NodeHere
  <1>2. /\ node.x \in Names /\ node.res \in TypeTokens
        /\ \A L \in 1..Len(trail[pc]) : ~IsSym(trail[pc][L][node.x])
    BY <1>1 DEF Fresh, node
  <1>3. a \in AllocaInfo /\ a = AllocaOf(DeclAt(pc), CreateLLVMType(node.res))
    BY <1>1, <1>2, LLVMTypeType DEF AllocaOf, AllocaInfo, DeclAt
  <1>4. named \in Namings /\ named' = [named EXCEPT ![node.x] = a]
    BY DEF IndInv, CgTyped, Bind
  <1> HIDE DEF a
  <1>5. /\ named' \in Namings
        /\ \A x \in Names : named'[x] = IF x = node.x THEN a ELSE named[x]
    BY <1>2, <1>3, <1>4 DEF Namings
  <1>6. ASSUME NEW L \in 1..Len(trail[pc + 1]), NEW x \in Names, NEW s,
               s = trail[pc + 1][L][x], IsVar(s), LiveSym(s)
        PROVE  named'[x] = AllocaOf(s.decl, CreateLLVMType(SymbolToTokenType(s.type)))
    <2>1. CASE L <= Len(trail[pc]) /\ s = trail[pc][L][x]
      <3>1. L \in 1..Len(trail[pc])
        <4>1. Len(trail[pc]) \in Nat /\ Len(trail[pc + 1]) \in Nat
          BY <1>1, LenProperties DEF Chains
        <4> QED BY <2>1, <4>1
      <3>2. x # node.x BY <1>2, <1>6, <2>1, <3>1 DEF IsVar
      <3>3. named'[x] = named[x] BY <1>5, <3>2
      <3> QED BY <1>6, <2>1, <3>1, <3>3 DEF IndInv, AgreeInv
    <2>2. CASE x = node.x /\ s = VarInfo(node.res, DeclAt(pc))
      <3>1. s.decl = DeclAt(pc) /\ s.type = TokenToSymbolType(node.res)
        BY <2>2 DEF VarInfo
      <3>2. SymbolToTokenType(s.type) = node.res BY <1>2, <3>1, LLVMTypeType
      <3> QED BY <1>3, <1>5, <2>2, <3>1, <3>2
    <2>3. node.k # "fn" BY DEF DeclKinds
    <2>4. \/ L <= Len(trail[pc]) /\ s = trail[pc][L][x]
          \/ x = node.x /\ s = VarInfo(node.res, DeclAt(pc))
      BY <1>1, <1>6, <2>3 DEF Sourced, node
    <2> QED BY <2>1, <2>2, <2>4
  <1>7. func' \in 0..Len(fns) BY DEF IndInv, CgTyped
  <1> QED BY <1>5, <1>6, <1>7, YieldGood

(* The node is one of a kind that declares nothing.                        *)
Quiet == \E ty : Yield(ty) /\ phase' = phase /\ func' = func /\ named' = named
                /\ err' \in BOOLEAN

AtOther == \E k : At(k) /\ k \notin DeclKinds \cup {"fn"}

LEMMA PassGood ==
    ASSUME IndInv, AtOther, Quiet, Rest
    PROVE  IndInv'
  <1>1. /\ phase = "codegen" /\ pc <= Len(ast)
        /\ node.k \notin DeclKinds \cup {"fn"}
    BY DEF AtOther, At
  <1>2. Undeclaring BY <1>1 DEF Undeclaring
  <1>3. ASSUME NEW ty, Yield(ty), phase' = phase, func' = func, named' = named,
               err' \in BOOLEAN
        PROVE  IndInv'
    BY <1>1, <1>2, <1>3, QuietYieldGood
  <1> QED BY <1>3 DEF Quiet

LEMMA ErrType ==
    ASSUME IndInv, NEW bad
    PROVE  err \in BOOLEAN /\ (err \/ bad) \in BOOLEAN
  BY DEF IndInv, CgTyped

LEMMA StatementQuiet ==
    ASSUME IndInv, Statement
    PROVE  Quiet
  BY DEF IndInv, CgTyped, Statement, Quiet

LEMMA CloseScopeQuiet ==
    ASSUME IndInv, CloseScope
    PROVE  Quiet
  <1>1. Yield("none") /\ UNCHANGED <<phase, func, named>> /\ err' = (err \/ BadReturn)
    BY DEF CloseScope
  <1> QED BY <1>1, ErrType DEF Quiet

LEMMA ConstantQuiet ==
    ASSUME IndInv, NEW ty, Constant(ty)
    PROVE  Quiet
  BY DEF IndInv, CgTyped, Constant, Quiet

LEMMA ComputedQuiet ==
    ASSUME IndInv, NEW op, NEW bad, NEW ty, Computed(op, bad, ty)
    PROVE  Quiet
  <1>1. Yield(ty) /\ UNCHANGED <<phase, func, named>> /\ err' = (err \/ bad)
    BY DEF Computed
  <1> QED BY <1>1, ErrType DEF Quiet

LEMMA IndexingQuiet ==
    ASSUME IndInv, NEW x, NEW is, NEW ty, Indexing(x, is, ty)
    PROVE  Quiet \/ Halt("crash")
  <1>1. CASE /\ err' = (err \/ kid(1) # IntN(Width))
             /\ Yield(ty)
             /\ UNCHANGED <<phase, func, named, scopes, arrayDecls>>
    BY <1>1, ErrType DEF Quiet
  <1> QED BY <1>1 DEF Indexing

-----------------------------------------------------------------------------
(* The actions.                                                            *)

LEMMA BeginFunctionGood ==
    ASSUME IndInv, BeginFunction, Rest
    PROVE  IndInv'
  <1> DEFINE i  == node.kids[1]
             ps == fns[i].params
  <1>1. /\ phase = "codegen" /\ pc <= Len(ast) /\ node.k = "fn"
        /\ func' = i /\ named' = ParamAllocas(ps) /\ Yield("none") /\ phase' = phase
        /\ err' = (err \/ (ps # <<>> /\ BadLength))
    BY DEF BeginFunction, At
  <1>2. /\ pc \in 1..Len(ast) /\ pc \in Nat
        /\ trail[pc] \in Chains /\ trail[pc + 1] \in Chains
        /\ Sourced(pc) /\ Fresh(pc)
    BY <1>1, NodeHere
  <1>3. /\ i \in 1..Len(fns)
        /\ \A L \in 1..Len(trail[pc]) : \A x \in Names : ~IsVar(trail[pc][L][x])
    BY <1>1, <1>2 DEF Fresh, node
  <1>4. ps \in Seq(FnParam)
    <2>1. fns \in Seq(Prototype) BY ProtosAssumption DEF IndInv, Good, TcGood, TcTyped
    <2>2. fns[i] \in Prototype BY <1>3, <2>1, ElementOfSeq
    <2> QED BY <2>2 DEF Prototype
  <1>5. i = ast[pc].kids[1] /\ ps = fns[ast[pc].kids[1]].params BY DEF node
  <1> HIDE DEF i, ps
  <1>6. ASSUME NEW x \in Names, IsParam(ps, x)
        PROVE  ParamAt(ps, x) \in Nat /\ ps[ParamAt(ps, x)].type \in TypeTokens
    <2>1. ParamAt(ps, x) \in 1..Len(ps) BY <1>6 DEF IsParam, ParamAt
    <2>2. ps[ParamAt(ps, x)] \in FnParam BY <1>4, <2>1, ElementOfSeq
    <2>3. Len(ps) \in Nat BY <1>4, LenProperties
    <2> QED BY <2>1, <2>2, <2>3 DEF FnParam, ParamTokens
  <1>7. named' \in Namings
    <2>1. ASSUME NEW x \in Names, IsParam(ps, x)
          PROVE  AllocaOf(ParamDecl(pc, ParamAt(ps, x)),
                          CreateLLVMType(ps[ParamAt(ps, x)].type)) \in AllocaInfo
      BY <1>2, <1>6, <2>1, LLVMTypeType DEF AllocaOf, ParamDecl, AllocaInfo
    <2>2. NoAlloca \in AllocaInfo BY DEF NoAlloca, AllocaInfo
    <2> QED BY <1>1, <2>1, <2>2 DEF ParamAllocas, Namings
  <1>8. ASSUME NEW L \in 1..Len(trail[pc + 1]), NEW x \in Names, NEW s,
               s = trail[pc + 1][L][x], IsVar(s), LiveSym(s)
        PROVE  named'[x] = AllocaOf(s.decl, CreateLLVMType(SymbolToTokenType(s.type)))
    <2>1. ~(L <= Len(trail[pc]) /\ s = trail[pc][L][x])
      <3>1. Len(trail[pc]) \in Nat /\ Len(trail[pc + 1]) \in Nat
        BY <1>2, LenProperties DEF Chains
      <3> QED BY <1>3, <1>8, <3>1
    <2>2. ast[pc].k = "fn" /\ ast[pc].k \notin DeclKinds BY <1>1 DEF DeclKinds, node
    <2>3. IsParam(ps, x) /\ s = VarInfo(ps[ParamAt(ps, x)].type, ParamDecl(pc, ParamAt(ps, x)))
      BY <1>2, <1>5, <1>8, <2>1, <2>2 DEF Sourced
    <2>4. /\ s.decl = ParamDecl(pc, ParamAt(ps, x))
          /\ s.type = TokenToSymbolType(ps[ParamAt(ps, x)].type)
      BY <2>3 DEF VarInfo
    <2>5. SymbolToTokenType(s.type) = ps[ParamAt(ps, x)].type
      BY <1>6, <2>3, <2>4, LLVMTypeType
    <2> QED BY <1>1, <2>3, <2>4, <2>5 DEF ParamAllocas
  <1>9. func' \in 0..Len(fns)
    <2>1. Len(fns) \in Nat BY ProtosAssumption, LenProperties DEF IndInv, Good, TcGood, TcTyped
    <2> QED BY <1>1, <1>3, <2>1
  <1>10. err' \in BOOLEAN BY <1>1, ErrType
  <1> QED BY <1>1, <1>7, <1>8, <1>9, <1>10, YieldGood

LEMMA CodegenProgramGood ==
    ASSUME IndInv, CodegenProgram, Rest
    PROVE  IndInv'
  <1>1. CASE CreateFunctions
    BY <1>1, HaltGood DEF CreateFunctions, Endings
  <1>2. CASE BeginFunction BY <1>2, BeginFunctionGood
  <1>3. CASE EndFunction
    <2>1. At("end") /\ Yield("none") /\ UNCHANGED <<phase, func, named>>
          /\ err' = (err \/ ~Verified(Finished) \/ BadReturn)
      BY <1>3 DEF EndFunction
    <2>2. Quiet BY <2>1, ErrType DEF Quiet
    <2> QED BY <2>1, <2>2, PassGood DEF AtOther, DeclKinds
  <1>4. CASE EndProgram
    <2>1. Halt("failed") \/ Halt("OK") BY <1>4 DEF EndProgram
    <2> QED BY <2>1, HaltGood DEF Endings
  <1>5. CASE PassOver
    <2>1. /\ phase = "codegen" /\ pc <= Len(ast) /\ ~node.live /\ Yield("none")
          /\ UNCHANGED <<phase, func, named, scopes, arrayDecls, ir, err>>
      BY <1>5 DEF PassOver
    <2>2. err' \in BOOLEAN BY <2>1, ErrType
    <2>3. Undeclaring BY <2>1 DEF Undeclaring
    <2> QED BY <2>1, <2>2, <2>3, QuietYieldGood
  <1> QED BY <1>1, <1>2, <1>3, <1>4, <1>5 DEF CodegenProgram

LEMMA ForIdentGood ==
    ASSUME IndInv, ForIdent, Rest
    PROVE  IndInv'
  <1>1. /\ phase = "codegen" /\ pc <= Len(ast) /\ node.k = "forvar" /\ Yield("none")
        /\ Bind(node.x, AllocaOf(DeclAt(pc), CreateLLVMType("Type_int")))
        /\ UNCHANGED <<phase, func, scopes, arrayDecls, err>>
    BY DEF ForIdent, At
  <1>2. node.k \in DeclKinds /\ node.res = "Type_int"
    BY <1>1, NodeHere DEF Fresh, node, DeclKinds
  <1>3. err' \in BOOLEAN BY <1>1, ErrType
  <1> QED BY <1>1, <1>2, <1>3, BindGood

LEMMA CodegenBlockGood ==
    ASSUME IndInv, CodegenBlock, Rest
    PROVE  IndInv'
  <1>1. CASE ForIdent BY <1>1, ForIdentGood
  <1>2. CASE EnterBare \/ LeaveBare \/ If \/ Else \/ EndIf \/ While \/ WhileBody \/ EndLoop
    <2>1. \E k \in {"bare", "end", "if", "else", "while", "whilebody"} :
             At(k) /\ (Statement \/ CloseScope)
      BY <1>2 DEF EnterBare, LeaveBare, If, Else, EndIf, While, WhileBody, EndLoop
    <2>2. Quiet BY <2>1, StatementQuiet, CloseScopeQuiet
    <2> QED BY <2>1, <2>2, PassGood DEF AtOther, DeclKinds
  <1>3. CASE For
    <2>1. At("for") /\ (Halt("failed") \/ Halt("crash") \/ Statement) BY <1>3 DEF For
    <2> QED BY <2>1, HaltGood, StatementQuiet, PassGood DEF AtOther, DeclKinds, Endings
  <1> QED BY <1>1, <1>2, <1>3 DEF CodegenBlock

LEMMA CodegenStmtGood ==
    ASSUME IndInv, CodegenStmt, Rest
    PROVE  IndInv'
  <1>1. CASE VarDecl
    <2>1. /\ phase = "codegen" /\ pc <= Len(ast) /\ node.k = "vardecl" /\ Yield("none")
          /\ Bind(node.x, AllocaOf(DeclAt(pc), CreateLLVMType(node.res)))
          /\ UNCHANGED <<phase, func>> /\ err' = (err \/ BadAlloca(node.res))
      BY <1>1 DEF VarDecl, At
    <2> QED BY <2>1, ErrType, BindGood DEF DeclKinds
  <1>2. CASE ArrayDecl
    <2>1. /\ phase = "codegen" /\ pc <= Len(ast) /\ node.k = "arraydecl" /\ Yield("none")
          /\ Bind(node.x, AllocaOf(DeclAt(pc), "array"))
          /\ UNCHANGED <<phase, func>> /\ err' = (err \/ BadLength)
      BY <1>2 DEF ArrayDecl, At
    <2>2. node.k \in DeclKinds /\ node.res = "Type_array"
      BY <2>1, NodeHere DEF Fresh, node, DeclKinds
    <2>3. CreateLLVMType("Type_array") = "array" BY DEF CreateLLVMType
    <2> QED BY <2>1, <2>2, <2>3, ErrType, BindGood
  <1>3. CASE PrintArg
    <2>1. /\ At("print") /\ Yield("none") /\ UNCHANGED <<phase, func, named>>
          /\ err' = (err \/ (kid(1) # "i8*" /\ UpdateToIntWidth(kid(1), 64) # "i64"))
      BY <1>3 DEF PrintArg
    <2>2. Quiet BY <2>1, ErrType DEF Quiet
    <2> QED BY <2>1, <2>2, PassGood DEF AtOther, DeclKinds
  <1>4. CASE Abort
    BY <1>4, StatementQuiet, PassGood DEF Abort, AtOther, DeclKinds
  <1>5. CASE Return
    <2>1. /\ At("return") /\ (\E ty : Yield(ty))
          /\ UNCHANGED <<phase, func, named, arrayDecls, ir, err>>
      BY <1>5 DEF Return
    <2>2. Quiet BY <2>1, ErrType DEF Quiet
    <2> QED BY <2>1, <2>2, PassGood DEF AtOther, DeclKinds
  <1>6. CASE VarAssignment
    <2>1. CASE Halt("failed") BY <2>1, HaltGood DEF Endings
    <2>2. CASE ~Halt("failed")
      <3>1. /\ At("assign") /\ Yield("none") /\ UNCHANGED <<phase, func, named>>
            /\ err' = (err \/ kid(1) # named[node.x].ty)
        BY <1>6, <2>2 DEF VarAssignment
      <3>2. Quiet BY <3>1, ErrType DEF Quiet
      <3> QED BY <3>1, <3>2, PassGood DEF AtOther, DeclKinds
    <2> QED BY <2>1, <2>2
  <1>7. CASE ArrayAssignmentIndex
    BY <1>7, IndexingQuiet, HaltGood, PassGood DEF ArrayAssignmentIndex, AtOther, DeclKinds, Endings
  <1>8. CASE ArrayAssignment
    <2>1. /\ At("elemassign") /\ Yield("none") /\ UNCHANGED <<phase, func, named>>
          /\ err' = (err \/ kid(2) # IntN(Width))
      BY <1>8 DEF ArrayAssignment
    <2>2. Quiet BY <2>1, ErrType DEF Quiet
    <2> QED BY <2>1, <2>2, PassGood DEF AtOther, DeclKinds
  <1> QED BY <1>1, <1>2, <1>3, <1>4, <1>5, <1>6, <1>7, <1>8 DEF CodegenStmt

LEMMA CodegenExprGood ==
    ASSUME IndInv, CodegenExpr, Rest
    PROVE  IndInv'
  <1>1. CASE TrueFalse \/ Num \/ StringLiteral
    <2>1. \E k \in {"bool", "num", "string"} : At(k) /\ \E ty : Constant(ty)
      BY <1>1 DEF TrueFalse, Num, StringLiteral
    <2> QED BY <2>1, ConstantQuiet, PassGood DEF AtOther, DeclKinds
  <1>2. CASE Id
    <2>1. CASE Halt("failed") BY <2>1, HaltGood DEF Endings
    <2>2. CASE ~Halt("failed")
      <3>1. /\ At("id") /\ Yield(named[node.x].ty)
            /\ UNCHANGED <<phase, func, named, scopes, arrayDecls, err>>
        BY <1>2, <2>2 DEF Id
      <3>2. Quiet BY <3>1, ErrType DEF Quiet
      <3> QED BY <3>1, <3>2, PassGood DEF AtOther, DeclKinds
    <2> QED BY <2>1, <2>2
  <1>3. CASE Input \/ Ternary \/ Binop \/ Unary \/ FnCall
    <2>1. \E k \in {"input", "ternary", "binop", "unary", "call"} :
             At(k) /\ \E op, bad, ty : Computed(op, bad, ty)
      BY <1>3 DEF Input, Ternary, Binop, Unary, FnCall
    <2> QED BY <2>1, ComputedQuiet, PassGood DEF AtOther, DeclKinds
  <1>4. CASE Sizeof
    <2>1. CASE Halt("failed") \/ Halt("crash") BY <2>1, HaltGood DEF Endings
    <2>2. CASE ~(Halt("failed") \/ Halt("crash"))
      <3>1. /\ At("sizeof") /\ Yield(IntN(Width))
            /\ UNCHANGED <<phase, func, named, scopes, arrayDecls, err>>
        BY <1>4, <2>2 DEF Sizeof
      <3>2. Quiet BY <3>1, ErrType DEF Quiet
      <3> QED BY <3>1, <3>2, PassGood DEF AtOther, DeclKinds
    <2> QED BY <2>1, <2>2
  <1>5. CASE ArrayExpr
    <2>1. At("elem") /\ \E is : Indexing(node.x, is, IntN(Width))
      BY <1>5 DEF ArrayExpr
    <2>2. Quiet \/ Halt("crash") BY <2>1, IndexingQuiet
    <2> QED BY <2>1, <2>2, HaltGood, PassGood DEF AtOther, DeclKinds, Endings
  <1> QED BY <1>1, <1>2, <1>3, <1>4, <1>5 DEF CodegenExpr

-----------------------------------------------------------------------------
(* The two visitors together.                                              *)

(* A step of the typechecker that does not hand over to code generation.   *)
LEMMA TypecheckStepGood ==
    ASSUME IndInv, phase \in {"declare", "typecheck"}, Good', Kind, UNCHANGED cgVars
    PROVE  IndInv'
  <1>1. /\ pc' = pc /\ func' = func /\ named' = named /\ val' = val /\ err' = err
    BY DEF cgVars
  <1>2. pc = 1 /\ func = 0 BY DEF IndInv, CgTyped, AgreeInv
  <1>3. Len(ast') \in Nat /\ Len(fns') \in Nat
    BY ProtosAssumption, LenProperties DEF Good, TcGood, TcTyped
  <1>4. pc' \in 1..(Len(ast') + 1) /\ func' \in 0..Len(fns') BY <1>1, <1>2, <1>3
  <1>5. phase' \in Phases /\ phase' # "codegen" BY DEF Kind
  <1>6. CgTyped' BY <1>1, <1>2, <1>4, <1>5 DEF IndInv, CgTyped
  <1>7. AgreeInv' BY <1>1, <1>2, <1>5 DEF AgreeInv
  <1> QED BY <1>6, <1>7 DEF IndInv

(* The step that does: at the first node the chain holds functions only.   *)
LEMMA HandOver ==
    ASSUME IndInv, FinishTypecheck, UNCHANGED cgVars
    PROVE  IndInv'
  <1>1. Good' /\ phase' = "codegen" BY FinishTypecheckGood DEF IndInv
  <1>2. /\ phase = "typecheck" /\ ast' = ast /\ fns' = fns /\ trail' = trail
        /\ pc' = pc /\ func' = func /\ named' = named /\ val' = val /\ err' = err
    BY DEF FinishTypecheck, cgVars
  <1>3. pc = 1 /\ trail[1] = <<FnTable>> /\ fns \in Protos
    BY <1>2 DEF IndInv, AgreeInv, Good, TcGood, TcTyped, ScopeInv, TrailInv
  <1>4. CgTyped' BY <1>1, <1>2 DEF IndInv, CgTyped, Phases
  <1>5. ASSUME NEW L \in 1..Len(trail[1]), NEW x \in Names PROVE ~IsVar(trail[1][L][x])
    <2>1. \A n \in Names : ~IsVar(FnTable[n]) BY <1>3, FnTableType
    <2> DEFINE t == FnTable
    <2>2. trail[1] = <<t>> BY <1>3
    <2> HIDE DEF t
    <2>3. L = 1 /\ trail[1][L] = t BY <2>2, <1>5
    <2> QED BY <2>1, <2>3 DEF t
  <1>6. AgreeInv' BY <1>1, <1>2, <1>3, <1>5 DEF AgreeInv
  <1> QED BY <1>1, <1>4, <1>6 DEF IndInv

LEMMA TypecheckPhase ==
    ASSUME TypecheckerNext
    PROVE  phase \in {"declare", "typecheck"}
  <1>1. CASE TypecheckProgram
    BY <1>1 DEF TypecheckProgram, DeclareFunctions, EnterFunction, LeaveFunction,
                FinishTypecheck
  <1>2. CASE TypecheckBlock
    BY <1>2 DEF TypecheckBlock, VisitStmtBlock, LeaveStmtBlock, VisitIf, EnterThen,
                VisitWhile, EnterWhileBody, VisitFor, EnterForBody, AtStmt, Visited
  <1>3. CASE TypecheckStmt
    BY <1>3 DEF TypecheckStmt, VisitVarDecl, VisitArrayDecl, FinishArrayDecl, VisitPrint,
                FinishPrint, VisitAbort, FinishAbort, VisitReturn, FinishReturn,
                VisitVarAssignment, FinishVarAssignment, VisitArrayAssignment,
                VisitArrayAssignmentRhs, FinishArrayAssignment, AtStmt, Visited
  <1>4. CASE TypecheckLeaf
    BY <1>4 DEF TypecheckLeaf, VisitTrueFalse, VisitNum, VisitInput, VisitStringLiteral,
                VisitId, Leaf, AtExpr
  <1>5. CASE TypecheckCompound
    BY <1>5 DEF TypecheckCompound, VisitTernary, FinishTernary, VisitBinop, FinishBinop,
                VisitUnary, FinishUnary, VisitSizeof, FinishSizeof, VisitArrayExpr,
                FinishArrayExpr, VisitFnCall, FinishFnCall, AtExpr, Visited
  <1> QED BY <1>1, <1>2, <1>3, <1>4, <1>5 DEF TypecheckerNext

LEMMA InitInd ==
    ASSUME Init
    PROVE  IndInv
  <1>1. /\ fns \in Protos /\ ast = <<>> /\ trail = <<>> /\ phase = "declare"
        /\ symTab = <<EmptyTable>> /\ visiting = <<>> /\ fnIdx = 0
    BY DEF Init, TypecheckerInit
  <1>2. /\ pc = 1 /\ func = 0 /\ named = [n \in Names |-> NoAlloca] /\ val = <<>>
        /\ err = FALSE
    BY DEF Init, CodegenInit
  <1> DEFINE t == EmptyTable
  <1>3. /\ symTab = <<t>> /\ t \in Tables /\ \A n \in Keys : t[n] = NoSym
    BY <1>1, EmptyTableType
  <1> HIDE DEF t
  <1>4. /\ Len(symTab) = 1 /\ symTab[1] = t /\ symTab \in Chains
        /\ \A L \in 1..Len(symTab) : L = 1
    BY <1>3 DEF Chains, Tables
  <1>5. Len(ast) = 0 /\ Len(trail) = 0 /\ Len(visiting) = 0 /\ Len(val) = 0
    BY <1>1, <1>2, EmptySeq
  <1>6. ast \in Seq(Nodes) /\ trail \in Seq(Chains) /\ visiting \in Seq(Frames)
    BY <1>1, EmptySeq
  <1>7. Len(fns) \in Nat BY <1>1, ProtosAssumption, LenProperties
  <1>8. TcTyped BY <1>1, <1>4, <1>6, <1>7 DEF TcTyped
  <1>9. FrameInv /\ ProtoInv
    <2>1. NoSym.type # "Function" BY DEF NoSym
    <2> QED BY <1>3, <1>4, <1>5, <2>1 DEF FrameInv, VisitsGood, ProtoInv, ProtosIn
  <1>10. StackInv /\ DepthInv BY <1>4, <1>5 DEF StackInv, DepthInv
  <1>11. TrailInv BY <1>1 DEF TrailInv
  <1>12. NoShadowing /\ TrailUnshadowed
    BY <1>4, <1>5 DEF NoShadowing, TrailUnshadowed
  <1>13. LinkInv /\ DeclaredInv /\ LookupInv
    BY <1>5 DEF LinkInv, DeclaredInv, LookupInv
  <1>14. DeadInv
    <2>1. Names \subseteq Keys BY DEF Keys
    <2> QED BY <1>3, <1>4, <2>1 DEF DeadInv, IsVar, IsSym
  <1>15. Good BY <1>8, <1>9, <1>10, <1>11, <1>12, <1>13, <1>14 DEF Good, TcGood, ScopeInv
  <1>16. CgTyped
    <2>1. named \in Namings
      BY <1>2 DEF Namings, NoAlloca, AllocaInfo
    <2>2. val \in Seq(Nat) BY <1>2, EmptySeq
    <2>3. pc \in 1..(Len(ast) + 1) /\ func \in 0..Len(fns) /\ Len(val) = pc - 1
      BY <1>2, <1>5, <1>7
    <2>4. \E S : val \in Seq(S) BY <2>2
    <2>5. phase \in Phases /\ err \in BOOLEAN BY <1>1, <1>2 DEF Phases
    <2> QED BY <1>2, <2>1, <2>3, <2>4, <2>5 DEF CgTyped
  <1>17. AgreeInv BY <1>1, <1>2 DEF AgreeInv
  <1> QED BY <1>15, <1>16, <1>17 DEF IndInv

LEMMA NextInd ==
    ASSUME IndInv, [Next]_vars
    PROVE  IndInv'
  <1>1. Good BY DEF IndInv
  <1>2. CASE TypecheckProgram /\ UNCHANGED cgVars
    <2>1. phase \in {"declare", "typecheck"} BY <1>2, TypecheckPhase DEF TypecheckerNext
    <2>2. CASE DeclareFunctions \/ EnterFunction \/ LeaveFunction
      <3>1. Good' /\ Kind
        BY <1>1, <2>2, DeclareFunctionsGood, EnterFunctionGood, LeaveFunctionGood
      <3> QED BY <1>2, <2>1, <3>1, TypecheckStepGood
    <2>3. CASE FinishTypecheck BY <1>2, <2>3, HandOver
    <2> QED BY <1>2, <2>2, <2>3 DEF TypecheckProgram
  <1>3. CASE TypecheckBlock /\ UNCHANGED cgVars
    <2>1. Good' /\ Kind BY <1>1, <1>3, BlockGood
    <2> QED BY <1>3, <2>1, TypecheckPhase, TypecheckStepGood DEF TypecheckerNext
  <1>4. CASE TypecheckStmt /\ UNCHANGED cgVars
    <2>1. Good' /\ Kind BY <1>1, <1>4, StmtGood
    <2> QED BY <1>4, <2>1, TypecheckPhase, TypecheckStepGood DEF TypecheckerNext
  <1>5. CASE TypecheckLeaf /\ UNCHANGED cgVars
    <2>1. Good' /\ Kind BY <1>1, <1>5, LeafGood
    <2> QED BY <1>5, <2>1, TypecheckPhase, TypecheckStepGood DEF TypecheckerNext
  <1>6. CASE TypecheckCompound /\ UNCHANGED cgVars
    <2>1. Good' /\ Kind BY <1>1, <1>6, CompoundGood
    <2> QED BY <1>6, <2>1, TypecheckPhase, TypecheckStepGood DEF TypecheckerNext
  <1>7. CASE CodegenProgram /\ UNCHANGED <<shared, tcVars>>
    BY <1>7, CodegenProgramGood DEF Rest
  <1>8. CASE CodegenBlock /\ UNCHANGED <<shared, tcVars>>
    BY <1>8, CodegenBlockGood DEF Rest
  <1>9. CASE CodegenStmt /\ UNCHANGED <<shared, tcVars>>
    BY <1>9, CodegenStmtGood DEF Rest
  <1>10. CASE CodegenExpr /\ UNCHANGED <<shared, tcVars>>
    BY <1>10, CodegenExprGood DEF Rest
  <1>11. CASE UNCHANGED vars
    <2>1. /\ phase' = phase /\ Rest /\ pc' = pc /\ func' = func /\ named' = named
          /\ val' = val /\ err' = err
      BY <1>11 DEF vars, cgVars, Rest
    <2>2. Good' BY <1>1, <2>1, GoodUnchanged
    <2>3. fns' = fns /\ ast' = ast /\ trail' = trail BY <2>1 DEF Rest, shared
    <2>4. CgTyped' BY <2>1, <2>3 DEF IndInv, CgTyped
    <2>5. AgreeInv' BY <2>1, <2>3 DEF IndInv, AgreeInv, LiveSym
    <2> QED BY <2>2, <2>4, <2>5 DEF IndInv
  <1> QED BY <1>2, <1>3, <1>4, <1>5, <1>6, <1>7, <1>8, <1>9, <1>10, <1>11 DEF Next, Ended

(* IndInv holds in every reachable state.                                  *)
THEOREM Inductive == Spec => []IndInv
  <1>1. Init => IndInv BY InitInd
  <1>2. IndInv /\ [Next]_vars => IndInv' BY NextInd
  <1> QED BY <1>1, <1>2, PTL DEF Spec

-----------------------------------------------------------------------------
(* What it implies.                                                        *)

(* The variables of both visitors keep to their types.                     *)
THEOREM TypeCorrect == Spec => []TypeOK
  <1>1. IndInv => TypeOK
    BY DEF IndInv, Good, TcGood, TcTyped, CgTyped, TypeOK, Namings, AllocaInfo
  <1> QED BY <1>1, Inductive, PTL

(* addSymbol and addFnSymbol never put a name in two tables of a chain.    *)
THEOREM Unshadowing == Spec => []NoShadowing
  <1>1. IndInv => NoShadowing BY DEF IndInv, Good, ScopeInv
  <1> QED BY <1>1, Inductive, PTL

(* Every EnterScope of the typechecker is matched by its LeaveScope.       *)
THEOREM ScopesLeft == Spec => []ScopesMatch
  <1>1. ASSUME IndInv PROVE ScopesMatch
    <2>1. StackInv /\ DepthInv /\ visiting \in Seq(Frames)
      BY <1>1 DEF IndInv, Good, TcGood, TcTyped, ScopeInv
    <2>2. ASSUME visiting # <<>>, Top.k \in BlockKinds PROVE Len(symTab) = Top.base
      <3>1. Top = visiting[Len(visiting)] /\ Len(visiting) \in 1..Len(visiting)
        BY <2>1, <2>2, LastLemma DEF Top
      <3>2. Len(visiting) \in Nat BY <2>1, LenProperties
      <3>3. Innermost(Len(visiting)) /\ ~InHeader(Len(visiting))
        BY <2>2, <3>1, <3>2 DEF Innermost, InHeader, IsBlock
      <3>4. IsBlock(visiting[Len(visiting)]) /\ visiting[Len(visiting)].base \in Nat
        <4>1. visiting[Len(visiting)] \in Frames BY <2>1, <3>1, ElementOfSeq
        <4> QED BY <2>2, <3>1, <4>1 DEF Frames, IsBlock
      <3> QED BY <2>1, <3>1, <3>3, <3>4 DEF DepthInv
    <2> QED BY <2>1, <2>2 DEF ScopesMatch, DepthInv
  <1> QED BY <1>1, Inductive, PTL

(* A name has one entry on a chain in which none shadows another, and      *)
(* hasSymbol finds it.                                                     *)
LEMMA FoundSymbol ==
    ASSUME NEW c \in Chains, Unshadowed(c), NEW x \in Names, IsSym(hasSymbol(c, x))
    PROVE  \E L \in 1..Len(c) : hasSymbol(c, x) = c[L][x]
  <1>1. Declares(c, x)
    BY DEF hasSymbol, IsSym
  <1>2. PICK K \in 1..Len(c) : IsSym(c[K][x]) BY <1>1 DEF Declares
  <1>3. \A M \in (K + 1)..Len(c) : ~IsSym(c[M][x])
    <2>1. Len(c) \in Nat /\ x \in Keys BY LenProperties DEF Chains, Keys
    <2>2. \A M \in (K + 1)..Len(c) : M \in 1..Len(c) /\ M # K BY <2>1
    <2> QED BY <1>2, <2>1, <2>2 DEF Unshadowed
  <1> DEFINE L == CHOOSE L \in 1..Len(c) :
                    /\ IsSym(c[L][x])
                    /\ \A M \in (L + 1)..Len(c) : ~IsSym(c[M][x])
  <1>4. L \in 1..Len(c) BY <1>2, <1>3
  <1>5. hasSymbol(c, x) = c[L][x] BY <1>1 DEF hasSymbol
  <1> QED BY <1>4, <1>5

(* The name that the next node looks up was declared by a live node, and   *)
(* the map has its alloca.                                                 *)
LEMMA NameBound ==
    ASSUME IndInv
    PROVE  BindingAgreement
  <1>1. SUFFICES ASSUME phase = "codegen", pc <= Len(ast), node.live,
                        node.k \in Lookups, node.x # NoName,
                        IsSym(hasSymbol(trail[pc], node.x)),
                        hasSymbol(trail[pc], node.x).type # "Function"
                 PROVE  named[node.x] =
                           AllocaOf(hasSymbol(trail[pc], node.x).decl,
                                    CreateLLVMType(SymbolToTokenType(
                                        hasSymbol(trail[pc], node.x).type)))
    BY DEF BindingAgreement
  <1>2. /\ pc \in 1..Len(ast) /\ node \in Nodes /\ trail[pc] \in Chains
        /\ Len(trail) = Len(ast) + 1
    BY <1>1, NodeHere
  <1>3. node.x \in Names BY <1>1, <1>2 DEF Nodes
  <1>4. Unshadowed(trail[pc])
    <2>1. Len(ast) \in Nat
      BY LenProperties DEF IndInv, Good, TcGood, TcTyped
    <2>2. pc \in 1..Len(trail) BY <1>2, <2>1
    <2> QED BY <2>2 DEF IndInv, Good, ScopeInv, TrailUnshadowed
  <1> DEFINE s == hasSymbol(trail[pc], node.x)
  <1>5. IsVar(s) BY <1>1 DEF IsVar
  <1>6. PICK L \in 1..Len(trail[pc]) : s = trail[pc][L][node.x]
    BY <1>1, <1>2, <1>3, <1>4, FoundSymbol
  <1> HIDE DEF s
  <1>7. LiveSym(s)
    BY <1>1, <1>2, <1>3, <1>5, <1>6 DEF IndInv, Good, ScopeInv, LookupInv, node
  <1>8. named[node.x] = AllocaOf(s.decl, CreateLLVMType(SymbolToTokenType(s.type)))
    BY <1>1, <1>3, <1>5, <1>6, <1>7 DEF IndInv, AgreeInv
  <1> QED BY <1>8 DEF s

(* Where CodegenVisitor reads _NamedValues under a name that is visible    *)
(* there, it holds the alloca of the declaration the name resolves to.     *)
THEOREM BindingsAgree == Spec => []BindingAgreement
  <1>1. IndInv => BindingAgreement BY NameBound
  <1> QED BY <1>1, Inductive, PTL

-----------------------------------------------------------------------------
(* The scope of the marker.  What a step does to the chain between the     *)
(* entry of a function and its end: an entry stays where it is, or is new, *)
(* above the second scope, and plain.                                      *)
Grown(c, d) ==
    \A L \in 1..Len(d) : \A n \in Keys :
        \/ L \in 1..Len(c) /\ d[L][n] = c[L][n]
        \/ L >= 3 /\ Plain(n, d[L][n])

LEMMA GrownTwice ==
    ASSUME NEW c, NEW d, NEW e, Grown(c, d), Grown(d, e)
    PROVE  Grown(c, e)
  BY DEF Grown

LEMMA GrownMarked ==
    ASSUME NEW c \in Chains, NEW d \in Chains, NEW i, Grown(c, d), Len(d) >= 2, Marked(c, i)
    PROVE  Marked(d, i)
  <1>1. Len(c) \in Nat /\ Len(d) \in Nat BY LenProperties DEF Chains
  <1>2. FnMarker \in Keys /\ Names \subseteq Keys BY DEF Keys
  <1>3. 2 \in 1..Len(d) /\ ~(2 >= 3) BY <1>1
  <1>4. d[2][FnMarker] = FnInfo(i) /\ \A n \in Names : ~IsSym(d[2][n])
    BY <1>2, <1>3 DEF Grown, Marked
  <1>5. ASSUME NEW L \in 3..Len(d), NEW n \in Keys PROVE Plain(n, d[L][n])
    <2>1. L \in 1..Len(d) /\ (L \in 1..Len(c) => L \in 3..Len(c)) BY <1>1
    <2> QED BY <2>1 DEF Grown, Marked
  <1> QED BY <1>4, <1>5 DEF Marked

LEMMA GrownSteps ==
    ASSUME NEW c \in Chains
    PROVE  /\ Grown(c, c)
           /\ Len(c) >= 2 => Grown(c, EnterScope(c))
           /\ \A k \in 0..Len(c) : Grown(c, LeaveScopes(c, k))
  <1>0. Len(c) \in Nat BY EnterChain
  <1>1. Grown(c, c) BY DEF Grown
  <1>2. ASSUME Len(c) >= 2 PROVE Grown(c, EnterScope(c))
    <2>1. /\ Len(EnterScope(c)) = Len(c) + 1
          /\ \A L \in 1..Len(c) : EnterScope(c)[L] = c[L]
          /\ EnterScope(c)[Len(c) + 1] = EmptyTable
      BY EnterChain
    <2>2. \A L \in 1..(Len(c) + 1) : L \in 1..Len(c) \/ (L = Len(c) + 1 /\ L >= 3)
      BY <1>0, <1>2
    <2>3. \A n \in Keys : Plain(n, EmptyTable[n])
      BY EmptyTableType DEF Plain, NoSym, IsSym
    <2> QED BY <2>1, <2>2, <2>3 DEF Grown
  <1>3. ASSUME NEW k \in 0..Len(c) PROVE Grown(c, LeaveScopes(c, k))
    <2>1. /\ Len(LeaveScopes(c, k)) = Len(c) - k
          /\ \A L \in 1..(Len(c) - k) : LeaveScopes(c, k)[L] = c[L]
      BY LeaveChain
    <2>2. 1..(Len(c) - k) \subseteq 1..Len(c) BY <1>0
    <2> QED BY <2>1, <2>2 DEF Grown
  <1> QED BY <1>1, <1>2, <1>3

LEMMA GrownAdd ==
    ASSUME NEW c \in Chains, Len(c) >= 3, NEW x \in Names, NEW type, NEW decl \in Nat \X Nat
    PROVE  Grown(c, Add(c, x, VarInfo(type, decl)))
  <1> DEFINE info == VarInfo(type, decl)
  <1>1. Len(c) \in Nat BY EnterChain
  <1>2. info \in SymbolInfo /\ Len(c) >= 1 BY <1>1, VarInfoType
  <1>3. Plain(x, info)
    <2>1. x # FnMarker BY MarkerTableType
    <2> QED BY <2>1 DEF Plain, VarInfo
  <1> HIDE DEF info
  <1>4. /\ Len(Add(c, x, info)) = Len(c)
        /\ \A L \in 1..Len(c) : \A n \in Keys :
              Add(c, x, info)[L][n] = IF L = Len(c) /\ n = x THEN info ELSE c[L][n]
    BY <1>2, AddChain
  <1>5. Grown(c, Add(c, x, info)) BY <1>1, <1>3, <1>4 DEF Grown
  <1> QED BY <1>5 DEF info

(* Inside a function there are at least four scopes.                       *)
Deep == symTab \in Chains /\ Len(symTab) \in Nat /\ Len(symTab) >= 4

LEMMA InsideDepth == ASSUME Good, visiting # <<>> PROVE Deep
  <1>1. /\ visiting \in Seq(Frames) /\ Len(visiting) \in Nat /\ Len(visiting) >= 1
        /\ symTab \in Chains /\ Len(symTab) \in Nat /\ StackInv /\ DepthInv
    BY LenPositive, LenProperties DEF Good, TcGood, TcTyped, ScopeInv, Chains
  <1> DEFINE S == {j \in 1..Len(visiting) : IsBlock(visiting[j])}
  <1>2. 1 \in S
    <2>1. 1 \in 1..Len(visiting) BY <1>1
    <2>2. visiting[1].k = "body" BY <1>1, <2>1 DEF StackInv
    <2> QED BY <2>1, <2>2 DEF IsBlock, BlockKinds
  <1>3. S \subseteq 0..Len(visiting) BY <1>1
  <1>4. PICK j \in S : \A i \in S : i <= j
    <2> HIDE DEF S
    <2>1. S # {} BY <1>2
    <2> QED BY <1>1, <1>3, <2>1, LargestOf
  <1>5. Innermost(j)
    <2>1. ASSUME j < Len(visiting), IsBlock(visiting[j + 1]) PROVE FALSE
      <3>1. j + 1 \in S BY <1>1, <2>1
      <3>2. j + 1 <= j /\ j \in Nat BY <1>1, <1>4, <3>1
      <3> QED BY <3>2
    <2> QED BY <2>1 DEF Innermost
  <1>6. visiting[j].base >= 4 /\ visiting[j].base \in Nat
    BY <1>1, FrameBase DEF StackInv
  <1>7. Len(symTab) = visiting[j].base + (IF InHeader(j) THEN 1 ELSE 0)
    BY <1>1, <1>5 DEF DepthInv
  <1> QED BY <1>1, <1>6, <1>7 DEF Deep

LEMMA InsideDepthNext == (Good /\ visiting # <<>> => Deep)'
  <1>1. Good /\ visiting # <<>> => Deep BY InsideDepth
  <1> QED BY <1>1, PTL

(* Statements and expressions do nothing else to the chain.                *)
LEMMA BlockGrows ==
    ASSUME Good, visiting # <<>>, TypecheckBlock
    PROVE  fnIdx' = fnIdx /\ Grown(symTab, symTab')
  <1>1. symTab \in Chains /\ Len(symTab) \in Nat /\ Len(symTab) >= 4 BY InsideDepth DEF Deep
  <1>2. /\ Grown(symTab, symTab) /\ Grown(symTab, EnterScope(symTab))
        /\ \A k \in 0..Len(symTab) : Grown(symTab, LeaveScopes(symTab, k))
    BY <1>1, GrownSteps
  <1>3. CASE VisitStmtBlock BY <1>2, <1>3 DEF VisitStmtBlock, EnterBlock, Record
  <1>4. CASE LeaveStmtBlock
    <2>1. 1 \in 0..Len(symTab) /\ 2 \in 0..Len(symTab) BY <1>1
    <2>2. Grown(symTab, EnterScope(LeaveScope(symTab)))
      <3>1. LeaveScope(symTab) = LeaveScopes(symTab, 1) BY DEF LeaveScope, LeaveScopes
      <3>2. /\ LeaveScopes(symTab, 1) \in Chains
            /\ Len(LeaveScopes(symTab, 1)) = Len(symTab) - 1
        BY <1>1, <2>1, LeaveChain
      <3>3. Grown(LeaveScopes(symTab, 1), EnterScope(LeaveScopes(symTab, 1)))
        BY <1>1, <3>2, GrownSteps
      <3> QED BY <1>2, <2>1, <3>1, <3>3, GrownTwice
    <2>3. CASE Record("end", NoName, Top.k, <<>>, "none", Below,
                      LeaveScopes(symTab, IF Top.k = "for" THEN 2 ELSE 1)) /\ fnIdx' = fnIdx
      BY <1>2, <2>1, <2>3 DEF Record
    <2>4. CASE EnterBlock(Below, "else", "else", NoName, "none", <<>>, LeaveScope(symTab))
      BY <2>2, <2>4 DEF EnterBlock, Record
    <2> QED BY <1>4, <2>3, <2>4 DEF LeaveStmtBlock
  <1>5. CASE VisitIf BY <1>2, <1>5 DEF VisitIf, Visit
  <1>6. CASE EnterThen BY <1>2, <1>6 DEF EnterThen, EnterBlock, Record
  <1>7. CASE VisitWhile BY <1>2, <1>7 DEF VisitWhile, Record
  <1>8. CASE EnterWhileBody BY <1>2, <1>8 DEF EnterWhileBody, EnterBlock, Record
  <1>9. CASE VisitFor
    <2>1. CASE Reject BY <1>2, <2>1 DEF Reject, Stop
    <2>2. ASSUME NEW x \in Names,
                 symTab' = Add(EnterScope(symTab), x,
                               VarInfo("Type_int", DeclAt(Len(ast) + 1))),
                 fnIdx' = fnIdx
          PROVE  fnIdx' = fnIdx /\ Grown(symTab, symTab')
      <3>1. EnterScope(symTab) \in Chains /\ Len(EnterScope(symTab)) >= 3
        BY <1>1, EnterChain
      <3>2. DeclAt(Len(ast) + 1) \in Nat \X Nat
        BY LenProperties DEF Good, TcGood, TcTyped, DeclAt
      <3> DEFINE c == EnterScope(symTab)
      <3>3. Grown(c, Add(c, x, VarInfo("Type_int", DeclAt(Len(ast) + 1))))
        BY <3>1, <3>2, GrownAdd
      <3>4. Grown(symTab, c) BY <1>2
      <3> HIDE DEF c
      <3>5. symTab' = Add(c, x, VarInfo("Type_int", DeclAt(Len(ast) + 1))) BY <2>2 DEF c
      <3> QED BY <2>2, <3>3, <3>4, <3>5, GrownTwice
    <2> QED BY <1>9, <2>1, <2>2 DEF VisitFor, Record
  <1>10. CASE EnterForBody BY <1>2, <1>10 DEF EnterForBody, EnterBlock, Record
  <1> QED BY <1>3, <1>4, <1>5, <1>6, <1>7, <1>8, <1>9, <1>10, Zenon DEF TypecheckBlock

LEMMA StmtGrows ==
    ASSUME Good, visiting # <<>>, TypecheckStmt
    PROVE  fnIdx' = fnIdx /\ Grown(symTab, symTab')
  <1>1. symTab \in Chains /\ Len(symTab) \in Nat /\ Len(symTab) >= 4 BY InsideDepth DEF Deep
  <1>2. Grown(symTab, symTab) BY <1>1, GrownSteps
  <1>3. CASE UNCHANGED <<symTab, fnIdx>> BY <1>2, <1>3
  <1>4. ASSUME NEW x \in Names, NEW type,
               symTab' = Add(symTab, x, VarInfo(type, DeclAt(Len(ast) + 1))), fnIdx' = fnIdx
        PROVE  fnIdx' = fnIdx /\ Grown(symTab, symTab')
    <2>1. DeclAt(Len(ast) + 1) \in Nat \X Nat
      BY LenProperties DEF Good, TcGood, TcTyped, DeclAt
    <2>2. Len(symTab) >= 3 BY <1>1
    <2>3. Grown(symTab, Add(symTab, x, VarInfo(type, DeclAt(Len(ast) + 1))))
      BY <1>1, <2>1, <2>2, GrownAdd
    <2> QED BY <1>4, <2>3
  <1>5. CASE VisitVarDecl
    BY <1>3, <1>4, <1>5 DEF VisitVarDecl, Record, Reject, Stop
  <1>6. CASE FinishArrayDecl
    <2>1. CASE Reject BY <1>3, <2>1 DEF Reject, Stop
    <2>2. CASE ~Reject
      <3>1. /\ symTab' = Add(symTab, Top.x, VarInfo("Type_array", DeclAt(Len(ast) + 1)))
            /\ fnIdx' = fnIdx
        BY <1>6, <2>2 DEF FinishArrayDecl, Finish, Record
      <3>2. Top.x \in Names
        BY <1>6, TopType DEF FinishArrayDecl, Visited, FrameGood
      <3> QED BY <1>4, <3>1, <3>2
    <2> QED BY <2>1, <2>2
  <1>7. CASE VisitArrayDecl \/ VisitPrint \/ VisitAbort \/ VisitVarAssignment
             \/ VisitArrayAssignment
    BY <1>3, <1>7 DEF VisitArrayDecl, VisitPrint, VisitAbort, VisitVarAssignment,
                      VisitArrayAssignment, Visit, Reject, Stop
  <1>8. CASE FinishPrint \/ FinishAbort \/ FinishVarAssignment \/ VisitArrayAssignmentRhs
             \/ FinishArrayAssignment
    BY <1>3, <1>8 DEF FinishPrint, FinishAbort, FinishVarAssignment,
                      VisitArrayAssignmentRhs, FinishArrayAssignment, Finish, Record
  <1>9. CASE VisitReturn \/ FinishReturn
    BY <1>3, <1>9 DEF VisitReturn, FinishReturn, Visit, Record, Reject, Stop
  <1> QED BY <1>5, <1>6, <1>7, <1>8, <1>9, Zenon DEF TypecheckStmt

LEMMA ExprGrows ==
    ASSUME Good, visiting # <<>>, TypecheckLeaf \/ TypecheckCompound
    PROVE  fnIdx' = fnIdx /\ Grown(symTab, symTab')
  <1>1. Grown(symTab, symTab) BY InsideDepth, GrownSteps DEF Deep
  <1>2. CASE TypecheckLeaf
    BY <1>1, <1>2 DEF TypecheckLeaf, VisitTrueFalse, VisitNum, VisitInput,
                      VisitStringLiteral, VisitId, Leaf, Deliver, Record, Reject, Stop
  <1>3. CASE TypecheckCompound
    <2>1. CASE VisitTernary \/ VisitBinop \/ VisitUnary \/ VisitSizeof \/ VisitArrayExpr
               \/ VisitFnCall
      BY <1>1, <2>1 DEF VisitTernary, VisitBinop, VisitUnary, VisitSizeof, VisitArrayExpr,
                        VisitFnCall, Visit, Reject, Stop
    <2>2. CASE FinishTernary \/ FinishBinop \/ FinishUnary \/ FinishSizeof
               \/ FinishArrayExpr \/ FinishFnCall
      BY <1>1, <2>2 DEF FinishTernary, FinishBinop, FinishUnary, FinishSizeof,
                        FinishArrayExpr, FinishFnCall, Deliver, Record
    <2> QED BY <1>3, <2>1, <2>2, Zenon DEF TypecheckCompound
  <1> QED BY <1>2, <1>3

(* A function's entry builds the scope of its marker.                      *)
LEMMA EntryMarked ==
    ASSUME Good, EnterFunction, visiting' # <<>>
    PROVE  Marked(symTab', fnIdx')
  <1> DEFINE ps == fns[fnIdx + 1].params
             t2 == MarkerTable(fnIdx + 1)
             t3 == ParamTable(ps)
             t4 == EmptyTable
             st == symTab \o <<t2, t3, t4>>
  <1>1. /\ visiting = <<>> /\ fnIdx < Len(fns) /\ fnIdx' = fnIdx + 1 /\ symTab' = st
    BY DEF EnterFunction, Record, Reject, Stop
  <1>2. /\ fns \in Seq(Prototype) /\ fnIdx \in 0..Len(fns) /\ ast \in Seq(Nodes)
        /\ symTab \in Seq(Tables) /\ Len(symTab) = 1
    BY <1>1, ProtosAssumption
    DEF Good, TcGood, TcTyped, ScopeInv, DepthInv, Chains, Tables
  <1>3. fnIdx + 1 \in 1..Len(fns) /\ fnIdx + 1 \in Nat BY <1>1, <1>2, LenProperties
  <1>4. ps \in Seq(FnParam)
    <2>1. fns[fnIdx + 1] \in Prototype BY <1>2, <1>3, ElementOfSeq
    <2> QED BY <2>1 DEF Prototype
  <1>5. /\ t2[FnMarker] = FnInfo(fnIdx + 1) /\ \A n \in Names : ~IsSym(t2[n])
        /\ FnMarker \notin Names
    BY <1>3, MarkerTableType DEF IsSym
  <1>6. \A n \in Keys : Plain(n, t3[n]) /\ Plain(n, t4[n])
    <2>1. \A n \in Keys : t3[n] = NoSym \/ (n \in Names /\ t3[n].proto = 0)
      <3> DEFINE v(n) == VarInfo(ps[ParamAt(ps, n)].type, ParamDecl(Len(ast) + 1, ParamAt(ps, n)))
      <3>1. \A n \in Keys : t3[n] = NoSym \/ (n \in Names /\ t3[n] = v(n))
        BY <1>2, <1>4, ParamTableType
      <3>2. \A n : v(n).proto = 0 BY DEF VarInfo
      <3> HIDE DEF v, t3
      <3> QED BY <3>1, <3>2
    <2>2. \A n \in Keys : t4[n] = NoSym BY EmptyTableType
    <2>3. NoSym.proto = 0 BY DEF NoSym
    <2> QED BY <1>5, <2>1, <2>2, <2>3 DEF Plain, IsSym
  <1>7. t2 \in Tables /\ t3 \in Tables /\ t4 \in Tables
    BY <1>2, <1>3, <1>4, MarkerTableType, ParamTableType, EmptyTableType
  <1> HIDE DEF ps, t2, t3, t4
  <1>8. Len(st) = 4 /\ st[2] = t2 /\ st[3] = t3 /\ st[4] = t4
    BY <1>2, <1>7, ThreeScopes DEF Chains, Tables
  <1> HIDE DEF st
  <1>9. \A L \in 3..Len(st) : L = 3 \/ L = 4 BY <1>8
  <1> QED BY <1>1, <1>5, <1>6, <1>8, <1>9 DEF Marked

LEMMA NextMarked ==
    ASSUME IndInv, IndInv', MarkerInv, [Next]_vars
    PROVE  MarkerInv'
  <1> SUFFICES ASSUME visiting' # <<>> PROVE Marked(symTab', fnIdx')
    BY DEF MarkerInv, Marked
  <1>1. Good /\ Good' BY DEF IndInv
  <1>2. symTab' \in Chains /\ Len(symTab') >= 2
    <2>1. Deep' BY <1>1, InsideDepthNext
    <2> QED BY <2>1 DEF Deep
  <1>3. ASSUME visiting # <<>>, fnIdx' = fnIdx, Grown(symTab, symTab')
        PROVE  Marked(symTab', fnIdx')
    BY <1>1, <1>2, <1>3, InsideDepth, GrownMarked DEF MarkerInv, Deep
  <1>4. CASE UNCHANGED tcVars BY <1>4 DEF MarkerInv, tcVars
  <1>5. CASE TypecheckProgram
    <2>1. CASE DeclareFunctions
      <3>1. visiting = <<>> BY <1>1, <2>1 DEF DeclareFunctions, Good, ScopeInv, TrailInv
      <3> QED BY <2>1, <3>1 DEF DeclareFunctions, Reject, Stop
    <2>2. CASE EnterFunction BY <1>1, <2>2, EntryMarked
    <2>3. CASE LeaveFunction
      <3>1. CASE UNCHANGED tcVars BY <1>4, <3>1
      <3>2. CASE visiting' = Below
        <4>1. visiting # <<>> /\ Top.k = "body" BY <2>3 DEF LeaveFunction
        <4>2. /\ visiting \in Seq(Frames) /\ Len(visiting) \in 1..Len(visiting)
              /\ visiting[Len(visiting)].k = "body"
          BY <1>1, <4>1, LastLemma DEF Good, TcGood, TcTyped, Top
        <4>3. Len(visiting) = 1 BY <1>1, <4>2 DEF Good, ScopeInv, StackInv
        <4>4. Below \in Seq(Frames) /\ Len(Below) = 0
          BY <4>1, <4>2, <4>3, FrontLemma DEF Below
        <4> QED BY <3>2, <4>4, EmptySeq
      <3> QED BY <2>3, <3>1, <3>2 DEF LeaveFunction, Reject, Stop, tcVars
    <2>4. CASE FinishTypecheck BY <1>4, <2>4 DEF FinishTypecheck, tcVars
    <2> QED BY <1>5, <2>1, <2>2, <2>3, <2>4 DEF TypecheckProgram
  <1>6. CASE TypecheckBlock \/ TypecheckStmt \/ TypecheckLeaf \/ TypecheckCompound
    <2>1. visiting # <<>> BY <1>6, TypecheckInside
    <2> QED BY <1>1, <1>3, <1>6, <2>1, BlockGrows, StmtGrows, ExprGrows
  <1> QED BY <1>4, <1>5, <1>6 DEF Next, Ended, vars

(* The scope of the marker is where getEnclosingFnProto ends its walk,     *)
(* unless it meets a scope whose one name begins with "lilfn_" first.      *)
LEMMA MarkedFinds ==
    ASSUME NEW c \in Chains, Len(c) >= 2, NEW i \in Nat, Marked(c, i)
    PROVE  \/ getEnclosingFnProto(c) = i
           \/ getEnclosingFnProto(c) = 0 /\ \E n \in LilfnNames : Declares(c, n)
  <1> DEFINE L == CHOOSE L \in FnScopes(c) : \A M \in FnScopes(c) : M <= L
             n == CHOOSE n \in LilfnNames \cup {FnMarker} : OnlyKey(c[L], n)
  <1>1. Len(c) \in Nat BY LenProperties DEF Chains
  <1>2. /\ FnMarker \in Keys /\ FnMarker \notin Names /\ Names \subseteq Keys
        /\ LilfnNames \subseteq Names
    <2>1. LilfnNames \subseteq Names BY NamesAssumption
    <2> QED BY <2>1, MarkerTableType DEF Keys
  <1>3. OnlyKey(c[2], FnMarker)
    <2>1. IsSym(FnInfo(i)) BY DEF IsSym, FnInfo, NoSym
    <2>2. Keys = Names \cup {FnMarker} BY DEF Keys
    <2> QED BY <1>2, <2>1, <2>2 DEF Marked, OnlyKey
  <1>4. 2 \in FnScopes(c) BY <1>1, <1>3 DEF FnScopes, IsFnScope
  <1>5. FnScopes(c) \subseteq 0..Len(c) BY <1>1 DEF FnScopes
  <1>6. \E M \in FnScopes(c) : \A N \in FnScopes(c) : N <= M
    BY <1>1, <1>4, <1>5, LargestOf
  <1>7. L \in FnScopes(c) BY <1>6
  <1>8. getEnclosingFnProto(c) = c[L][n].proto BY <1>4 DEF getEnclosingFnProto
  <1> HIDE DEF L
  <1>9. L \in 2..Len(c) /\ n \in LilfnNames \cup {FnMarker} /\ OnlyKey(c[L], n)
    BY <1>7 DEF FnScopes, IsFnScope
  <1> HIDE DEF n
  <1>10. CASE L = 2
    <2>1. n = FnMarker BY <1>2, <1>3, <1>9, <1>10 DEF OnlyKey
    <2> QED BY <1>8, <1>10, <2>1 DEF Marked, FnInfo
  <1>11. CASE L # 2
    <2>1. L \in 3..Len(c) /\ L \in 1..Len(c) BY <1>1, <1>9, <1>11
    <2>2. n \in Keys /\ IsSym(c[L][n]) BY <1>2, <1>9 DEF OnlyKey
    <2>3. Plain(n, c[L][n]) BY <2>1, <2>2 DEF Marked
    <2>4. n \in LilfnNames /\ c[L][n].proto = 0 BY <1>9, <2>2, <2>3 DEF Plain
    <2> QED BY <1>8, <2>1, <2>2, <2>4 DEF Declares
  <1> QED BY <1>10, <1>11

(* Wherever a return may stand, getEnclosingFnProto finds the prototype of *)
(* the function being visited, or is stopped by a name "lilfn_...".        *)
THEOREM EnclosingFound == Spec => []ReturnFindsItsFunction
  <1>1. Init => MarkerInv BY DEF Init, TypecheckerInit, MarkerInv
  <1>2. IndInv /\ IndInv' /\ MarkerInv /\ [Next]_vars => MarkerInv' BY NextMarked
  <1>3. ASSUME IndInv, MarkerInv PROVE ReturnFindsItsFunction
    <2>1. SUFFICES ASSUME visiting # <<>>
                   PROVE  \/ getEnclosingFnProto(symTab) = fnIdx
                          \/ /\ getEnclosingFnProto(symTab) = 0
                             /\ \E n \in LilfnNames : Declares(symTab, n)
      BY DEF ReturnFindsItsFunction
    <2>2. symTab \in Chains /\ Len(symTab) \in Nat /\ Len(symTab) >= 4
      BY <1>3, <2>1, InsideDepth DEF IndInv, Deep
    <2>3. Len(symTab) >= 2 BY <2>2
    <2>4. fnIdx \in Nat
      BY <1>3, ProtosAssumption, LenProperties DEF IndInv, Good, TcGood, TcTyped
    <2> QED BY <1>3, <2>1, <2>2, <2>3, <2>4, MarkedFinds DEF MarkerInv
  <1> QED BY <1>1, <1>2, <1>3, Inductive, PTL DEF Spec

-----------------------------------------------------------------------------
(* The value that the code generator makes of an expression has the type   *)
(* that the typechecker found for it.  The typechecker's half is about the *)
(* tree it leaves behind (TypedInv), and about the operands of the visits  *)
(* in progress, which are the tree's before it is there (OperandInv).      *)

(* The expressions whose value has the type of an operand's.               *)
Valued == {"ternary", "binop", "unary"}

(* The function a name means, to the typechecker by way of the symbol      *)
(* table and to the code generator by way of the module.                   *)
Callee(protos, x) == CHOOSE i \in 1..Len(protos) : protos[i].name = x

(* What the typechecker has seen to in a node n, the i-th of the tree: the *)
(* result is that of its class, its operands were recorded before it, and  *)
(* the code generator reaches them if it reaches the node.                 *)
Operand(n, i, tree, j) ==
    /\ n.kids[j] \in 1..i - 1
    /\ tree[n.kids[j]].k \in ExprKinds
    /\ n.live => tree[n.kids[j]].live

Typed(n, i, tree, chain, protos) ==
    /\ n.k = "bool" => n.res = "Type_bool"
    /\ n.k \in {"num", "input", "sizeof", "elem"} => n.res = "Type_int"
    /\ n.k = "string" => n.res = "Literal_string"
    /\ n.k = "id" => /\ n.x \in Names /\ CreatableValue(n.res)
                     /\ n.res = SymbolToTokenType(hasSymbol(chain, n.x).type)
    /\ n.k = "call" => n.res = protos[Callee(protos, n.x)].type /\ n.res \in TypeTokens
    /\ n.k = "ternary" => Operand(n, i, tree, 2) /\ n.res = tree[n.kids[2]].res
    /\ n.k = "unary"   => Operand(n, i, tree, 1) /\ n.res = tree[n.kids[1]].res
    /\ n.k = "binop"   => /\ Operand(n, i, tree, 1) /\ Operand(n, i, tree, 2)
                          /\ n.res = BinopResult(n.op, tree[n.kids[1]].res, tree[n.kids[2]].res)
                          /\ n.res # "Err"

TypedInv == \A i \in 1..Len(ast) : Typed(ast[i], i, ast, trail[i], fns)

(* What it knows of the operands that a visit in progress has so far.      *)
LiveTo(vs, j) == \A i \in 1..j : ~vs[i].ret /\ vs[i].k \notin Hidden

OperandsOf(vs, j, tree, protos) ==
    /\ vs[j].k \in Valued =>
          /\ ~vs[j].ret
          /\ \A n \in 1..Len(vs[j].kids) :
                /\ vs[j].kids[n] \in 1..Len(tree)
                /\ tree[vs[j].kids[n]].k \in ExprKinds
                /\ LiveTo(vs, j) => tree[vs[j].kids[n]].live
    /\ vs[j].k = "call" => vs[j].proto = Callee(protos, vs[j].x)

OperandsGood(vs, tree, protos) == \A j \in 1..Len(vs) : OperandsOf(vs, j, tree, protos)

OperandInv == OperandsGood(visiting, ast, fns)

-----------------------------------------------------------------------------
(* The operands of visits in progress.                                     *)

(* Statements may note something in their block.                           *)
Alike(vs, ws) ==
    /\ Marks(vs, ws) /\ Keeps(vs, ws)
    /\ \A j \in 1..Len(vs) : vs[j].k \in Valued => ws[j].ret = vs[j].ret

LEMMA AlikeSelf ==
    ASSUME NEW vs \in Seq(Frames)
    PROVE  Alike(vs, vs)
  BY MarksSelf DEF Alike

LEMMA AlikeNoted ==
    ASSUME NEW vs \in Seq(Frames), vs # <<>>, NEW k \in NodeKinds \cup FrameKinds
    PROVE  Alike(vs, Noted(vs, k)) /\ Noted(vs, k) \in Seq(Frames)
  <1> DEFINE n == Len(vs)
             f == [vs[n] EXCEPT !.last = k]
  <1>1. n \in 1..Len(vs) /\ vs[n] \in Frames BY LastLemma
  <1>2. f \in Frames /\ f.ret = vs[n].ret BY <1>1 DEF Frames
  <1>3. [vs EXCEPT ![n].last = k] = [vs EXCEPT ![n] = f] OBVIOUS
  <1> HIDE DEF f
  <1>4. \A j \in 1..Len(vs) : [vs EXCEPT ![n] = f][j] = IF j = n THEN f ELSE vs[j]
    BY <1>1, <1>2, ExceptSeq
  <1>5. Noted(vs, k) = vs \/ Noted(vs, k) = [vs EXCEPT ![n] = f] BY <1>3 DEF Noted
  <1>6. \A j \in 1..Len(vs) : Noted(vs, k)[j].ret = vs[j].ret BY <1>2, <1>4, <1>5
  <1>7. Marks(vs, Noted(vs, k)) /\ Keeps(vs, Noted(vs, k)) BY NotedMarks
  <1> QED BY <1>6, <1>7 DEF Alike, Marks

LEMMA AlikeReturned ==
    ASSUME NEW vs \in Seq(Frames), vs # <<>>, vs[Len(vs)].k \in BlockKinds
    PROVE  Alike(vs, Returned(vs)) /\ Returned(vs) \in Seq(Frames)
  <1> DEFINE n == Len(vs)
             f == [vs[n] EXCEPT !.ret = TRUE]
  <1>1. n \in 1..Len(vs) /\ vs[n] \in Frames BY LastLemma
  <1>2. f \in Frames BY <1>1 DEF Frames
  <1>3. Returned(vs) = [vs EXCEPT ![n] = f] BY DEF Returned
  <1>4. vs[n].k \notin Valued BY DEF BlockKinds, Valued
  <1> HIDE DEF f, n
  <1>5. \A j \in 1..Len(vs) : [vs EXCEPT ![n] = f][j] = IF j = n THEN f ELSE vs[j]
    BY <1>1, <1>2, ExceptSeq
  <1>6. Marks(vs, Returned(vs)) /\ Keeps(vs, Returned(vs)) BY ReturnedMarks
  <1> QED BY <1>3, <1>4, <1>5, <1>6 DEF Alike, Marks

(* The tree may grow.                                                      *)
LEMMA OperandsKept ==
    ASSUME NEW vs \in Seq(Frames), NEW tree, NEW longer, NEW protos, Extends(tree, longer),
           OperandsGood(vs, tree, protos), NEW ws, Alike(vs, ws)
    PROVE  OperandsGood(ws, longer, protos)
  <1>1. Len(ws) = Len(vs) BY DEF Alike, Marks
  <1>2. ASSUME NEW j \in 1..Len(vs)
        PROVE  /\ ws[j].k = vs[j].k /\ ws[j].x = vs[j].x /\ ws[j].proto = vs[j].proto
               /\ ws[j].kids = vs[j].kids /\ (vs[j].k \in Valued => ws[j].ret = vs[j].ret)
               /\ LiveTo(ws, j) => LiveTo(vs, j)
    <2>1. Len(vs) \in Nat BY LenProperties
    <2>2. 1..j \subseteq 1..Len(vs) BY <2>1
    <2> QED BY <2>2 DEF Alike, Marks, Keeps, LiveTo
  <1>3. 1..Len(tree) \subseteq 1..Len(longer) BY DEF Extends
  <1>4. ASSUME NEW j \in 1..Len(vs) PROVE OperandsOf(ws, j, longer, protos)
    <2>1. OperandsOf(vs, j, tree, protos) BY DEF OperandsGood
    <2>2. ASSUME vs[j].k \in Valued, NEW n \in 1..Len(vs[j].kids)
          PROVE  /\ vs[j].kids[n] \in 1..Len(longer)
                 /\ longer[vs[j].kids[n]].k \in ExprKinds
                 /\ LiveTo(ws, j) => longer[vs[j].kids[n]].live
      <3>1. vs[j].kids[n] \in 1..Len(tree) BY <2>1, <2>2 DEF OperandsOf
      <3>2. longer[vs[j].kids[n]] = tree[vs[j].kids[n]] BY <3>1 DEF Extends
      <3> QED BY <1>2, <1>3, <2>1, <2>2, <3>1, <3>2 DEF OperandsOf
    <2> QED BY <1>2, <2>1, <2>2 DEF OperandsOf
  <1> QED BY <1>1, <1>4 DEF OperandsGood

(* Some visits end.                                                        *)
LEMMA OperandsBelow ==
    ASSUME NEW vs \in Seq(Frames), NEW tree, NEW protos, OperandsGood(vs, tree, protos),
           NEW ws \in Seq(Frames), Len(ws) <= Len(vs), \A j \in 1..Len(ws) : ws[j] = vs[j]
    PROVE  OperandsGood(ws, tree, protos)
  <1>1. Len(vs) \in Nat /\ Len(ws) \in Nat BY LenProperties
  <1>2. ASSUME NEW j \in 1..Len(ws)
        PROVE  j \in 1..Len(vs) /\ ws[j] = vs[j] /\ (LiveTo(ws, j) => LiveTo(vs, j))
    <2>1. j \in 1..Len(vs) /\ 1..j \subseteq 1..Len(ws) BY <1>1
    <2> QED BY <2>1 DEF LiveTo
  <1> QED BY <1>2 DEF OperandsGood, OperandsOf

(* A visit begins.                                                         *)
LEMMA OperandsPush ==
    ASSUME NEW vs \in Seq(Frames), NEW tree, NEW protos, OperandsGood(vs, tree, protos),
           NEW f, f.k \in Valued => f.kids = <<>> /\ ~f.ret,
           f.k = "call" => f.proto = Callee(protos, f.x)
    PROVE  OperandsGood(Append(vs, f), tree, protos)
  <1> DEFINE ws == Append(vs, f)
  <1>1. /\ Len(vs) \in Nat /\ Len(ws) = Len(vs) + 1 /\ ws[Len(vs) + 1] = f
        /\ \A j \in 1..Len(vs) : ws[j] = vs[j]
    <2> DEFINE S == Frames \cup {f}
    <2>1. Frames \subseteq S /\ f \in S OBVIOUS
    <2> HIDE DEF S
    <2>2. vs \in Seq(S) BY <2>1, SeqMonotonic
    <2> QED BY <2>1, <2>2, PushLemma
  <1> HIDE DEF ws
  <1>2. ASSUME NEW j \in 1..Len(vs)
        PROVE  ws[j] = vs[j] /\ (LiveTo(ws, j) => LiveTo(vs, j))
    <2>1. 1..j \subseteq 1..Len(vs) BY <1>1
    <2> QED BY <1>1, <2>1 DEF LiveTo
  <1>3. \A j \in 1..Len(ws) : j \in 1..Len(vs) \/ j = Len(vs) + 1 BY <1>1
  <1>4. f.k \in Valued => Len(f.kids) = 0 /\ 1..Len(f.kids) = {} BY EmptySeq
  <1>5. OperandsGood(ws, tree, protos) BY <1>1, <1>2, <1>3, <1>4 DEF OperandsGood, OperandsOf
  <1> QED BY <1>5 DEF ws

(* The innermost visit has one operand more, the last node of the tree.    *)
LEMMA OperandsMore ==
    ASSUME NEW vs \in Seq(Frames), vs # <<>>, NEW tree, NEW protos,
           OperandsGood(vs, tree, protos), NEW i \in 1..Len(tree), i \in Nat,
           tree[i].k \in ExprKinds, IsLive(vs) => tree[i].live
    PROVE  OperandsGood([vs EXCEPT ![Len(vs)].kids = Append(@, i)], tree, protos)
  <1> DEFINE m == Len(vs)
             f == [vs[m] EXCEPT !.kids = Append(vs[m].kids, i)]
             ws == [vs EXCEPT ![m] = f]
  <1>1. m \in 1..Len(vs) /\ vs[m] \in Frames BY LastLemma
  <1>2. vs[m].kids \in Seq(Nat) BY <1>1 DEF Frames
  <1> DEFINE ks == Append(vs[m].kids, i)
  <1>3. /\ ks \in Seq(Nat) /\ Len(vs[m].kids) \in Nat /\ Len(ks) = Len(vs[m].kids) + 1
        /\ \A n \in 1..Len(vs[m].kids) : ks[n] = vs[m].kids[n]
        /\ ks[Len(vs[m].kids) + 1] = i
    BY <1>2, PushLemma
  <1> HIDE DEF ks
  <1>4. /\ f.k = vs[m].k /\ f.x = vs[m].x /\ f.proto = vs[m].proto /\ f.ret = vs[m].ret
        /\ f.kids = ks /\ f \in Frames
    BY <1>1, <1>3 DEF Frames, ks
  <1>5. [vs EXCEPT ![Len(vs)].kids = Append(@, i)] = ws OBVIOUS
  <1> HIDE DEF f
  <1>6. Len(ws) = Len(vs) /\ \A j \in 1..Len(vs) : ws[j] = IF j = m THEN f ELSE vs[j]
    BY <1>1, <1>4, ExceptSeq
  <1> HIDE DEF ws
  <1>7. ASSUME NEW j \in 1..Len(vs) PROVE LiveTo(ws, j) => LiveTo(vs, j)
    <2>1. Len(vs) \in Nat BY LenProperties
    <2>2. 1..j \subseteq 1..Len(vs) BY <2>1
    <2>3. \A n \in 1..j : ws[n].ret = vs[n].ret /\ ws[n].k = vs[n].k BY <1>4, <1>6, <2>2
    <2> QED BY <2>3 DEF LiveTo
  <1>8. LiveTo(vs, m) => IsLive(vs) BY DEF LiveTo, IsLive
  <1> HIDE DEF m
  <1>9. ASSUME NEW n \in 1..Len(ks), vs[m].k \in Valued
        PROVE  /\ ks[n] \in 1..Len(tree)
               /\ tree[ks[n]].k \in ExprKinds /\ (LiveTo(ws, m) => tree[ks[n]].live)
    <2>1. CASE n \in 1..Len(vs[m].kids)
      BY <1>1, <1>3, <1>7, <1>9, <2>1 DEF OperandsGood, OperandsOf
    <2>2. CASE n = Len(vs[m].kids) + 1 BY <1>1, <1>3, <1>7, <1>8, <2>2
    <2>3. \A N \in Nat : \A d \in 1..N + 1 : d \in 1..N \/ d = N + 1 OBVIOUS
    <2>4. n \in 1..Len(vs[m].kids) + 1 BY <1>3
    <2>5. n \in 1..Len(vs[m].kids) \/ n = Len(vs[m].kids) + 1 BY <1>3, <2>3, <2>4
    <2> QED BY <2>1, <2>2, <2>5
  <1>10. OperandsGood(ws, tree, protos)
    <2>1. ASSUME NEW j \in 1..Len(ws), ws[j].k \in Valued, NEW n \in 1..Len(ws[j].kids)
          PROVE  /\ ws[j].kids[n] \in 1..Len(tree)
                 /\ tree[ws[j].kids[n]].k \in ExprKinds
                 /\ LiveTo(ws, j) => tree[ws[j].kids[n]].live
      <3>1. CASE j = m BY <1>1, <1>4, <1>6, <1>9, <2>1, <3>1
      <3>2. CASE j # m
        <4>1. ws[j] = vs[j] /\ j \in 1..Len(vs) BY <1>6, <2>1, <3>2
        <4> QED BY <1>7, <2>1, <4>1 DEF OperandsGood, OperandsOf
      <3> QED BY <3>1, <3>2
    <2>2. ASSUME NEW j \in 1..Len(ws)
          PROVE  /\ ws[j].k = "call" => ws[j].proto = Callee(protos, ws[j].x)
                 /\ ws[j].k \in Valued => ~ws[j].ret
      <3>1. /\ j \in 1..Len(vs) /\ ws[j].k = vs[j].k /\ ws[j].x = vs[j].x
            /\ ws[j].proto = vs[j].proto /\ ws[j].ret = vs[j].ret
        BY <1>1, <1>4, <1>6
      <3>2. OperandsOf(vs, j, tree, protos) BY <3>1 DEF OperandsGood
      <3> QED BY <3>1, <3>2 DEF OperandsOf
    <2> QED BY <2>1, <2>2 DEF OperandsGood, OperandsOf
  <1> QED BY <1>5, <1>10

-----------------------------------------------------------------------------
(* The typechecker's half: what a step does to the tree and the visits.    *)

ValueInv == TypedInv /\ OperandInv

(* A node's type is a matter of the nodes before it.                       *)
LEMMA TypedKept ==
    ASSUME NEW n, NEW tree, NEW longer, NEW chain, NEW protos, Extends(tree, longer),
           NEW i \in 1..Len(tree) + 1, Typed(n, i, tree, chain, protos)
    PROVE  Typed(n, i, longer, chain, protos)
  <1>1. ASSUME NEW j, Operand(n, i, tree, j)
        PROVE  Operand(n, i, longer, j) /\ longer[n.kids[j]] = tree[n.kids[j]]
    <2>1. Len(tree) \in Nat /\ n.kids[j] \in 1..i - 1 BY <1>1 DEF Extends, Operand
    <2>2. n.kids[j] \in 1..Len(tree) BY <2>1
    <2>3. longer[n.kids[j]] = tree[n.kids[j]] BY <2>2 DEF Extends
    <2> QED BY <1>1, <2>3 DEF Operand
  <1> QED BY <1>1 DEF Typed

LEMMA RecordTyped ==
    ASSUME Good, Good', trail # <<>>, TypedInv, fns' = fns,
           NEW k, NEW x, NEW op, NEW kids, NEW res, NEW vs, NEW st,
           Record(k, x, op, kids, res, vs, st),
           Typed(Node(k, x, op, kids, res, IsLive(vs)), Len(ast) + 1, ast, symTab, fns)
    PROVE  TypedInv'
  <1> DEFINE n == Node(k, x, op, kids, res, IsLive(vs))
  <1>1. /\ Extends(ast, ast') /\ Len(ast) \in Nat /\ Len(ast') = Len(ast) + 1
        /\ ast'[Len(ast) + 1] = n
        /\ \A i \in 1..Len(trail) : trail'[i] = trail[i]
    BY Growth
  <1>2. Typed(n, Len(ast) + 1, ast, symTab, fns) OBVIOUS
  <1> HIDE DEF n
  <1>3. Len(trail) = Len(ast) + 1 /\ trail[Len(trail)] = symTab BY DEF Good, ScopeInv, TrailInv
  <1>4. ASSUME NEW i \in 1..Len(ast) PROVE Typed(ast'[i], i, ast', trail'[i], fns)
    <2>1. i \in 1..Len(ast) + 1 /\ i \in 1..Len(trail) BY <1>1, <1>3
    <2>2. Typed(ast[i], i, ast', trail[i], fns) BY <1>1, <2>1, TypedKept DEF TypedInv
    <2> QED BY <1>1, <2>1, <2>2 DEF Extends
  <1>5. Typed(ast'[Len(ast) + 1], Len(ast) + 1, ast', trail'[Len(ast) + 1], fns)
    <2>1. Len(ast) + 1 \in 1..Len(ast) + 1 BY <1>1
    <2>2. Typed(n, Len(ast) + 1, ast', symTab, fns) BY <1>1, <1>2, <2>1, TypedKept
    <2> QED BY <1>1, <1>3, <2>1, <2>2
  <1>6. \A N \in Nat : \A d \in 1..N + 1 : d \in 1..N \/ d = N + 1 OBVIOUS
  <1>7. \A i \in 1..Len(ast') : i \in 1..Len(ast) \/ i = Len(ast) + 1 BY <1>1, <1>6
  <1> QED BY <1>4, <1>5, <1>7 DEF TypedInv

(* A statement leaves its node, and V the visits in progress.              *)
LEMMA StatementValues ==
    ASSUME Good, Good', trail # <<>>, ValueInv, fns' = fns,
           NEW k, k \notin ExprKinds, NEW x, NEW op, NEW kids, NEW res, NEW vs, NEW st,
           Record(k, x, op, kids, res, vs, st),
           NEW V \in Seq(Frames), OperandsGood(V, ast, fns), visiting' = V
    PROVE  ValueInv'
  <1>1. Extends(ast, ast') BY Growth
  <1>2. OperandsGood(V, ast', fns) BY <1>1, AlikeSelf, OperandsKept
  <1>3. Typed(Node(k, x, op, kids, res, IsLive(vs)), Len(ast) + 1, ast, symTab, fns)
    BY DEF Typed, Node, ExprKinds
  <1>4. TypedInv' BY <1>3, RecordTyped DEF ValueInv
  <1> QED BY <1>2, <1>4 DEF ValueInv, OperandInv

(* An expression leaves its node, and its value is one operand more.       *)
LEMMA DeliverValues ==
    ASSUME Good, Good', trail # <<>>, ValueInv,
           NEW k \in ExprKinds, NEW x, NEW op, NEW kids, NEW ty,
           NEW vs \in Seq(Frames), vs # <<>>, OperandsGood(vs, ast, fns),
           Deliver(vs, k, x, op, kids, ty),
           Typed(Node(k, x, op, kids, ty, IsLive(vs)), Len(ast) + 1, ast, symTab, fns)
    PROVE  ValueInv'
  <1>1. Record(k, x, op, kids, ty, vs, symTab) /\ fns' = fns BY DEF Deliver
  <1>2. /\ Extends(ast, ast') /\ Len(ast) \in Nat /\ Len(ast') = Len(ast) + 1
        /\ ast'[Len(ast) + 1] = Node(k, x, op, kids, ty, IsLive(vs))
    BY <1>1, Growth
  <1>3. TypedInv' BY <1>1, RecordTyped DEF ValueInv
  <1>4. OperandsGood(visiting', ast', fns)
    <2>1. CASE Last(vs).k \in BlockKinds
      <3>1. k \in NodeKinds \cup FrameKinds BY DEF NodeKinds
      <3>2. Alike(vs, Noted(vs, k)) BY <3>1, AlikeNoted
      <3>3. visiting' = Noted(vs, k) BY <2>1 DEF Deliver
      <3> QED BY <1>2, <3>2, <3>3, OperandsKept
    <2>2. CASE Last(vs).k \notin BlockKinds
      <3> DEFINE i == Len(ast) + 1
      <3>1. visiting' = [vs EXCEPT ![Len(vs)].kids = Append(@, i)] BY <2>2 DEF Deliver
      <3>2. OperandsGood(vs, ast', fns) BY <1>2, AlikeSelf, OperandsKept
      <3>3. i \in 1..Len(ast') /\ i \in Nat BY <1>2
      <3>4. ast'[i].k \in ExprKinds /\ (IsLive(vs) => ast'[i].live) BY <1>2 DEF Node
      <3> HIDE DEF i
      <3> QED BY <3>1, <3>2, <3>3, <3>4, OperandsMore
    <2> QED BY <2>1, <2>2
  <1> QED BY <1>1, <1>3, <1>4 DEF ValueInv, OperandInv

(* The operands of the visit that is about to end.                         *)
LEMMA TopOperands ==
    ASSUME Good, OperandInv, visiting # <<>>, Top.k \in Valued, NEW n,
           n.kids = Top.kids, n.live = IsLive(Below), NEW j \in 1..Len(Top.kids)
    PROVE  Operand(n, Len(ast) + 1, ast, j)
  <1>1. visiting \in Seq(Frames) /\ Len(ast) \in Nat
    BY LenProperties DEF Good, TcGood, TcTyped
  <1>2. Top = visiting[Len(visiting)] /\ Len(visiting) \in 1..Len(visiting)
    BY <1>1, LastLemma DEF Top
  <1>3. OperandsOf(visiting, Len(visiting), ast, fns) BY <1>2 DEF OperandInv, OperandsGood
  <1>4. IsLive(Below) => LiveTo(visiting, Len(visiting))
    <2>1. Len(visiting) \in Nat BY <1>1, LenProperties
    <2>2. /\ Len(Below) = Len(visiting) - 1
          /\ \A i \in 1..Len(visiting) - 1 : Below[i] = visiting[i]
      BY <1>1, FrontLemma DEF Below
    <2>3. \A i \in 1..Len(visiting) : i \in 1..Len(visiting) - 1 \/ i = Len(visiting)
      BY <2>1
    <2>4. ~Top.ret /\ Top.k \notin Hidden BY <1>2, <1>3 DEF OperandsOf, Valued, Hidden
    <2> QED BY <1>2, <2>2, <2>3, <2>4 DEF IsLive, LiveTo
  <1>5. /\ Top.kids[j] \in 1..Len(ast) /\ ast[Top.kids[j]].k \in ExprKinds
        /\ LiveTo(visiting, Len(visiting)) => ast[Top.kids[j]].live
    BY <1>2, <1>3 DEF OperandsOf
  <1>6. (Len(ast) + 1) - 1 = Len(ast) BY <1>1
  <1> QED BY <1>4, <1>5, <1>6 DEF Operand

-----------------------------------------------------------------------------
(* The typechecker's half, action by action.                               *)

LEMMA BelowOperands ==
    ASSUME Good, OperandInv, visiting # <<>>
    PROVE  Below \in Seq(Frames) /\ OperandsGood(Below, ast, fns)
  <1>1. visiting \in Seq(Frames) /\ Len(visiting) \in Nat
    BY LenProperties DEF Good, TcGood, TcTyped
  <1>2. /\ Below \in Seq(Frames) /\ Len(Below) = Len(visiting) - 1
        /\ \A i \in 1..Len(visiting) - 1 : Below[i] = visiting[i]
    BY <1>1, FrontLemma DEF Below
  <1>3. Len(Below) <= Len(visiting) BY <1>1, <1>2
  <1> QED BY <1>1, <1>2, <1>3, OperandsBelow DEF OperandInv

LEMMA NotedOperands ==
    ASSUME Good, OperandInv, visiting # <<>>, NEW k \in NodeKinds \cup FrameKinds
    PROVE  /\ Noted(visiting, k) \in Seq(Frames) /\ Noted(visiting, k) # <<>>
           /\ OperandsGood(Noted(visiting, k), ast, fns)
           /\ Alike(visiting, Noted(visiting, k))
  <1>1. visiting \in Seq(Frames) BY DEF Good, TcGood, TcTyped
  <1>2. Alike(visiting, Noted(visiting, k)) /\ Noted(visiting, k) \in Seq(Frames)
    BY <1>1, AlikeNoted
  <1>3. Extends(ast, ast) BY LenProperties DEF Good, TcGood, TcTyped, Extends
  <1>4. Noted(visiting, k) # <<>>
    <2>1. Len(visiting) # 0 BY <1>1, EmptySeq
    <2> QED BY <1>2, <2>1, EmptySeq DEF Alike, Marks
  <1> QED BY <1>1, <1>2, <1>3, <1>4, OperandsKept DEF OperandInv

LEMMA SameValues ==
    ASSUME ValueInv, UNCHANGED <<fns, ast, trail, visiting>>
    PROVE  ValueInv'
  BY DEF ValueInv, TypedInv, OperandInv

LEMMA VisitValues ==
    ASSUME Good, ValueInv, visiting # <<>>, NEW k \in FrameKinds, NEW x, NEW op, NEW proto,
           k = "call" => proto = Callee(fns, x), Visit(k, x, op, proto)
    PROVE  ValueInv'
  <1> DEFINE f == Frame(k, x, op, proto, 0)
  <1>1. /\ visiting' = Append(Noted(visiting, k), f)
        /\ fns' = fns /\ ast' = ast /\ trail' = trail
    BY DEF Visit
  <1>2. /\ f.kids = <<>> /\ ~f.ret
        /\ f.k = "call" => f.proto = Callee(fns, f.x)
    BY DEF Frame
  <1> HIDE DEF f
  <1>3. Noted(visiting, k) \in Seq(Frames) /\ OperandsGood(Noted(visiting, k), ast, fns)
    BY NotedOperands DEF ValueInv
  <1>4. OperandsGood(visiting', ast, fns) BY <1>1, <1>2, <1>3, OperandsPush
  <1> QED BY <1>1, <1>4 DEF ValueInv, TypedInv, OperandInv

(* A statement's node is recorded, its visit going on as f.                *)
LEMMA OpenValues ==
    ASSUME Good, Good', trail # <<>>, ValueInv, fns' = fns,
           NEW k, k \notin ExprKinds, NEW x, NEW op, NEW kids, NEW res, NEW us, NEW st,
           Record(k, x, op, kids, res, us, st),
           NEW vs \in Seq(Frames), OperandsGood(vs, ast, fns),
           NEW f, f.k \notin Valued, f.k # "call", visiting' = Append(vs, f)
    PROVE  ValueInv'
  <1>1. OperandsGood(visiting', ast, fns) BY OperandsPush
  <1>2. visiting' \in Seq(Frames) BY DEF Good, TcGood, TcTyped
  <1> DEFINE V == visiting'
  <1>3. V \in Seq(Frames) /\ OperandsGood(V, ast, fns) /\ visiting' = V BY <1>1, <1>2
  <1> HIDE DEF V
  <1> QED BY <1>3, StatementValues

LEMMA EnterBlockValues ==
    ASSUME Good, Good', trail # <<>>, ValueInv,
           NEW k, k \notin ExprKinds, NEW block \in BlockKinds,
           NEW x, NEW op, NEW kids, NEW st,
           NEW vs \in Seq(Frames), OperandsGood(vs, ast, fns),
           EnterBlock(vs, k, block, x, op, kids, st)
    PROVE  ValueInv'
  <1> DEFINE f == Frame(block, x, op, 0, Len(st) + 1)
  <1>1. /\ Record(k, x, op, kids, "none", vs, EnterScope(st)) /\ fns' = fns
        /\ visiting' = Append(vs, f)
    BY DEF EnterBlock
  <1>2. f.k \notin Valued /\ f.k # "call" BY DEF Frame, BlockKinds, Valued
  <1> HIDE DEF f
  <1> QED BY <1>1, <1>2, OpenValues

LEMMA ProgramValues ==
    ASSUME Good, Good', ValueInv, TypecheckProgram
    PROVE  ValueInv'
  <1>1. CASE DeclareFunctions
    <2>1. CASE UNCHANGED <<fns, ast, trail, visiting>> BY <2>1, SameValues
    <2>2. CASE phase = "declare" /\ UNCHANGED <<fns, ast, visiting>>
      <3>1. ast = <<>> /\ visiting = <<>> BY <2>2 DEF Good, ScopeInv, TrailInv
      <3>2. Len(ast') = 0 /\ Len(visiting') = 0 BY <2>2, <3>1, EmptySeq
      <3> QED BY <3>2 DEF ValueInv, TypedInv, OperandInv, OperandsGood
    <2> QED BY <1>1, <2>1, <2>2 DEF DeclareFunctions, Reject, Stop
  <1>2. CASE EnterFunction
    <2>1. CASE UNCHANGED <<fns, ast, trail, visiting>> BY <2>1, SameValues
    <2>2. CASE ~UNCHANGED <<fns, ast, trail, visiting>>
      <3>1. PICK st, V :
              /\ phase = "typecheck" /\ fns' = fns
              /\ Record("fn", fns[fnIdx + 1].name, "none", <<fnIdx + 1>>, "none", <<>>, st)
              /\ V = <<Frame("body", NoName, "none", fnIdx + 1, Len(symTab'))>>
              /\ visiting' = V
        BY <1>2, <2>2 DEF EnterFunction, Reject, Stop
      <3>2. trail # <<>> BY <3>1 DEF Good, ScopeInv, TrailInv
      <3>3. V \in Seq(Frames) BY <3>1 DEF Good, TcGood, TcTyped
      <3>4. OperandsGood(V, ast, fns)
        <4>1. Len(V) = 1 /\ V[1].k = "body" BY <3>1 DEF Frame
        <4>2. \A j \in 1..Len(V) : j = 1 BY <4>1
        <4> QED BY <4>1, <4>2 DEF OperandsGood, OperandsOf, Valued
      <3>5. "fn" \notin ExprKinds BY DEF ExprKinds
      <3> QED BY <3>1, <3>2, <3>3, <3>4, <3>5, StatementValues
    <2> QED BY <2>1, <2>2
  <1>3. CASE LeaveFunction
    <2>1. CASE UNCHANGED <<fns, ast, trail, visiting>> BY <2>1, SameValues
    <2>2. CASE ~UNCHANGED <<fns, ast, trail, visiting>>
      <3>1. /\ phase = "typecheck" /\ visiting # <<>> /\ fns' = fns
            /\ Record("end", NoName, "body", <<>>, "none", Below, LeaveScopes(symTab, 3))
            /\ visiting' = Below
        BY <1>3, <2>2 DEF LeaveFunction, Reject, Stop
      <3>2. trail # <<>> BY <3>1 DEF Good, ScopeInv, TrailInv
      <3>3. Below \in Seq(Frames) /\ OperandsGood(Below, ast, fns)
        BY <3>1, BelowOperands DEF ValueInv
      <3>4. "end" \notin ExprKinds BY DEF ExprKinds
      <3> QED BY <3>1, <3>2, <3>3, <3>4, StatementValues
    <2> QED BY <2>1, <2>2
  <1>4. CASE FinishTypecheck BY <1>4, SameValues DEF FinishTypecheck
  <1> QED BY <1>1, <1>2, <1>3, <1>4 DEF TypecheckProgram

LEMMA BlockValues ==
    ASSUME Good, Good', ValueInv, TypecheckBlock
    PROVE  ValueInv'
  <1>1. visiting # <<>> BY TypecheckInside
  <1>2. trail # <<>> BY <1>1 DEF Good, ScopeInv, TrailInv
  <1>3. Below \in Seq(Frames) /\ OperandsGood(Below, ast, fns)
    BY <1>1, BelowOperands DEF ValueInv
  <1>4. {"bare", "if", "else", "whilebody", "for", "end", "while", "forvar"}
           \cap ExprKinds = {}
    BY DEF ExprKinds
  <1>5. {"bare", "then", "else", "while", "for"} \subseteq BlockKinds BY DEF BlockKinds
  <1>6. CASE VisitStmtBlock
    <2>1. "bare" \in NodeKinds \cup FrameKinds BY DEF NodeKinds
    <2>2. /\ Noted(visiting, "bare") \in Seq(Frames)
          /\ OperandsGood(Noted(visiting, "bare"), ast, fns)
      BY <1>1, <2>1, NotedOperands DEF ValueInv
    <2>3. EnterBlock(Noted(visiting, "bare"), "bare", "bare", NoName, "none", <<>>, symTab)
      BY <1>6 DEF VisitStmtBlock
    <2> QED BY <1>2, <1>4, <1>5, <2>2, <2>3, EnterBlockValues
  <1>7. CASE LeaveStmtBlock
    <2>1. CASE EnterBlock(Below, "else", "else", NoName, "none", <<>>, LeaveScope(symTab))
      BY <1>2, <1>3, <1>4, <1>5, <2>1, EnterBlockValues
    <2>2. CASE \E st : /\ Record("end", NoName, Top.k, <<>>, "none", Below, st)
                       /\ visiting' = Below /\ fns' = fns
      BY <1>2, <1>3, <1>4, <2>2, StatementValues
    <2> QED BY <1>7, <2>1, <2>2 DEF LeaveStmtBlock
  <1>8. CASE VisitIf
    <2>1. PICK op : Visit("ifcond", NoName, op, 0) BY <1>8 DEF VisitIf
    <2>2. "ifcond" \in FrameKinds BY DEF FrameKinds, StmtKinds
    <2> QED BY <1>1, <2>1, <2>2, VisitValues
  <1>9. CASE EnterThen \/ EnterWhileBody \/ EnterForBody
    <2>1. \E k \in {"if", "whilebody", "for"} : \E block \in {"then", "while", "for"} :
             \E x, op : EnterBlock(Below, k, block, x, op, Top.kids, symTab)
      BY <1>9 DEF EnterThen, EnterWhileBody, EnterForBody
    <2> QED BY <1>2, <1>3, <1>4, <1>5, <2>1, EnterBlockValues
  <1>10. CASE VisitWhile
    <2> DEFINE f == Frame("whilecond", NoName, "none", 0, 0)
               vs == Noted(visiting, "while")
    <2>1. /\ Record("while", NoName, "none", <<>>, "none", visiting, symTab)
          /\ visiting' = Append(vs, f) /\ fns' = fns
      BY <1>10 DEF VisitWhile
    <2>2. f.k \notin Valued /\ f.k # "call" BY DEF Frame, Valued
    <2>3. "while" \in NodeKinds \cup FrameKinds BY DEF NodeKinds
    <2>4. vs \in Seq(Frames) /\ OperandsGood(vs, ast, fns)
      BY <1>1, <2>3, NotedOperands DEF ValueInv
    <2> HIDE DEF f, vs
    <2> QED BY <1>2, <1>4, <2>1, <2>2, <2>4, OpenValues
  <1>11. CASE VisitFor
    <2>1. CASE Reject BY <2>1, SameValues DEF Reject, Stop
    <2>2. CASE ~Reject
      <3> DEFINE vs == Noted(visiting, "for")
      <3>1. PICK x, st, f :
              /\ Record("forvar", x, "none", <<>>, "Type_int", visiting, st)
              /\ f = [Frame("forhdr", x, "none", 0, 0) EXCEPT !.kids = <<Len(ast) + 1>>]
              /\ visiting' = Append(vs, f) /\ fns' = fns
        BY <1>11, <2>2 DEF VisitFor
      <3>2. f.k \notin Valued /\ f.k # "call" BY <3>1 DEF Frame, Valued
      <3>3. "for" \in NodeKinds \cup FrameKinds BY DEF NodeKinds
      <3>4. vs \in Seq(Frames) /\ OperandsGood(vs, ast, fns)
        BY <1>1, <3>3, NotedOperands DEF ValueInv
      <3> HIDE DEF vs
      <3> QED BY <1>2, <1>4, <3>1, <3>2, <3>4, OpenValues
    <2> QED BY <2>1, <2>2
  <1> QED BY <1>6, <1>7, <1>8, <1>9, <1>10, <1>11 DEF TypecheckBlock

(* A return ends its block's statement list.                               *)
LEMMA ReturnedOperands ==
    ASSUME Good, NEW vs \in Seq(Frames), vs # <<>>, OperandsGood(vs, ast, fns),
           vs[Len(vs)].k \in BlockKinds
    PROVE  Returned(vs) \in Seq(Frames) /\ OperandsGood(Returned(vs), ast, fns)
  <1>1. Extends(ast, ast) BY LenProperties DEF Good, TcGood, TcTyped, Extends
  <1> QED BY <1>1, AlikeReturned, OperandsKept

(* A statement leaves its node and what is below it.                       *)
LEMMA FinishValues ==
    ASSUME Good, Good', trail # <<>>, ValueInv, visiting # <<>>,
           NEW k, k \notin ExprKinds, NEW x, NEW op, NEW kids, NEW res, NEW st,
           Finish(k, x, op, kids, res, st)
    PROVE  ValueInv'
  <1>1. Below \in Seq(Frames) /\ OperandsGood(Below, ast, fns)
    BY BelowOperands DEF ValueInv
  <1>2. Record(k, x, op, kids, res, Below, st) /\ visiting' = Below /\ fns' = fns
    BY DEF Finish
  <1> QED BY <1>1, <1>2, StatementValues

LEMMA ReturnValues ==
    ASSUME Good, Good', ValueInv, visiting # <<>>, trail # <<>>, VisitReturn \/ FinishReturn
    PROVE  ValueInv'
  <1>1. "return" \in NodeKinds \cup FrameKinds /\ "return" \in FrameKinds
        /\ "return" \notin ExprKinds
    BY DEF NodeKinds, FrameKinds, StmtKinds, ExprKinds
  <1>2. CASE VisitReturn
    <2>1. CASE \E how : Stop(how) BY <2>1, SameValues DEF Stop
    <2>2. CASE \E m : Visit("return", NoName, "none", m) BY <1>1, <2>2, VisitValues
    <2>3. CASE /\ Record("return", NoName, "none", <<>>, "none", visiting, symTab)
               /\ visiting' = Returned(Noted(visiting, "return")) /\ fns' = fns
      <3> DEFINE vs == Noted(visiting, "return")
      <3>1. /\ vs \in Seq(Frames) /\ vs # <<>> /\ OperandsGood(vs, ast, fns)
            /\ Alike(visiting, vs)
        BY <1>1, NotedOperands DEF ValueInv
      <3>2. Top.k \in BlockKinds /\ Top = visiting[Len(visiting)]
            /\ Len(visiting) \in 1..Len(visiting)
        BY <1>2, LastLemma DEF VisitReturn, AtStmt, Top, Good, TcGood, TcTyped
      <3> HIDE DEF vs
      <3>3. vs[Len(vs)].k \in BlockKinds BY <3>1, <3>2 DEF Alike, Marks
      <3>4. Returned(vs) \in Seq(Frames) /\ OperandsGood(Returned(vs), ast, fns)
        BY <3>1, <3>3, ReturnedOperands
      <3>5. visiting' = Returned(vs) BY <2>3 DEF vs
      <3> QED BY <1>1, <2>3, <3>4, <3>5, StatementValues
    <2> QED BY <1>2, <2>1, <2>2, <2>3 DEF VisitReturn, Reject
  <1>3. CASE FinishReturn
    <2>1. /\ Record("return", NoName, "none", Top.kids, "none", Below, symTab)
          /\ visiting' = Returned(Below) /\ fns' = fns /\ Top.k = "return"
      BY <1>3 DEF FinishReturn, Visited
    <2>2. ~IsBlock(Top) /\ Top.k \in StmtKinds BY <2>1 DEF IsBlock, BlockKinds, StmtKinds
    <2>3. Below # <<>> /\ Last(Below).k \in BlockKinds
      <3> PICK m \in Nat :
              /\ Base(Below, m) /\ m \in 1..Len(visiting) /\ Len(visiting) = m + 1
              /\ visiting[m + 1] = Top
              /\ Below \in Seq(Frames) /\ Below # <<>> /\ Len(Below) = m /\ Kept(m, Below)
              /\ VisitsGood(Below, ast, fns, phase) /\ Last(Below) = visiting[m]
              /\ Top.k \in StmtKinds => IsBlock(visiting[m])
        BY <2>2, BelowBase
      <3> QED BY <2>2 DEF IsBlock
    <2>4. Below \in Seq(Frames) /\ OperandsGood(Below, ast, fns)
      BY BelowOperands DEF ValueInv
    <2>5. Below[Len(Below)].k \in BlockKinds BY <2>3, <2>4, LastLemma
    <2>6. Returned(Below) \in Seq(Frames) /\ OperandsGood(Returned(Below), ast, fns)
      BY <2>3, <2>4, <2>5, ReturnedOperands
    <2> QED BY <1>1, <2>1, <2>6, StatementValues
  <1> QED BY <1>2, <1>3

LEMMA StmtValues ==
    ASSUME Good, Good', ValueInv, TypecheckStmt
    PROVE  ValueInv'
  <1>1. visiting # <<>> BY TypecheckInside
  <1>2. trail # <<>> BY <1>1 DEF Good, ScopeInv, TrailInv
  <1>3. {"vardecl", "arraydecl", "print", "abort", "assign", "elemaddr", "elemassign"}
           \cap ExprKinds = {}
    BY DEF ExprKinds
  <1>4. {"arraydecl", "print", "abort", "assign", "elemaddr"} \subseteq FrameKinds
    BY DEF FrameKinds, StmtKinds
  <1>5. CASE VisitVarDecl
    <2>1. CASE Reject BY <2>1, SameValues DEF Reject, Stop
    <2>2. CASE ~Reject
      <3> DEFINE V == Noted(visiting, "vardecl")
      <3>1. PICK x, type, st :
              /\ Record("vardecl", x, "none", <<>>, type, visiting, st)
              /\ visiting' = V /\ fns' = fns
        BY <1>5, <2>2 DEF VisitVarDecl
      <3>2. "vardecl" \in NodeKinds \cup FrameKinds BY DEF NodeKinds
      <3>3. V \in Seq(Frames) /\ OperandsGood(V, ast, fns)
        BY <1>1, <3>2, NotedOperands DEF ValueInv
      <3> HIDE DEF V
      <3> QED BY <1>2, <1>3, <3>1, <3>3, StatementValues
    <2> QED BY <2>1, <2>2
  <1>6. CASE VisitArrayDecl \/ VisitPrint \/ VisitAbort \/ VisitVarAssignment
             \/ VisitArrayAssignment
    <2>1. CASE Reject BY <2>1, SameValues DEF Reject, Stop
    <2>2. CASE ~Reject
      <3>1. \E k \in {"arraydecl", "print", "abort", "assign", "elemaddr"} :
               \E x, op : Visit(k, x, op, 0)
        BY <1>6, <2>2 DEF VisitArrayDecl, VisitPrint, VisitAbort, VisitVarAssignment,
                          VisitArrayAssignment
      <3> QED BY <1>1, <1>4, <3>1, VisitValues
    <2> QED BY <2>1, <2>2
  <1>7. CASE FinishArrayDecl \/ FinishPrint \/ FinishAbort \/ FinishVarAssignment
             \/ FinishArrayAssignment
    <2>1. CASE Reject BY <2>1, SameValues DEF Reject, Stop
    <2>2. CASE ~Reject
      <3>1. \E k \in {"arraydecl", "print", "abort", "assign", "elemassign"} :
               \E x, kids, res, st : Finish(k, x, "none", kids, res, st)
        BY <1>7, <2>2 DEF FinishArrayDecl, FinishPrint, FinishAbort, FinishVarAssignment,
                          FinishArrayAssignment
      <3> QED BY <1>1, <1>2, <1>3, <3>1, FinishValues
    <2> QED BY <2>1, <2>2
  <1>8. CASE VisitReturn \/ FinishReturn BY <1>1, <1>2, <1>8, ReturnValues
  <1>9. CASE VisitArrayAssignmentRhs
    <2> DEFINE f == [Top EXCEPT !.k = "elemassign"]
    <2>1. /\ Record("elemaddr", Top.x, "none", Top.kids, "none", Below, symTab)
          /\ visiting' = Append(Below, f) /\ fns' = fns
      BY <1>9 DEF VisitArrayAssignmentRhs
    <2>2. f.k \notin Valued /\ f.k # "call"
      <3>1. Top \in Frames BY <1>1, TopType
      <3> QED BY <3>1 DEF Frames, Valued
    <2>3. Below \in Seq(Frames) /\ OperandsGood(Below, ast, fns)
      BY <1>1, BelowOperands DEF ValueInv
    <2> HIDE DEF f
    <2> QED BY <1>2, <1>3, <2>1, <2>2, <2>3, OpenValues
  <1> QED BY <1>5, <1>6, <1>7, <1>8, <1>9 DEF TypecheckStmt

LEMMA LeafValues ==
    ASSUME Good, Good', ValueInv, TypecheckLeaf
    PROVE  ValueInv'
  <1>1. visiting # <<>> BY TypecheckInside
  <1>2. trail # <<>> /\ visiting \in Seq(Frames) /\ OperandsGood(visiting, ast, fns)
    BY <1>1 DEF Good, ScopeInv, TrailInv, TcGood, TcTyped, ValueInv, OperandInv
  <1>3. CASE VisitTrueFalse \/ VisitNum \/ VisitInput \/ VisitStringLiteral
    <2>1. PICK k, ty :
             /\ k \in {"bool", "num", "input", "string"}
             /\ Deliver(visiting, k, NoName, "none", <<>>, ty)
             /\ k = "bool" => ty = "Type_bool"
             /\ k \in {"num", "input"} => ty = "Type_int"
             /\ k = "string" => ty = "Literal_string"
      BY <1>3 DEF VisitTrueFalse, VisitNum, VisitInput, VisitStringLiteral, Leaf
    <2>2. k \in ExprKinds BY <2>1 DEF ExprKinds
    <2>3. Typed(Node(k, NoName, "none", <<>>, ty, IsLive(visiting)), Len(ast) + 1, ast,
                symTab, fns)
      BY <2>1 DEF Typed, Node
    <2> QED BY <1>1, <1>2, <2>1, <2>2, <2>3, DeliverValues
  <1>4. CASE VisitId
    <2>1. CASE \E how : Stop(how) BY <2>1, SameValues DEF Stop
    <2>2. CASE ~\E how : Stop(how)
      <3>1. PICK x \in Names :
              LET type == SymbolToTokenType(hasSymbol(symTab, x).type) IN
              CreatableValue(type) /\ Deliver(visiting, "id", x, "none", <<>>, type)
        BY <1>4, <2>2 DEF VisitId, Reject
      <3> DEFINE type == SymbolToTokenType(hasSymbol(symTab, x).type)
      <3>2. Typed(Node("id", x, "none", <<>>, type, IsLive(visiting)), Len(ast) + 1, ast,
                  symTab, fns)
        BY <3>1 DEF Typed, Node
      <3>3. "id" \in ExprKinds /\ Deliver(visiting, "id", x, "none", <<>>, type)
        BY <3>1 DEF ExprKinds
      <3> HIDE DEF type
      <3> QED BY <1>1, <1>2, <3>2, <3>3, DeliverValues
    <2> QED BY <2>1, <2>2
  <1> QED BY <1>3, <1>4 DEF TypecheckLeaf

(* An expression with operands ends.                                       *)
LEMMA FinishExprValues ==
    ASSUME Good, Good', ValueInv, visiting # <<>>, ~IsBlock(Top), NEW k \in ExprKinds,
           NEW x, NEW op, NEW ty, Deliver(Below, k, x, op, Top.kids, ty),
           Typed(Node(k, x, op, Top.kids, ty, IsLive(Below)), Len(ast) + 1, ast, symTab, fns)
    PROVE  ValueInv'
  <1>1. trail # <<>> BY DEF Good, ScopeInv, TrailInv
  <1>2. Below # <<>> BY BelowBase
  <1>3. Below \in Seq(Frames) /\ OperandsGood(Below, ast, fns)
    BY BelowOperands DEF ValueInv
  <1> DEFINE vs == Below
  <1>4. /\ vs \in Seq(Frames) /\ vs # <<>> /\ OperandsGood(vs, ast, fns)
        /\ Deliver(vs, k, x, op, Top.kids, ty)
        /\ Typed(Node(k, x, op, Top.kids, ty, IsLive(vs)), Len(ast) + 1, ast, symTab, fns)
    BY <1>2, <1>3
  <1> HIDE DEF vs
  <1> QED BY <1>1, <1>4, DeliverValues

LEMMA CompoundValues ==
    ASSUME Good, Good', ValueInv, TypecheckCompound
    PROVE  ValueInv'
  <1>1. visiting # <<>> BY TypecheckInside
  <1>2. \A k : Visited(k) => Top.k = k /\ phase = "typecheck" BY DEF Visited
  <1>3. /\ Visited("ternary") => Len(Top.kids) = 3
        /\ Visited("binop")   => Len(Top.kids) = 2
        /\ Visited("unary")   => Len(Top.kids) = 1
    BY DEF Visited, Arity
  <1>4. {"ternary", "binop", "unary", "sizeof", "elem", "call"} \subseteq FrameKinds \cap ExprKinds
    BY DEF FrameKinds, ExprKinds
  <1>5. \A k \in {"ternary", "binop", "unary", "sizeof", "elem", "call"} :
           Visited(k) => ~IsBlock(Top)
    BY <1>2 DEF IsBlock, BlockKinds
  <1>6. CASE VisitTernary \/ VisitBinop \/ VisitUnary \/ VisitSizeof \/ VisitArrayExpr
    <2>1. \E k \in {"ternary", "binop", "unary", "sizeof", "elem"} :
             \E x, op : Visit(k, x, op, 0)
      BY <1>6 DEF VisitTernary, VisitBinop, VisitUnary, VisitSizeof, VisitArrayExpr
    <2> QED BY <1>1, <1>4, <2>1, VisitValues
  <1>7. CASE VisitFnCall
    <2>1. CASE Reject BY <2>1, SameValues DEF Reject, Stop
    <2>2. CASE ~Reject
      <3>1. PICK x \in Names : /\ phase = "typecheck" /\ getFnProto(symTab, x) # 0
                               /\ Visit("call", x, "none", getFnProto(symTab, x))
        BY <1>7, <2>2 DEF VisitFnCall, AtExpr
      <3>2. symTab[1] = FnTable BY <3>1, ChainFacts
      <3>3. x \in Keys BY DEF Keys
      <3>4. FnTable[x].type = "Function" /\ getFnProto(symTab, x) = FnTable[x].proto
        BY <3>1, <3>2 DEF getFnProto
      <3>5. FnTable[x] = IF \E i \in 1..Len(fns) : fns[i].name = x
                         THEN FnInfo(CHOOSE i \in 1..Len(fns) : fns[i].name = x) ELSE NoSym
        BY <3>3 DEF FnTable
      <3>6. NoSym.type # "Function" /\ \A i : FnInfo(i).proto = i BY DEF NoSym, FnInfo
      <3>7. getFnProto(symTab, x) = Callee(fns, x) BY <3>4, <3>5, <3>6 DEF Callee
      <3> QED BY <1>1, <1>4, <3>1, <3>7, VisitValues
    <2> QED BY <2>1, <2>2
  <1>8. CASE FinishTernary
    <2>1. /\ Visited("ternary")
          /\ Deliver(Below, "ternary", NoName, "none", Top.kids, Res(Top.kids[2]))
      BY <1>8 DEF FinishTernary
    <2> DEFINE n == Node("ternary", NoName, "none", Top.kids, Res(Top.kids[2]), IsLive(Below))
    <2>2. n.kids = Top.kids /\ n.live = IsLive(Below) BY DEF Node
    <2>3. Top.k \in Valued /\ 2 \in 1..Len(Top.kids) BY <1>2, <1>3, <2>1 DEF Valued
    <2>4. Operand(n, Len(ast) + 1, ast, 2)
      <3> HIDE DEF n
      <3> QED BY <1>1, <2>2, <2>3, TopOperands DEF ValueInv
    <2>5. Typed(n, Len(ast) + 1, ast, symTab, fns) BY <2>4 DEF Typed, Node, Res
    <2> QED BY <1>1, <1>4, <1>5, <2>1, <2>5, FinishExprValues
  <1>9. CASE FinishBinop
    <2> DEFINE ty == BinopResult(Top.op, Res(Top.kids[1]), Res(Top.kids[2]))
               n == Node("binop", NoName, Top.op, Top.kids, ty, IsLive(Below))
    <2>1. Visited("binop") /\ Deliver(Below, "binop", NoName, Top.op, Top.kids, ty)
      BY <1>9 DEF FinishBinop
    <2>2. n.kids = Top.kids /\ n.live = IsLive(Below) BY DEF Node
    <2>3. Top.k \in Valued /\ 1 \in 1..Len(Top.kids) /\ 2 \in 1..Len(Top.kids)
          /\ Top.k = "binop" /\ Len(Top.kids) = 2
      BY <1>2, <1>3, <2>1 DEF Valued
    <2>4. Operand(n, Len(ast) + 1, ast, 1) /\ Operand(n, Len(ast) + 1, ast, 2)
      <3> HIDE DEF n
      <3> QED BY <1>1, <2>2, <2>3, TopOperands DEF ValueInv
    <2>5. ty # "Err"
      <3>1. FrameGood(Top, ast, fns, phase) /\ phase = "typecheck" BY <1>1, <1>2, <2>1, TopType
      <3> QED BY <2>3, <3>1 DEF FrameGood, Res
    <2>6. Typed(n, Len(ast) + 1, ast, symTab, fns)
      <3>1. /\ n.k = "binop" /\ n.res = ty /\ n.op = Top.op /\ n.kids = Top.kids BY DEF Node
      <3>2. ty = BinopResult(Top.op, ast[Top.kids[1]].res, ast[Top.kids[2]].res) BY DEF Res
      <3> HIDE DEF n, ty
      <3> QED BY <2>4, <2>5, <3>1, <3>2 DEF Typed
    <2> HIDE DEF ty
    <2> QED BY <1>1, <1>4, <1>5, <2>1, <2>6, FinishExprValues
  <1>10. CASE FinishUnary
    <2>1. /\ Visited("unary")
          /\ Deliver(Below, "unary", NoName, Top.op, Top.kids, Res(Top.kids[1]))
      BY <1>10 DEF FinishUnary
    <2> DEFINE n == Node("unary", NoName, Top.op, Top.kids, Res(Top.kids[1]), IsLive(Below))
    <2>2. n.kids = Top.kids /\ n.live = IsLive(Below) BY DEF Node
    <2>3. Top.k \in Valued /\ 1 \in 1..Len(Top.kids) BY <1>2, <1>3, <2>1 DEF Valued
    <2>4. Operand(n, Len(ast) + 1, ast, 1)
      <3> HIDE DEF n
      <3> QED BY <1>1, <2>2, <2>3, TopOperands DEF ValueInv
    <2>5. Typed(n, Len(ast) + 1, ast, symTab, fns) BY <2>4 DEF Typed, Node, Res
    <2> QED BY <1>1, <1>4, <1>5, <2>1, <2>5, FinishExprValues
  <1>11. CASE FinishSizeof \/ FinishArrayExpr
    <2>1. PICK k, x :
             /\ k \in {"sizeof", "elem"} /\ Visited(k)
             /\ Deliver(Below, k, x, "none", Top.kids, "Type_int")
      BY <1>11 DEF FinishSizeof, FinishArrayExpr
    <2>2. Typed(Node(k, x, "none", Top.kids, "Type_int", IsLive(Below)), Len(ast) + 1, ast,
                symTab, fns)
      BY <2>1 DEF Typed, Node
    <2> QED BY <1>1, <1>4, <1>5, <2>1, <2>2, FinishExprValues
  <1>12. CASE FinishFnCall
    <2>1. /\ Visited("call")
          /\ Deliver(Below, "call", Top.x, "none", Top.kids, fns[Top.proto].type)
      BY <1>12 DEF FinishFnCall
    <2>2. Top.proto = Callee(fns, Top.x)
      <3>1. visiting \in Seq(Frames) BY DEF Good, TcGood, TcTyped
      <3>2. Top = visiting[Len(visiting)] /\ Len(visiting) \in 1..Len(visiting)
        BY <1>1, <3>1, LastLemma DEF Top
      <3> QED BY <1>2, <2>1, <3>2 DEF ValueInv, OperandInv, OperandsGood, OperandsOf
    <2>3. fns[Top.proto].type \in TypeTokens
      <3>1. Top.proto \in 1..Len(fns)
        <4>1. FrameGood(Top, ast, fns, phase) /\ phase = "typecheck" BY <1>1, <1>2, <2>1, TopType
        <4> QED BY <1>2, <2>1, <4>1 DEF FrameGood
      <3>2. fns \in Seq(Prototype) BY ProtosAssumption DEF Good, TcGood, TcTyped
      <3>3. fns[Top.proto] \in Prototype BY <3>1, <3>2, ElementOfSeq
      <3> QED BY <3>3 DEF Prototype
    <2>4. Typed(Node("call", Top.x, "none", Top.kids, fns[Top.proto].type, IsLive(Below)),
                Len(ast) + 1, ast, symTab, fns)
      BY <2>2, <2>3 DEF Typed, Node
    <2> QED BY <1>1, <1>4, <1>5, <2>1, <2>4, FinishExprValues
  <1> QED BY <1>6, <1>7, <1>8, <1>9, <1>10, <1>11, <1>12 DEF TypecheckCompound

-----------------------------------------------------------------------------
(* The code generator.                                                     *)

(* The LLVM type that a result of the typechecker's stands for.            *)
LLVMOf(res) == IF res = "Literal_string" THEN "i8*" ELSE CreateLLVMType(res)

(* A step of it leaves what the typechecker has established.               *)
LEMMA RestValues ==
    ASSUME ValueInv, Rest
    PROVE  ValueInv'
  <1>1. UNCHANGED <<fns, ast, trail, visiting>> BY DEF Rest, shared, tcVars
  <1> QED BY <1>1, SameValues

(* The run ends.                                                           *)
LEMMA HaltValues ==
    ASSUME ValueTypes, Rest, NEW how, Halt(how)
    PROVE  ValueTypes'
  <1>1. ast' = ast /\ pc' = pc /\ val' = val BY DEF Rest, shared, Halt, cgVars
  <1> QED BY <1>1 DEF ValueTypes

(* A node is passed, with the value it should have if it is an expression. *)
LEMMA YieldValues ==
    ASSUME IndInv, ValueTypes, Rest, phase = "codegen", pc <= Len(ast), NEW ty, Yield(ty),
           node.live /\ node.k \in ExprKinds => ty = LLVMOf(node.res)
    PROVE  ValueTypes'
  <1>1. ast' = ast /\ pc' = pc + 1 /\ val' = Append(val, ty)
    BY DEF Rest, shared, Yield
  <1>2. pc \in Nat /\ pc \in 1..Len(ast) BY NodeHere
  <1>3. Len(val) = pc - 1 /\ \A i \in 1..(pc - 1) : val'[i] = val[i]
    <2>1. PICK S : val \in Seq(S) /\ Len(val) = pc - 1 BY DEF IndInv, CgTyped
    <2>2. S \subseteq S \cup {ty} /\ ty \in S \cup {ty} OBVIOUS
    <2>3. val \in Seq(S \cup {ty}) BY <2>1, <2>2, SeqMonotonic
    <2> QED BY <1>1, <2>1, <2>2, <2>3, PushLemma
  <1>4. val'[pc] = ty
    <2>1. PICK S : val \in Seq(S) /\ Len(val) = pc - 1 BY DEF IndInv, CgTyped
    <2>2. S \subseteq S \cup {ty} /\ ty \in S \cup {ty} OBVIOUS
    <2>3. val \in Seq(S \cup {ty}) BY <2>1, <2>2, SeqMonotonic
    <2>4. Append(val, ty)[Len(val) + 1] = ty BY <2>2, <2>3, PushLemma
    <2> QED BY <1>1, <1>2, <2>1, <2>4
  <1>5. ASSUME NEW i \in 1..pc, ast[i].live, ast[i].k \in ExprKinds
        PROVE  val'[i] = LLVMOf(ast[i].res)
    <2>1. CASE i = pc BY <1>4, <1>5, <2>1 DEF node
    <2>2. CASE i # pc
      <3>1. i \in 1..(pc - 1) BY <1>2, <2>2
      <3> QED BY <1>3, <1>5, <3>1 DEF ValueTypes, LLVMOf
    <2> QED BY <2>1, <2>2
  <1>6. pc' - 1 = pc BY <1>1, <1>2
  <1> QED BY <1>1, <1>5, <1>6 DEF ValueTypes, LLVMOf

(* Nothing is asked of a node that is no expression.                       *)
LEMMA OtherValues ==
    ASSUME IndInv, ValueTypes, Rest, NEW k, At(k), k \notin ExprKinds, NEW ty, Yield(ty)
    PROVE  ValueTypes'
  <1>1. phase = "codegen" /\ pc <= Len(ast) /\ node.k \notin ExprKinds BY DEF At
  <1> QED BY <1>1, YieldValues

LEMMA ProgramTypes ==
    ASSUME IndInv, ValueTypes, Rest, CodegenProgram
    PROVE  ValueTypes'
  <1>1. CASE CreateFunctions \/ EndProgram
    <2>1. Halt("failed") \/ Halt("OK") BY <1>1 DEF CreateFunctions, EndProgram
    <2> QED BY <2>1, HaltValues
  <1>2. CASE BeginFunction \/ EndFunction
    <2>1. \E k \in {"fn", "end"} : At(k) /\ Yield("none")
      BY <1>2 DEF BeginFunction, EndFunction
    <2> QED BY <2>1, OtherValues DEF ExprKinds
  <1>3. CASE PassOver
    <2>1. phase = "codegen" /\ pc <= Len(ast) /\ ~node.live /\ Yield("none")
      BY <1>3 DEF PassOver
    <2> QED BY <2>1, YieldValues
  <1> QED BY <1>1, <1>2, <1>3 DEF CodegenProgram

LEMMA BlockTypes ==
    ASSUME IndInv, ValueTypes, Rest, CodegenBlock
    PROVE  ValueTypes'
  <1>1. CASE For
    <2>1. At("for") /\ (Halt("failed") \/ Halt("crash") \/ Yield("none"))
      BY <1>1 DEF For, Statement
    <2> QED BY <2>1, HaltValues, OtherValues DEF ExprKinds
  <1>2. CASE ~For
    <2>1. \E k \in {"bare", "end", "if", "else", "while", "whilebody", "forvar"} :
             At(k) /\ Yield("none")
      BY <1>2 DEF CodegenBlock, EnterBare, LeaveBare, If, Else, EndIf, While, WhileBody,
                  EndLoop, ForIdent, Statement, CloseScope
    <2> QED BY <2>1, OtherValues DEF ExprKinds
  <1> QED BY <1>1, <1>2

LEMMA StmtTypes ==
    ASSUME IndInv, ValueTypes, Rest, CodegenStmt
    PROVE  ValueTypes'
  <1>1. CASE VarDecl \/ ArrayDecl \/ PrintArg \/ Abort \/ Return
    <2>1. \E k \in {"vardecl", "arraydecl", "print", "abort", "return"} :
             At(k) /\ \E ty : Yield(ty)
      BY <1>1, Zenon DEF VarDecl, ArrayDecl, PrintArg, Abort, Return, Statement
    <2> QED BY <2>1, OtherValues DEF ExprKinds
  <1>2. CASE VarAssignment \/ ArrayAssignmentIndex \/ ArrayAssignment
    <2>1. \E k \in {"assign", "elemaddr", "elemassign"} :
             At(k) /\ (Halt("failed") \/ Halt("crash") \/ Yield("none"))
      BY <1>2, Zenon DEF VarAssignment, ArrayAssignmentIndex, ArrayAssignment, Indexing
    <2> QED BY <2>1, HaltValues, OtherValues DEF ExprKinds
  <1> QED BY <1>1, <1>2 DEF CodegenStmt

-----------------------------------------------------------------------------
(* The value of an expression.                                             *)

LEMMA ExprValue ==
    ASSUME IndInv, ValueTypes, Rest, NEW k, At(k), NEW ty, Yield(ty), ty = LLVMOf(node.res)
    PROVE  ValueTypes'
  <1>1. phase = "codegen" /\ pc <= Len(ast) BY DEF At
  <1> QED BY <1>1, YieldValues

(* An operand of a node the visitor reaches has its value by then.         *)
LEMMA OperandValue ==
    ASSUME IndInv, ValueTypes, NEW k, At(k), NEW j, Operand(node, pc, ast, j)
    PROVE  kid(j) = LLVMOf(ast[node.kids[j]].res)
  BY DEF At, Operand, ValueTypes, LLVMOf, kid

LEMMA NodeTyped ==
    ASSUME IndInv, ValueInv, NEW k, At(k)
    PROVE  Typed(node, pc, ast, trail[pc], fns)
  <1>1. phase = "codegen" /\ pc <= Len(ast) BY DEF At
  <1> QED BY <1>1, NodeHere DEF ValueInv, TypedInv, node

LEMMA LLVMOfTypes ==
    /\ LLVMOf("Type_bool") = "i1" /\ LLVMOf("Type_int") = IntN(Width)
    /\ LLVMOf("Literal_string") = "i8*"
    /\ UpdateToIntWidth("i64", Width) = IntN(Width)
  BY DEF LLVMOf, CreateLLVMType, UpdateToIntWidth

(* A name's value is that of what it was resolved to, which is a variable. *)
LEMMA IdTypes ==
    ASSUME IndInv, ValueInv, ValueTypes, Rest, Id
    PROVE  ValueTypes'
  <1>1. At("id") /\ node.k = "id" /\ phase = "codegen" /\ pc <= Len(ast) /\ node.live
    BY DEF Id, At
  <1>2. CASE Halt("failed") BY <1>2, HaltValues
  <1>3. CASE ~Halt("failed")
    <2> DEFINE s == hasSymbol(trail[pc], node.x)
    <2>1. Yield(named[node.x].ty) BY <1>3 DEF Id
    <2>2. /\ node.x \in Names /\ CreatableValue(node.res)
          /\ node.res = SymbolToTokenType(s.type)
      BY <1>1, NodeTyped DEF Typed
    <2> HIDE DEF s
    <2>3. /\ s.type \in {"Array", "Int", "Void", "Bool"} /\ node.res # "Literal_string"
      BY <2>2 DEF CreatableValue, ResultTokens, TypeTokens, SymbolToTokenType
    <2>4. IsSym(s) /\ s.type # "Function" BY <2>3 DEF IsSym, NoSym
    <2>5. node.x # NoName BY <2>2, NoNameAssumption DEF Keys
    <2>6. named[node.x] = AllocaOf(s.decl, CreateLLVMType(SymbolToTokenType(s.type)))
      BY <1>1, <2>4, <2>5, NameBound DEF BindingAgreement, Lookups, s
    <2>7. named[node.x].ty = LLVMOf(node.res) BY <2>2, <2>3, <2>6 DEF AllocaOf, LLVMOf
    <2> QED BY <1>1, <2>1, <2>7, ExprValue
  <1> QED BY <1>2, <1>3

LEMMA BinopTypes ==
    ASSUME IndInv, ValueInv, ValueTypes, Rest, Binop
    PROVE  ValueTypes'
  <1> DEFINE op == node.op
             l  == ast[node.kids[1]].res
             ty == CASE isAndOr(op)   -> kid(1)
                     [] isCompOp(op)  -> "i1"
                     [] op = "Op_exp" -> IntN(Width)
                     [] OTHER         -> kid(1)
  <1>1. At("binop") /\ node.k = "binop" /\ Yield(ty) BY DEF Binop, Computed, At
  <1>2. /\ Operand(node, pc, ast, 1)
        /\ node.res = BinopResult(op, l, ast[node.kids[2]].res) /\ node.res # "Err"
    BY <1>1, NodeTyped DEF Typed
  <1>3. kid(1) = LLVMOf(l) BY <1>1, <1>2, OperandValue
  <1> HIDE DEF op, l
  <1>4. CASE isAndOr(op)
    <2>1. l = "Type_bool" /\ node.res = "Type_bool"
      BY <1>2, <1>4 DEF BinopResult, isAndOr, isEqOrNeq, isCompOp
    <2>2. ty = kid(1) BY <1>4 DEF isAndOr, isCompOp
    <2> QED BY <1>1, <1>3, <2>1, <2>2, ExprValue
  <1>5. CASE isCompOp(op)
    <2>1. node.res = "Type_bool"
      BY <1>2, <1>5 DEF BinopResult, isAndOr, isEqOrNeq, isCompOp
    <2>2. ty = "i1" BY <1>5 DEF isAndOr, isCompOp
    <2> QED BY <1>1, <2>1, <2>2, LLVMOfTypes, ExprValue
  <1>6. CASE ~isAndOr(op) /\ ~isCompOp(op)
    <2>1. l = "Type_int" /\ node.res = "Type_int"
      BY <1>2, <1>6 DEF BinopResult, isAndOr, isEqOrNeq, isCompOp
    <2>2. ty = IntN(Width) \/ ty = kid(1) BY <1>6
    <2> QED BY <1>1, <1>3, <2>1, <2>2, LLVMOfTypes, ExprValue
  <1> QED BY <1>4, <1>5, <1>6

LEMMA ExprTypes ==
    ASSUME IndInv, ValueInv, ValueTypes, Rest, CodegenExpr
    PROVE  ValueTypes'
  <1>1. CASE TrueFalse \/ Num \/ StringLiteral \/ Input
    <2>1. \E k \in {"bool", "num", "string", "input"} : At(k) /\ node.k = k
      BY <1>1 DEF TrueFalse, Num, StringLiteral, Input, At
    <2>2. Typed(node, pc, ast, trail[pc], fns) BY <2>1, NodeTyped
    <2>3. Yield(LLVMOf(node.res))
      BY <1>1, <2>1, <2>2, LLVMOfTypes
      DEF Typed, TrueFalse, Num, StringLiteral, Input, Constant, Computed, At
    <2> QED BY <2>1, <2>3, ExprValue
  <1>2. CASE Id BY <1>2, IdTypes
  <1>3. CASE Binop BY <1>3, BinopTypes
  <1>4. CASE Ternary
    <2>1. At("ternary") /\ node.k = "ternary" /\ Yield(kid(2))
      BY <1>4 DEF Ternary, Computed, At
    <2>2. Operand(node, pc, ast, 2) /\ node.res = ast[node.kids[2]].res
      BY <2>1, NodeTyped DEF Typed
    <2> QED BY <2>1, <2>2, OperandValue, ExprValue
  <1>5. CASE Unary
    <2>1. At("unary") /\ node.k = "unary" /\ Yield(kid(1))
      BY <1>5 DEF Unary, Computed, At
    <2>2. Operand(node, pc, ast, 1) /\ node.res = ast[node.kids[1]].res
      BY <2>1, NodeTyped DEF Typed
    <2> QED BY <2>1, <2>2, OperandValue, ExprValue
  <1>6. CASE Sizeof \/ ArrayExpr
    <2> DEFINE out == Halt("failed") \/ Halt("crash") \/ Yield(IntN(Width))
    <2>1. CASE Sizeof
      <3>1. At("sizeof") /\ out BY <2>1, Zenon DEF Sizeof
      <3> QED BY <3>1, NodeTyped, HaltValues, LLVMOfTypes, ExprValue DEF At, Typed
    <2>2. CASE ArrayExpr
      <3>1. At("elem") /\ out BY <2>2, Zenon DEF ArrayExpr, Indexing
      <3> QED BY <3>1, NodeTyped, HaltValues, LLVMOfTypes, ExprValue DEF At, Typed
    <2> QED BY <1>6, <2>1, <2>2
  <1>7. CASE FnCall
    <2>1. At("call") /\ node.k = "call" BY <1>7 DEF FnCall, At
    <2>2. Yield(CreateLLVMType(fns[Callee(fns, node.x)].type))
      BY <1>7 DEF FnCall, Computed, Callee
    <2>3. node.res = fns[Callee(fns, node.x)].type /\ node.res \in TypeTokens
      BY <2>1, NodeTyped DEF Typed
    <2>4. LLVMOf(node.res) = CreateLLVMType(node.res) BY <2>3 DEF LLVMOf, TypeTokens
    <2> QED BY <2>1, <2>2, <2>3, <2>4, ExprValue
  <1> QED BY <1>1, <1>2, <1>3, <1>4, <1>5, <1>6, <1>7 DEF CodegenExpr

-----------------------------------------------------------------------------
(* Both invariants, with IndInv.                                           *)

LEMMA InitValues ==
    ASSUME Init
    PROVE  ValueInv /\ ValueTypes
  <1>1. ast = <<>> /\ visiting = <<>> /\ pc = 1 BY DEF Init, TypecheckerInit, CodegenInit
  <1>2. Len(ast) = 0 /\ Len(visiting) = 0 BY <1>1, EmptySeq
  <1> QED BY <1>1, <1>2
       DEF ValueInv, TypedInv, OperandInv, OperandsGood, ValueTypes

(* Code generation has not begun.                                          *)
LEMMA UnbegunTypes ==
    ASSUME IndInv, phase \in {"declare", "typecheck"}, UNCHANGED cgVars
    PROVE  ValueTypes'
  <1>1. pc' = 1 BY DEF cgVars, IndInv, AgreeInv
  <1> QED BY <1>1 DEF ValueTypes

LEMMA NextValues ==
    ASSUME IndInv, IndInv', ValueInv, ValueTypes, [Next]_vars
    PROVE  (ValueInv /\ ValueTypes)'
  <1>1. Good /\ Good' BY DEF IndInv
  <1>2. CASE TypecheckerNext /\ UNCHANGED cgVars
    <2>1. phase \in {"declare", "typecheck"} BY <1>2, TypecheckPhase
    <2>2. ValueInv'
      BY <1>1, <1>2, ProgramValues, BlockValues, StmtValues, LeafValues, CompoundValues
      DEF TypecheckerNext
    <2> QED BY <1>2, <2>1, <2>2, UnbegunTypes
  <1>3. CASE (CodegenProgram \/ CodegenBlock \/ CodegenStmt \/ CodegenExpr) /\ Rest
    BY <1>3, RestValues, ProgramTypes, BlockTypes, StmtTypes, ExprTypes
  <1>4. CASE UNCHANGED vars
    <2>1. Rest /\ pc' = pc /\ val' = val BY <1>4 DEF vars, cgVars, Rest
    <2>2. ValueInv' BY <2>1, RestValues
    <2>3. ast' = ast BY <2>1 DEF Rest, shared
    <2> QED BY <2>1, <2>2, <2>3 DEF ValueTypes
  <1> QED BY <1>2, <1>3, <1>4 DEF Next, Ended, TypecheckerNext, Rest

(* The LLVM value of every expression that the code generator has passed   *)
(* has the type that the typechecker's result for it stands for.           *)
THEOREM ValuesTyped == Spec => []ValueTypes
  <1>1. Init => ValueInv /\ ValueTypes BY InitValues
  <1>2. IndInv /\ IndInv' /\ ValueInv /\ ValueTypes /\ [Next]_vars => (ValueInv /\ ValueTypes)'
    BY NextValues
  <1>3. Spec => []IndInv BY Inductive
  <1> QED BY <1>1, <1>2, <1>3, PTL DEF Spec

-----------------------------------------------------------------------------
(* Why the saves are balanced: instructions and basic blocks.              *)

(* Sequences of instructions.                                              *)
LEMMA SequenceLen ==
    ASSUME NEW s, Sequence(s)
    PROVE  Len(s) \in Nat
  BY LenProperties DEF Sequence

LEMMA SequencesJoin ==
    ASSUME NEW a, NEW b, Sequence(a), Sequence(b)
    PROVE  /\ Sequence(a \o b)
           /\ Len(a) \in Nat /\ Len(b) \in Nat /\ Len(a \o b) = Len(a) + Len(b)
           /\ \A n \in 1..Len(a) : (a \o b)[n] = a[n]
           /\ \A n \in 1..Len(b) : (a \o b)[Len(a) + n] = b[n]
           /\ \A n \in 1..Len(a \o b) : \/ n \in 1..Len(a)
                                        \/ n - Len(a) \in 1..Len(b) /\ n = Len(a) + (n - Len(a))
  <1>1. PICK S : a \in Seq(S) BY DEF Sequence
  <1>2. PICK T : b \in Seq(T) BY DEF Sequence
  <1>3. a \in Seq(S \cup T) /\ b \in Seq(S \cup T) BY <1>1, <1>2, SeqMonotonic
  <1>4. Len(a) \in Nat /\ Len(b) \in Nat BY <1>3, LenProperties
  <1>5. /\ a \o b \in Seq(S \cup T) /\ Len(a \o b) = Len(a) + Len(b)
        /\ \A i \in 1..Len(a) + Len(b) :
              (a \o b)[i] = IF i <= Len(a) THEN a[i] ELSE b[i - Len(a)]
    BY <1>3, ConcatProperties
  <1>6. \A n \in 1..Len(a) : n \in 1..Len(a) + Len(b) /\ n <= Len(a) BY <1>4
  <1>7. \A n \in 1..Len(b) : /\ Len(a) + n \in 1..Len(a) + Len(b)
                             /\ ~(Len(a) + n <= Len(a)) /\ (Len(a) + n) - Len(a) = n
    BY <1>4
  <1>8. Sequence(a \o b) BY <1>5 DEF Sequence
  <1>9. \A n \in 1..Len(a) + Len(b) : \/ n \in 1..Len(a)
                                      \/ n - Len(a) \in 1..Len(b) /\ n = Len(a) + (n - Len(a))
    BY <1>4
  <1> HIDE DEF Sequence
  <1> QED BY <1>4, <1>5, <1>6, <1>7, <1>8, <1>9

(* One after the other.                                                    *)
LEMMA NeutralJoin ==
    ASSUME NEW a, NEW b, Sequence(a), Sequence(b)
    PROVE  /\ Neutral(a) /\ Neutral(b) => Neutral(a \o b)
           /\ Exits(a \o b) = Exits(a) \cup Exits(b)
  <1>1. /\ Len(a) \in Nat /\ Len(b) \in Nat /\ Len(a \o b) = Len(a) + Len(b)
        /\ \A n \in 1..Len(a) : (a \o b)[n] = a[n]
        /\ \A n \in 1..Len(b) : (a \o b)[Len(a) + n] = b[n]
        /\ \A n \in 1..Len(a \o b) : \/ n \in 1..Len(a)
                                     \/ n - Len(a) \in 1..Len(b) /\ n = Len(a) + (n - Len(a))
    BY SequencesJoin
  <1> DEFINE ab == a \o b
  <1>2. /\ Len(ab) = Len(a) + Len(b)
        /\ \A n \in 1..Len(ab) : \/ \E m \in 1..Len(a) : ab[n] = a[m]
                                 \/ \E m \in 1..Len(b) : ab[n] = b[m]
        /\ \A n \in 1..Len(a) : n \in 1..Len(ab) /\ ab[n] = a[n]
        /\ \A n \in 1..Len(b) : Len(a) + n \in 1..Len(ab) /\ ab[Len(a) + n] = b[n]
    BY <1>1
  <1> HIDE DEF ab
  <1>3. Neutral(a) /\ Neutral(b) => Neutral(ab) BY <1>2 DEF Neutral
  <1>4. ASSUME NEW x \in Exits(ab) PROVE x \in Exits(a) \cup Exits(b)
    <2>1. PICK n \in 1..Len(ab) : x \in ToSet(ab[n].to) BY DEF Exits
    <2>2. CASE \E m \in 1..Len(a) : ab[n] = a[m] BY <2>1, <2>2 DEF Exits
    <2>3. CASE \E m \in 1..Len(b) : ab[n] = b[m] BY <2>1, <2>3 DEF Exits
    <2> QED BY <1>2, <2>2, <2>3
  <1>5. Exits(a) \subseteq Exits(ab) BY <1>2 DEF Exits
  <1>6. Exits(b) \subseteq Exits(ab) BY <1>2 DEF Exits
  <1> QED BY <1>3, <1>4, <1>5, <1>6 DEF ab

LEMMA RunsJoin ==
    ASSUME NEW a, NEW b, Sequence(a), Sequence(b), NEW s, NEW t, NEW u,
           Runs(a, s, t), Runs(b, t, u)
    PROVE  Runs(a \o b, s, u)
  <1>1. PICK g : /\ g[0] = s /\ g[Len(a)] = t
                 /\ \A n \in 1..Len(a) : g[n] = Effect(a[n], g[n - 1])
    BY DEF Runs
  <1>2. PICK h : /\ h[0] = t /\ h[Len(b)] = u
                 /\ \A n \in 1..Len(b) : h[n] = Effect(b[n], h[n - 1])
    BY DEF Runs
  <1> DEFINE ab == a \o b
             e == [n \in 0..Len(ab) |-> IF n <= Len(a) THEN g[n] ELSE h[n - Len(a)]]
  <1>3. /\ Len(a) \in Nat /\ Len(b) \in Nat /\ Len(ab) = Len(a) + Len(b)
        /\ \A n \in 1..Len(a) : ab[n] = a[n]
        /\ \A n \in 1..Len(b) : ab[Len(a) + n] = b[n]
        /\ \A n \in 1..Len(ab) : \/ n \in 1..Len(a)
                                 \/ n - Len(a) \in 1..Len(b) /\ n = Len(a) + (n - Len(a))
    BY SequencesJoin
  <1> HIDE DEF ab
  <1>4. /\ \A n \in 0..Len(a) : e[n] = g[n]
        /\ \A n \in 0..Len(b) : e[Len(a) + n] = h[n]
    <2>1. ASSUME NEW n \in 0..Len(a) PROVE e[n] = g[n]
      <3>1. n \in 0..Len(ab) /\ n <= Len(a) BY <1>3
      <3> QED BY <3>1
    <2>2. ASSUME NEW n \in 0..Len(b) PROVE e[Len(a) + n] = h[n]
      <3>1. Len(a) + n \in 0..Len(ab) /\ (Len(a) + n) - Len(a) = n BY <1>3
      <3>2. CASE n = 0
        <4>1. Len(a) + n = Len(a) /\ Len(a) \in 0..Len(a) BY <1>3, <3>2
        <4> HIDE DEF e
        <4> QED BY <1>1, <1>2, <2>1, <3>2, <4>1
      <3>3. CASE n # 0
        <4>1. ~(Len(a) + n <= Len(a)) BY <1>3, <3>3
        <4> QED BY <3>1, <4>1
      <3> QED BY <3>2, <3>3
    <2> QED BY <2>1, <2>2
  <1> HIDE DEF e
  <1>5. e[0] = s /\ e[Len(ab)] = u
    <2>1. 0 \in 0..Len(a) /\ Len(b) \in 0..Len(b) BY <1>3
    <2> QED BY <1>1, <1>2, <1>3, <1>4, <2>1
  <1>6. ASSUME NEW n \in 1..Len(ab) PROVE e[n] = Effect(ab[n], e[n - 1])
    <2>1. CASE n \in 1..Len(a)
      <3>1. n \in 0..Len(a) /\ n - 1 \in 0..Len(a) BY <1>3, <2>1
      <3>2. e[n] = g[n] /\ e[n - 1] = g[n - 1] /\ ab[n] = a[n] BY <1>3, <1>4, <2>1, <3>1
      <3> QED BY <1>1, <2>1, <3>2
    <2>2. CASE n - Len(a) \in 1..Len(b) /\ n = Len(a) + (n - Len(a))
      <3> DEFINE m == n - Len(a)
      <3>1. m \in 1..Len(b) /\ n = Len(a) + m BY <2>2
      <3> HIDE DEF m
      <3>2. m \in 0..Len(b) /\ m - 1 \in 0..Len(b) /\ n - 1 = Len(a) + (m - 1) BY <1>3, <3>1
      <3>3. e[n] = h[m] /\ e[n - 1] = h[m - 1] /\ ab[n] = b[m] BY <1>3, <1>4, <3>1, <3>2
      <3> QED BY <1>2, <3>1, <3>3
    <2> QED BY <1>3, <2>1, <2>2
  <1>7. Runs(ab, s, u) BY <1>5, <1>6 DEF Runs
  <1> QED BY <1>7 DEF ab

(* Without a save or a restore the saves stay.                             *)
LEMMA RunsNeutral ==
    ASSUME NEW is, Len(is) \in Nat, Neutral(is), NEW s
    PROVE  Runs(is, s, s)
  <1> DEFINE g == [n \in 0..Len(is) |-> s]
  <1>1. \A n \in 0..Len(is) : g[n] = s OBVIOUS
  <1> HIDE DEF g
  <1>2. 0 \in 0..Len(is) /\ Len(is) \in 0..Len(is)
        /\ \A n \in 1..Len(is) : n \in 0..Len(is) /\ n - 1 \in 0..Len(is)
    OBVIOUS
  <1>3. \A n \in 1..Len(is) : Effect(is[n], s) = s BY DEF Neutral, Effect
  <1>4. \A n \in 1..Len(is) : g[n] = Effect(is[n], g[n - 1]) BY <1>1, <1>2, <1>3
  <1> QED BY <1>1, <1>2, <1>4 DEF Runs

(* SavesAfter is what the instructions take the saves to.                  *)
LEMMA RunsSavesAfter ==
    ASSUME NEW is, Len(is) \in Nat, NEW s, NEW t, Runs(is, s, t)
    PROVE  SavesAfter(is, s) = t
  <1> DEFINE N == Len(is)
             IsS(f) == f = [n \in 0..N |->
                              IF n = 0 THEN s
                              ELSE LET q == f[n - 1] IN
                                   CASE is[n].op = "save"    -> Append(q, is[n].arg)
                                     [] is[n].op = "restore" -> IF q # <<>> /\ Last(q) = is[n].arg
                                                                THEN Front(q) ELSE Unbalanced
                                     [] OTHER                -> q]
             S == CHOOSE f : IsS(f)
             Is(f) == f = [n \in 0..N |-> IF n = 0 THEN s ELSE Effect(is[n], f[n - 1])]
  <1>1. SavesAfter(is, s) = S[N] BY DEF SavesAfter
  <1>2. \A f : IsS(f) <=> Is(f) BY DEF Effect
  <1>3. PICK g : /\ g[0] = s /\ g[N] = t
                 /\ \A n \in 1..N : g[n] = Effect(is[n], g[n - 1])
    BY DEF Runs
  <1>4. \E f : IsS(f)
    <2> DEFINE f == [n \in 0..N |-> g[n]]
    <2>1. \A n \in 0..N : f[n] = g[n] OBVIOUS
    <2>2. f = [n \in 0..N |-> f[n]] OBVIOUS
    <2> HIDE DEF f
    <2>3. \A n \in 0..N : n = 0 \/ (n # 0 /\ n \in 1..N /\ n - 1 \in 0..N) OBVIOUS
    <2> HIDE DEF N
    <2>4. ASSUME NEW n \in 0..N
          PROVE  f[n] = IF n = 0 THEN s ELSE Effect(is[n], f[n - 1])
      BY <1>3, <2>1, <2>3
    <2>5. Is(f) BY <2>2, <2>4
    <2> HIDE DEF Is, IsS
    <2> QED BY <1>2, <2>5
  <1>5. Is(S)
    <2> HIDE DEF Is, IsS
    <2>1. IsS(S) BY <1>4
    <2> QED BY <1>2, <2>1
  <1> HIDE DEF S
  <1>6. S[0] = s /\ \A n \in 1..N : S[n] = Effect(is[n], S[n - 1])
    <2>1. 0 \in 0..N /\ \A n \in 1..N : n \in 0..N /\ n # 0 OBVIOUS
    <2> HIDE DEF N
    <2> QED BY <1>5, <2>1
  <1> DEFINE e == [n \in 0..N |-> IF S[n] = g[n] THEN 0 ELSE 1]
  <1>7. N \in Nat /\ 0 \in 0..N /\ N \in 0..N
        /\ \A n \in 1..N : n \in 0..N /\ n - 1 \in 0..N
    OBVIOUS
  <1> HIDE DEF N, Is
  <1>8. e[0] \in {0} BY <1>3, <1>6, <1>7
  <1>9. \A n \in 1..N : e[n - 1] \in {0} => e[n] \in {0}
    <2> TAKE n \in 1..N
    <2> SUFFICES ASSUME e[n - 1] \in {0} PROVE e[n] \in {0} OBVIOUS
    <2>1. S[n - 1] = g[n - 1] BY <1>7
    <2>2. S[n] = g[n] BY <1>3, <1>6, <2>1
    <2> QED BY <1>7, <2>2
  <1>10. e[N] \in {0}
    <2> HIDE DEF e
    <2> QED BY ONLY <1>7, <1>8, <1>9, Upward
  <1>11. S[N] = g[N] BY <1>7, <1>10
  <1> QED BY <1>1, <1>3, <1>11

(* The blocks of a function, as instructions and blocks are added to it.   *)
LEMMA FunctionLen ==
    ASSUME NEW f, IsFunction(f)
    PROVE  /\ Len(f.blocks) \in Nat /\ f.at \in 1..Len(f.blocks) /\ f.at \in Blocks(f)
           /\ Blocks(f) = 1..Len(f.blocks)
           /\ \A b \in Blocks(f) : Sequence(f.blocks[b]) /\ Len(f.blocks[b]) \in Nat
  BY SequenceLen DEF IsFunction, Blocks

(* A record is what its fields are.                                        *)
LEMMA FunctionFields ==
    ASSUME NEW g, NEW bs, NEW at, g = [blocks |-> bs, at |-> at]
    PROVE  g.blocks = bs /\ g.at = at /\ g = [blocks |-> g.blocks, at |-> g.at]
  OBVIOUS

Put(f, b, is) == [f EXCEPT !.blocks[b] = is]

(* One block is replaced; emitted to; the entry is.                        *)
LEMMA PutBlock ==
    ASSUME NEW f, IsFunction(f), NEW b \in Blocks(f), NEW is, Sequence(is),
           NEW g, g = Put(f, b, is)
    PROVE  /\ IsFunction(g) /\ Len(g.blocks) = Len(f.blocks) /\ g.at = f.at
           /\ g.blocks[b] = is
           /\ \A c \in Blocks(f) : c # b => g.blocks[c] = f.blocks[c]
  <1>1. PICK S : f.blocks \in Seq(S) BY DEF IsFunction, Sequence
  <1> DEFINE T == S \cup {is}
             bs == [f.blocks EXCEPT ![b] = is]
  <1>2. f.blocks \in Seq(T) /\ is \in T BY <1>1, SeqMonotonic
  <1>3. b \in 1..Len(f.blocks) BY DEF Blocks
  <1> HIDE DEF T
  <1>4. /\ bs \in Seq(T) /\ Len(bs) = Len(f.blocks)
        /\ \A c \in 1..Len(f.blocks) : bs[c] = IF c = b THEN is ELSE f.blocks[c]
    BY <1>2, <1>3, ExceptSeq
  <1>5. g = [blocks |-> bs, at |-> f.at]
    <2>1. f = [blocks |-> f.blocks, at |-> f.at] BY DEF IsFunction
    <2> QED BY <2>1 DEF Put
  <1> HIDE DEF bs
  <1>6. g.blocks = bs /\ g.at = f.at /\ g = [blocks |-> g.blocks, at |-> g.at]
    BY <1>5, FunctionFields
  <1>7. \A c \in 1..Len(f.blocks) : Sequence(bs[c])
    <2> TAKE c \in 1..Len(f.blocks)
    <2>1. Sequence(f.blocks[c]) BY DEF IsFunction, Blocks
    <2> QED BY <1>4, <2>1
  <1>8. Sequence(bs) BY <1>4 DEF Sequence
  <1>9. IsFunction(g)
    <2>1. Blocks(g) = 1..Len(f.blocks) /\ f.at \in 1..Len(f.blocks)
      BY <1>4, <1>6 DEF Blocks, IsFunction
    <2> QED BY <1>6, <1>7, <1>8, <2>1 DEF IsFunction
  <1> QED BY <1>3, <1>4, <1>6, <1>9 DEF Blocks

LEMMA EmitBlock ==
    ASSUME NEW f, IsFunction(f), NEW is, Sequence(is)
    PROVE  /\ IsFunction(Emit(f, is)) /\ Len(Emit(f, is).blocks) = Len(f.blocks)
           /\ Emit(f, is).at = f.at
           /\ Emit(f, is).blocks[f.at] = f.blocks[f.at] \o is
           /\ \A c \in Blocks(f) : c # f.at => Emit(f, is).blocks[c] = f.blocks[c]
  <1>1. Sequence(f.blocks[f.at]) /\ f.at \in Blocks(f) BY FunctionLen
  <1>2. Sequence(f.blocks[f.at] \o is) BY <1>1, SequencesJoin
  <1>3. Emit(f, is) = [f EXCEPT !.blocks[f.at] = f.blocks[f.at] \o is]
    <2>1. f = [blocks |-> f.blocks, at |-> f.at] BY DEF IsFunction
    <2> QED BY <2>1 DEF Emit
  <1> DEFINE g == Emit(f, is)
             js == f.blocks[f.at] \o is
             at == f.at
  <1>4. at \in Blocks(f) /\ Sequence(js) /\ g = Put(f, at, js)
    BY <1>1, <1>2, <1>3 DEF Put
  <1> HIDE DEF g, js
  <1>5. /\ IsFunction(g) /\ Len(g.blocks) = Len(f.blocks) /\ g.at = f.at /\ g.blocks[at] = js
        /\ \A c \in Blocks(f) : c # at => g.blocks[c] = f.blocks[c]
    BY <1>4, PutBlock
  <1> QED BY <1>5 DEF g, js

LEMMA EntryBlock ==
    ASSUME NEW f, IsFunction(f), NEW is, Sequence(is)
    PROVE  /\ IsFunction(EmitInEntry(f, is)) /\ Len(EmitInEntry(f, is).blocks) = Len(f.blocks)
           /\ EmitInEntry(f, is).at = f.at /\ 1 \in Blocks(f)
           /\ EmitInEntry(f, is).blocks[1] = is \o f.blocks[1]
           /\ \A c \in Blocks(f) : c # 1 => EmitInEntry(f, is).blocks[c] = f.blocks[c]
  <1>1. 1 \in Blocks(f) BY FunctionLen
  <1>2. Sequence(f.blocks[1]) BY <1>1, FunctionLen
  <1>3. Sequence(is \o f.blocks[1]) BY <1>2, SequencesJoin
  <1>4. EmitInEntry(f, is) = [f EXCEPT !.blocks[1] = is \o f.blocks[1]]
    <2>1. f = [blocks |-> f.blocks, at |-> f.at] BY DEF IsFunction
    <2> QED BY <2>1 DEF EmitInEntry
  <1> DEFINE g == EmitInEntry(f, is)
             js == is \o f.blocks[1]
  <1>5. Sequence(js) /\ g = Put(f, 1, js) BY <1>3, <1>4 DEF Put
  <1> HIDE DEF g, js
  <1>6. /\ IsFunction(g) /\ Len(g.blocks) = Len(f.blocks) /\ g.at = f.at /\ g.blocks[1] = js
        /\ \A c \in Blocks(f) : c # 1 => g.blocks[c] = f.blocks[c]
    BY <1>1, <1>5, PutBlock
  <1> QED BY <1>1, <1>6 DEF g, js

(* No instruction.                                                         *)
LEMMA EmptySequence == Sequence(<<>>) /\ Len(<<>>) = 0 /\ Neutral(<<>>) /\ Exits(<<>>) = {}
  <1>1. <<>> \in Seq({}) /\ Len(<<>>) = 0 BY EmptySeq
  <1>2. Sequence(<<>>) BY <1>1 DEF Sequence
  <1>3. Neutral(<<>>) BY <1>1 DEF Neutral
  <1>4. Exits(<<>>) = {} BY <1>1 DEF Exits
  <1> QED BY <1>1, <1>2, <1>3, <1>4

(* Blocks are added, or one is moved to.                                   *)
LEMMA AddBlock ==
    ASSUME NEW f, IsFunction(f), NEW n \in Nat
    PROVE  /\ IsFunction(AddBlocks(f, n)) /\ Len(AddBlocks(f, n).blocks) = Len(f.blocks) + n
           /\ AddBlocks(f, n).at = f.at
           /\ \A c \in Blocks(f) : AddBlocks(f, n).blocks[c] = f.blocks[c]
           /\ \A c \in Blocks(AddBlocks(f, n)) \ Blocks(f) : AddBlocks(f, n).blocks[c] = <<>>
  <1> DEFINE new == [b \in 1..n |-> <<>>]
             bs == f.blocks \o new
             g == AddBlocks(f, n)
  <1>1. new \in Seq({<<>>}) /\ Len(new) = n /\ \A b \in 1..n : new[b] = <<>>
    <2>1. new \in [1..n -> {<<>>}] OBVIOUS
    <2>2. new \in Seq({<<>>}) BY <2>1, SeqDef
    <2> QED BY <2>1, <2>2
  <1>2. Sequence(new) /\ Sequence(f.blocks) BY <1>1 DEF Sequence, IsFunction
  <1>3. g = [blocks |-> bs, at |-> f.at]
    <2>1. f = [blocks |-> f.blocks, at |-> f.at] BY DEF IsFunction
    <2>2. g = [f EXCEPT !.blocks = f.blocks \o new] BY DEF AddBlocks
    <2> HIDE DEF g, bs, new
    <2>3. [f EXCEPT !.blocks = bs] = [blocks |-> bs, at |-> f.at] BY <2>1
    <2> QED BY <2>2, <2>3 DEF bs
  <1> HIDE DEF new
  <1>4. /\ Sequence(bs)
        /\ Len(f.blocks) \in Nat /\ Len(bs) = Len(f.blocks) + Len(new)
        /\ \A c \in 1..Len(f.blocks) : bs[c] = f.blocks[c]
        /\ \A c \in 1..Len(new) : bs[Len(f.blocks) + c] = new[c]
        /\ \A c \in 1..Len(bs) : \/ c \in 1..Len(f.blocks)
                                  \/ /\ c - Len(f.blocks) \in 1..Len(new)
                                     /\ c = Len(f.blocks) + (c - Len(f.blocks))
    BY <1>2, SequencesJoin
  <1> HIDE DEF bs, g
  <1>5. g.blocks = bs /\ g.at = f.at /\ g = [blocks |-> g.blocks, at |-> g.at]
    BY <1>3, FunctionFields
  <1>6. \A c \in 1..Len(bs) : c \in 1..Len(f.blocks) \/ (c \notin 1..Len(f.blocks) /\ bs[c] = <<>>)
    BY <1>1, <1>4
  <1>7. \A c \in 1..Len(f.blocks) : Sequence(f.blocks[c]) BY DEF IsFunction, Blocks
  <1>8. \A c \in 1..Len(bs) : Sequence(bs[c]) BY <1>4, <1>6, <1>7, EmptySequence
  <1>9. f.at \in 1..Len(bs)
    <2>1. f.at \in 1..Len(f.blocks) BY FunctionLen
    <2> QED BY <1>1, <1>4, <2>1
  <1>10. Blocks(g) = 1..Len(bs) /\ Blocks(f) = 1..Len(f.blocks) BY <1>5 DEF Blocks
  <1>11. IsFunction(g) BY <1>4, <1>5, <1>8, <1>9, <1>10 DEF IsFunction
  <1> QED BY <1>1, <1>4, <1>5, <1>6, <1>10, <1>11 DEF g

LEMMA MoveBlock ==
    ASSUME NEW f, IsFunction(f), NEW b \in Blocks(f)
    PROVE  /\ IsFunction(SetInsertPoint(f, b)) /\ SetInsertPoint(f, b).blocks = f.blocks
           /\ SetInsertPoint(f, b).at = b
  <1>1. f = [blocks |-> f.blocks, at |-> f.at] BY DEF IsFunction
  <1>2. SetInsertPoint(f, b) = [blocks |-> f.blocks, at |-> b] BY <1>1 DEF SetInsertPoint
  <1> DEFINE g == SetInsertPoint(f, b)
  <1> HIDE DEF g
  <1>3. g.blocks = f.blocks /\ g.at = b /\ g = [blocks |-> g.blocks, at |-> g.at] BY <1>2 DEF g
  <1>4. IsFunction(g) BY <1>3 DEF IsFunction, Blocks
  <1> QED BY <1>3, <1>4 DEF g

-----------------------------------------------------------------------------
(* A step of the code generator: the current block goes on by `is', and    *)
(* there may be new blocks; all that is branched to is entered with the    *)
(* saves then outstanding.                                                 *)
LEMMA GrowLabels ==
    ASSUME NEW f, NEW L, NEW s, Labelled(f, L, s),
           NEW g, IsFunction(g), Len(g.blocks) >= Len(f.blocks),
           NEW is, Sequence(is), NEW t, t # Unbalanced, Runs(is, s, t),
           NEW M, \A b \in Blocks(g) : M[b] = IF b \in Blocks(f) THEN L[b] ELSE t,
           g.blocks[f.at] = f.blocks[f.at] \o is,
           \A b \in Blocks(f) : b # f.at => g.blocks[b] = f.blocks[b],
           \A c \in Exits(is) : c \in Blocks(g) /\ M[c] = t,
           \A b \in Blocks(g) \ Blocks(f) : /\ Neutral(g.blocks[b])
                                            /\ \A c \in Exits(g.blocks[b]) :
                                                  c \in Blocks(g) /\ M[c] = t,
           NEW u, Exits(g.blocks[g.at]) = {}, Runs(g.blocks[g.at], M[g.at], u)
    PROVE  Labelled(g, M, u)
  <1>1. /\ IsFunction(f) /\ L[1] = <<>> /\ \A b \in Blocks(f) : L[b] # Unbalanced
        /\ \A b \in Blocks(f) : \A c \in Exits(f.blocks[b]) :
              c \in Blocks(f) /\ Runs(f.blocks[b], L[b], L[c])
        /\ Exits(f.blocks[f.at]) = {} /\ Runs(f.blocks[f.at], L[f.at], s)
    BY DEF Labelled
  <1>2. /\ Len(f.blocks) \in Nat /\ Len(g.blocks) \in Nat
        /\ f.at \in Blocks(f) /\ Blocks(f) = 1..Len(f.blocks) /\ Blocks(g) = 1..Len(g.blocks)
        /\ \A b \in Blocks(f) : Sequence(f.blocks[b])
        /\ \A b \in Blocks(g) : Len(g.blocks[b]) \in Nat
    BY <1>1, FunctionLen
  <1>3. Blocks(f) \subseteq Blocks(g) BY <1>2
  <1>4. M[1] = <<>>
    <2>1. 1 \in Blocks(f) BY <1>2
    <2> QED BY <1>1, <1>3, <2>1
  <1>5. \A b \in Blocks(g) : M[b] # Unbalanced BY <1>1
  <1>6. ASSUME NEW b \in Blocks(g), NEW c \in Exits(g.blocks[b])
        PROVE  c \in Blocks(g) /\ Runs(g.blocks[b], M[b], M[c])
    <2>1. CASE b = f.at
      <3>1. Exits(g.blocks[b]) = Exits(is)
        <4>1. Sequence(f.blocks[f.at]) BY <1>2
        <4>2. Exits(f.blocks[f.at] \o is) = Exits(f.blocks[f.at]) \cup Exits(is)
          BY <4>1, NeutralJoin
        <4>3. g.blocks[b] = f.blocks[f.at] \o is BY <2>1
        <4>4. Exits(f.blocks[f.at]) = {} BY <1>1
        <4> QED BY <4>2, <4>3, <4>4
      <3>2. c \in Blocks(g) /\ M[c] = t BY <1>6, <3>1
      <3>3. M[b] = L[b] BY <1>2, <2>1
      <3>4. Runs(f.blocks[f.at] \o is, L[f.at], t) BY <1>1, <1>2, RunsJoin
      <3> QED BY <2>1, <3>2, <3>3, <3>4
    <2>2. CASE b \in Blocks(f) /\ b # f.at
      <3>1. g.blocks[b] = f.blocks[b] BY <2>2
      <3>2. c \in Blocks(f) /\ Runs(f.blocks[b], L[b], L[c]) BY <1>1, <1>6, <2>2, <3>1
      <3> QED BY <1>3, <2>2, <3>1, <3>2
    <2>3. CASE b \notin Blocks(f)
      <3>1. Neutral(g.blocks[b]) /\ c \in Blocks(g) /\ M[c] = t BY <1>6, <2>3
      <3>2. M[b] = t BY <2>3
      <3>3. Runs(g.blocks[b], t, t) BY <1>2, <3>1, RunsNeutral
      <3> QED BY <3>1, <3>2, <3>3
    <2> QED BY <2>1, <2>2, <2>3
  <1> QED BY <1>4, <1>5, <1>6 DEF Labelled

(* The allocas of the entry block go before whatever is in it.             *)
LEMMA EntryLabels ==
    ASSUME NEW f, NEW L, NEW s, Labelled(f, L, s),
           NEW is, Sequence(is), Neutral(is), Exits(is) = {}
    PROVE  Labelled(EmitInEntry(f, is), L, s)
  <1> DEFINE g == EmitInEntry(f, is)
  <1>1. /\ IsFunction(f) /\ L[1] = <<>> /\ \A b \in Blocks(f) : L[b] # Unbalanced
        /\ \A b \in Blocks(f) : \A c \in Exits(f.blocks[b]) :
              c \in Blocks(f) /\ Runs(f.blocks[b], L[b], L[c])
        /\ Exits(f.blocks[f.at]) = {} /\ Runs(f.blocks[f.at], L[f.at], s)
    BY DEF Labelled
  <1>2. /\ IsFunction(g) /\ Len(g.blocks) = Len(f.blocks) /\ g.at = f.at /\ 1 \in Blocks(f)
        /\ g.blocks[1] = is \o f.blocks[1]
        /\ \A c \in Blocks(f) : c # 1 => g.blocks[c] = f.blocks[c]
    BY <1>1, EntryBlock
  <1>3. Sequence(f.blocks[1]) /\ f.at \in Blocks(f) BY <1>1, <1>2, FunctionLen
  <1>4. Exits(is \o f.blocks[1]) = Exits(f.blocks[1])
    <2>1. Exits(is \o f.blocks[1]) = Exits(is) \cup Exits(f.blocks[1]) BY <1>3, NeutralJoin
    <2> QED BY <2>1
  <1>5. ASSUME NEW t, Runs(f.blocks[1], L[1], t) PROVE Runs(is \o f.blocks[1], L[1], t)
    <2>1. Len(is) \in Nat BY SequenceLen
    <2>2. Runs(is, L[1], L[1]) BY <2>1, RunsNeutral
    <2> QED BY <1>3, <1>5, <2>2, RunsJoin
  <1> HIDE DEF g
  <1>6. ASSUME NEW b \in Blocks(f)
        PROVE  /\ Exits(g.blocks[b]) = Exits(f.blocks[b])
               /\ \A t : Runs(f.blocks[b], L[b], t) => Runs(g.blocks[b], L[b], t)
    <2>1. CASE b = 1 BY <1>2, <1>4, <1>5, <2>1
    <2>2. CASE b # 1 BY <1>2, <2>2
    <2> QED BY <2>1, <2>2
  <1>7. Blocks(g) = Blocks(f) BY <1>2 DEF Blocks
  <1>8. Labelled(g, L, s) BY <1>1, <1>2, <1>3, <1>6, <1>7 DEF Labelled
  <1> QED BY <1>8 DEF g

(* The saves with which a block can be entered.                            *)
LEMMA SuccessorsAre ==
    ASSUME NEW f, NEW b
    PROVE  Succs(f, b) = Exits(f.blocks[b])
  BY DEF Succs, Exits

(* Whatever the branch, a block is entered with what its label says.       *)
LEMMA EntriesLabelled ==
    ASSUME NEW f, NEW L, NEW s, Labelled(f, L, s)
    PROVE  \A e \in Entries(f) : e[1] \in Blocks(f) /\ e[2] = L[e[1]]
  <1> DEFINE N == Len(f.blocks) + 2
             X == {<<b, L[b]>> : b \in Blocks(f)}
             T == SUBSET X
             Then(es) == es \cup UNION {{<<c, SavesAfter(f.blocks[e[1]], e[2])>> :
                                           c \in Succs(f, e[1])} : e \in es}
             F == [p \in T \X (1..N) |-> Then(p[1])]
             IsE(g) == g = [n \in 0..N |-> IF n = 0 THEN {<<1, <<>> >>} ELSE Then(g[n - 1])]
             E == CHOOSE g : IsE(g)
  <1>1. /\ IsFunction(f) /\ L[1] = <<>>
        /\ \A b \in Blocks(f) : \A c \in Exits(f.blocks[b]) :
              c \in Blocks(f) /\ Runs(f.blocks[b], L[b], L[c])
    BY DEF Labelled
  <1>2. /\ Len(f.blocks) \in Nat /\ N \in Nat /\ 1 \in Blocks(f)
        /\ \A b \in Blocks(f) : Len(f.blocks[b]) \in Nat
    BY <1>1, FunctionLen
  <1>3. Entries(f) = E[N] BY DEF Entries
  <1>4. ASSUME NEW es \in T PROVE Then(es) \in T
    <2>1. ASSUME NEW e \in es, NEW c \in Succs(f, e[1])
          PROVE  <<c, SavesAfter(f.blocks[e[1]], e[2])>> \in X
      <3>1. PICK b \in Blocks(f) : e = <<b, L[b]>> OBVIOUS
      <3>2. c \in Exits(f.blocks[b]) BY <2>1, <3>1, SuccessorsAre
      <3>3. c \in Blocks(f) /\ Runs(f.blocks[b], L[b], L[c]) BY <1>1, <3>2
      <3>4. SavesAfter(f.blocks[b], L[b]) = L[c] BY <1>2, <3>3, RunsSavesAfter
      <3> QED BY <3>1, <3>3, <3>4
    <2> HIDE DEF X
    <2> QED BY <2>1
  <1>5. {<<1, <<>> >>} \in T BY <1>1, <1>2
  <1>6. F \in [T \X (1..N) -> T]
    <2> HIDE DEF T, Then, N
    <2> QED BY <1>4
  <1>7. \E g : IsE(g)
    <2>1. Recurs(N, T, {<<1, <<>> >>}, F)
      <3> HIDE DEF F, N, T
      <3> QED BY ONLY <1>2, <1>5, <1>6, Recursion
    <2>2. PICK g \in [0..N -> T] : /\ g[0] = {<<1, <<>> >>}
                                   /\ \A i \in 1..N : g[i] = F[<<g[i - 1], i>>]
      BY <2>1 DEF Recurs
    <2> HIDE DEF N, T, Then
    <2>3. \A i \in 1..N : g[i] = Then(g[i - 1])
      <3> TAKE i \in 1..N
      <3>1. i - 1 \in 0..N BY <1>2
      <3> QED BY <2>2, <3>1
    <2>4. \A i \in 0..N : i = 0 \/ (i # 0 /\ i \in 1..N) BY <1>2
    <2>5. \A i \in 0..N : g[i] = IF i = 0 THEN {<<1, <<>> >>} ELSE Then(g[i - 1])
      BY <2>2, <2>3, <2>4
    <2> HIDE DEF F
    <2> QED BY <2>2, <2>5
  <1>8. IsE(E)
    <2> HIDE DEF IsE
    <2> QED BY <1>7
  <1> HIDE DEF E
  <1>9. E[0] = {<<1, <<>> >>} /\ \A i \in 1..N : E[i] = Then(E[i - 1])
    <2>1. 0 \in 0..N /\ \A i \in 1..N : i \in 0..N /\ i # 0 BY <1>2
    <2> HIDE DEF N, Then
    <2> QED BY <1>8, <2>1
  <1>10. E[0] \in T /\ \A i \in 1..N : E[i - 1] \in T => E[i] \in T
    <2> HIDE DEF N, T, Then
    <2> QED BY <1>4, <1>5, <1>9
  <1>11. E[N] \in T
    <2> HIDE DEF N, T
    <2> QED BY ONLY <1>2, <1>10, Upward
  <1>12. ASSUME NEW e \in Entries(f) PROVE e[1] \in Blocks(f) /\ e[2] = L[e[1]]
    <2>1. e \in X BY <1>3, <1>11
    <2> QED BY <2>1
  <1> QED BY <1>12

(* What FlattenSeq makes of sequences over one set.                        *)
LEMMA Flattened ==
    ASSUME NEW I, NEW q \in Seq(Seq(I))
    PROVE  FlattenSeq(q) \in Seq(I)
  <1> DEFINE N == Len(q)
             F == [p \in Seq(I) \X (1..(N - 1)) |-> p[1] \o q[p[2] + 1]]
             IsF(g) == g = [i \in 1..N |-> IF i = 1 THEN q[i] ELSE g[i - 1] \o q[i]]
             fl == CHOOSE g : IsF(g)
  <1>1. N \in Nat /\ \A i \in 1..N : q[i] \in Seq(I) BY LenProperties, ElementOfSeq
  <1>2. CASE N = 0
    <2>1. q = <<>> BY <1>2, EmptySeq
    <2>2. FlattenSeq(q) = q BY <1>2 DEF FlattenSeq
    <2> QED BY <2>1, <2>2, EmptySeq
  <1>3. CASE N # 0
    <2>1. N - 1 \in Nat /\ 1 \in 1..N BY <1>1, <1>3
    <2>2. FlattenSeq(q) = fl[N] BY <1>3 DEF FlattenSeq
    <2>3. F \in [Seq(I) \X (1..(N - 1)) -> Seq(I)]
      <3>1. \A i \in 1..(N - 1) : q[i + 1] \in Seq(I) BY <1>1
      <3>2. \A a, b \in Seq(I) : a \o b \in Seq(I) BY ConcatProperties
      <3> HIDE DEF N
      <3> QED BY <3>1, <3>2
    <2>4. \E g : IsF(g)
      <3>1. Recurs(N - 1, Seq(I), q[1], F)
        <4>1. q[1] \in Seq(I) BY <1>1, <2>1
        <4> HIDE DEF F, N
        <4> QED BY ONLY <2>1, <2>3, <4>1, Recursion
      <3>2. PICK h \in [0..(N - 1) -> Seq(I)] :
               h[0] = q[1] /\ \A i \in 1..(N - 1) : h[i] = F[<<h[i - 1], i>>]
        BY <3>1 DEF Recurs
      <3>3. \A i \in 1..(N - 1) : h[i] = h[i - 1] \o q[i + 1]
        <4> TAKE i \in 1..(N - 1)
        <4>1. i - 1 \in 0..(N - 1) BY <1>1
        <4> HIDE DEF N
        <4> QED BY <3>2, <4>1
      <3> DEFINE g == [i \in 1..N |-> h[i - 1]]
      <3>4. \A i \in 1..N : g[i] = h[i - 1] OBVIOUS
      <3>5. g = [i \in 1..N |-> g[i]] OBVIOUS
      <3> HIDE DEF g
      <3>6. ASSUME NEW i \in 1..N PROVE g[i] = IF i = 1 THEN q[i] ELSE g[i - 1] \o q[i]
        <4>1. CASE i = 1
          <5>1. i - 1 = 0 BY <4>1
          <5> QED BY <3>2, <3>4, <4>1, <5>1
        <4>2. CASE i # 1
          <5>1. i - 1 \in 1..(N - 1) /\ i - 1 \in 1..N /\ (i - 1) + 1 = i BY <1>1, <4>2
          <5>2. h[i - 1] = h[(i - 1) - 1] \o q[(i - 1) + 1] BY <3>3, <5>1
          <5> QED BY <3>4, <4>2, <5>1, <5>2
        <4> QED BY <4>1, <4>2
      <3> HIDE DEF N
      <3>7. IsF(g) BY <3>5, <3>6
      <3> HIDE DEF IsF
      <3> QED BY <3>7
    <2>5. IsF(fl)
      <3> HIDE DEF IsF
      <3> QED BY <2>4
    <2> HIDE DEF fl, N
    <2>6. fl[1] = q[1] /\ \A i \in 1..(N - 1) : fl[i + 1] = fl[i] \o q[i + 1]
      <3>1. \A i \in 1..(N - 1) : i + 1 \in 1..N /\ i + 1 # 1 /\ (i + 1) - 1 = i BY <1>1
      <3> QED BY <2>1, <2>5, <3>1
    <2> DEFINE h == [i \in 0..(N - 1) |-> fl[i + 1]]
    <2>7. \A i \in 0..(N - 1) : h[i] = fl[i + 1] OBVIOUS
    <2> HIDE DEF h
    <2>8. h[0] \in Seq(I)
      <3>1. 0 \in 0..(N - 1) /\ 0 + 1 = 1 BY <2>1
      <3> QED BY <1>1, <2>1, <2>6, <2>7, <3>1
    <2>9. ASSUME NEW i \in 1..(N - 1), h[i - 1] \in Seq(I) PROVE h[i] \in Seq(I)
      <3>1. i \in 0..(N - 1) /\ i - 1 \in 0..(N - 1) /\ (i - 1) + 1 = i /\ i + 1 \in 1..N
        BY <1>1, <2>1
      <3>2. h[i] = h[i - 1] \o q[i + 1] BY <2>6, <2>7, <3>1
      <3> QED BY <1>1, <2>9, <3>1, <3>2, ConcatProperties
    <2>10. h[N - 1] \in Seq(I) BY ONLY <2>1, <2>8, <2>9, Upward
    <2>11. N - 1 \in 0..(N - 1) /\ (N - 1) + 1 = N BY <1>1, <2>1
    <2> QED BY <2>2, <2>7, <2>10, <2>11
  <1> QED BY <1>2, <1>3

(* The saves of the first arrays, as a stack.                              *)
LEMMA SavesStack ==
    ASSUME NEW A, NEW k \in Nat
    PROVE  /\ Saves(A, k) \in Seq({A[n].save : n \in 1..k}) /\ Len(Saves(A, k)) = k
           /\ \A n \in 1..k : Saves(A, k)[n] = A[n].save
  <1> DEFINE T == {A[n].save : n \in 1..k}
  <1>1. Saves(A, k) \in [1..k -> T] BY DEF Saves
  <1>2. Saves(A, k) \in Seq(T) BY <1>1, SeqDef
  <1>3. Len(Saves(A, k)) = k /\ \A n \in 1..k : Saves(A, k)[n] = A[n].save BY DEF Saves
  <1> QED BY <1>2, <1>3

LEMMA SavesBelow ==
    ASSUME NEW A, NEW k \in Nat, k # 0
    PROVE  /\ Saves(A, k) # <<>> /\ Last(Saves(A, k)) = A[k].save
           /\ Front(Saves(A, k)) = Saves(A, k - 1)
  <1> DEFINE T == {A[n].save : n \in 1..k}
             s == Saves(A, k)
             t == Saves(A, k - 1)
  <1>1. k - 1 \in Nat /\ k \in 1..k OBVIOUS
  <1>2. s \in Seq(T) /\ Len(s) = k /\ \A n \in 1..k : s[n] = A[n].save BY SavesStack
  <1>3. /\ t \in Seq({A[n].save : n \in 1..(k - 1)}) /\ Len(t) = k - 1
        /\ \A n \in 1..(k - 1) : t[n] = A[n].save
    BY <1>1, SavesStack
  <1>4. t \in Seq(T)
    <2>1. {A[n].save : n \in 1..(k - 1)} \subseteq T OBVIOUS
    <2> HIDE DEF T, t
    <2> QED BY <1>3, <2>1, SeqMonotonic
  <1> HIDE DEF s, t, T
  <1>5. s # <<>>
    <2>1. Len(<<>>) = 0 BY EmptySeq
    <2> QED BY <1>2, <2>1
  <1>6. Last(s) = A[k].save BY <1>1, <1>2 DEF Last
  <1>7. Front(s) \in Seq(T) /\ Len(Front(s)) = k - 1 /\ \A i \in 1..(k - 1) : Front(s)[i] = s[i]
    BY <1>2, <1>5, FrontLemma
  <1>8. ASSUME NEW i \in 1..(k - 1) PROVE Front(s)[i] = t[i]
    <2>1. i \in 1..k OBVIOUS
    <2> QED BY <1>2, <1>3, <1>7, <2>1
  <1>9. Front(s) = t BY <1>3, <1>4, <1>7, <1>8, SeqEqual
  <1> QED BY <1>5, <1>6, <1>9 DEF s, t

LEMMA SavesSame ==
    ASSUME NEW A, NEW B, NEW k, \A n \in 1..k : B[n] = A[n]
    PROVE  Saves(B, k) = Saves(A, k)
  BY DEF Saves

(* No array without a save.                                                *)
LEMMA SavesBracket ==
    ASSUME NEW A, NEW k \in Nat, \A n \in 1..k : A[n].save # None
    PROVE  Saves(A, k) # Unbalanced
  <1>1. Len(Unbalanced) = 1 /\ Unbalanced[1] = None BY DEF Unbalanced
  <1>2. Len(Saves(A, k)) = k /\ \A n \in 1..k : Saves(A, k)[n] = A[n].save BY SavesStack
  <1>3. SUFFICES ASSUME Saves(A, k) = Unbalanced PROVE FALSE OBVIOUS
  <1>4. k = 1 BY <1>1, <1>2, <1>3
  <1>5. A[1].save = None BY <1>1, <1>2, <1>3, <1>4
  <1> QED BY <1>4, <1>5

-----------------------------------------------------------------------------
(* Scopes and the arrays outside them.                                     *)
LEMMA OutsidePush ==
    ASSUME NEW F, NEW A, NEW S, NEW scs \in Seq(S), NEW c \in S, Len(A) \in Nat,
           Outside(F, A, scs), \A n \in 1..Len(A) : A[n].blk # c.blk,
           NEW G, \A j \in 1..Len(scs) : G[j] = F[j], G[Len(scs) + 1] = Len(A)
    PROVE  Outside(G, A, Append(scs, c))
  <1> DEFINE ss == Append(scs, c)
             m == Len(scs) + 1
  <1>1. /\ Len(scs) \in Nat /\ Len(ss) = m /\ ss[m] = c
        /\ \A i \in 1..Len(scs) : ss[i] = scs[i]
    BY PushLemma
  <1> HIDE DEF ss
  <1>2. ASSUME NEW j \in 1..Len(ss)
        PROVE  /\ G[j] \in 0..Len(A)
               /\ \A n \in 1..G[j] : \A i \in j..Len(ss) : ss[i].blk # A[n].blk
               /\ \A n \in (G[j] + 1)..Len(A) : \E i \in j..Len(ss) : ss[i].blk = A[n].blk
    <2>1. CASE j = m
      <3>1. G[j] = Len(A) /\ \A i \in j..Len(ss) : i = m BY <1>1, <2>1
      <3>2. \A n \in (G[j] + 1)..Len(A) : FALSE BY <3>1
      <3> QED BY <1>1, <3>1, <3>2
    <2>2. CASE j # m
      <3>1. j \in 1..Len(scs) /\ G[j] = F[j] BY <1>1, <2>2
      <3>2. /\ F[j] \in 0..Len(A)
            /\ \A n \in 1..F[j] : \A i \in j..Len(scs) : scs[i].blk # A[n].blk
            /\ \A n \in (F[j] + 1)..Len(A) : \E i \in j..Len(scs) : scs[i].blk = A[n].blk
        BY <3>1 DEF Outside
      <3>3. \A i \in j..Len(scs) : i \in j..Len(ss) /\ i \in 1..Len(scs) /\ ss[i] = scs[i]
        BY <1>1, <3>1
      <3>4. ASSUME NEW i \in j..Len(ss), i # m PROVE i \in j..Len(scs)
        <4>1. j \in Int /\ i \in Int /\ j <= i /\ i <= Len(scs) + 1 BY <1>1, <3>1
        <4> QED BY <1>1, <3>4, <4>1
      <3>5. \A n \in 1..F[j] : n \in 1..Len(A) BY <3>2
      <3>6. ASSUME NEW n \in 1..F[j], NEW i \in j..Len(ss) PROVE ss[i].blk # A[n].blk
        BY SMTT(30), <1>1, <3>2, <3>3, <3>4, <3>5
      <3> QED BY <3>1, <3>2, <3>3, <3>6
    <2> QED BY <2>1, <2>2
  <1>3. Outside(G, A, ss) BY <1>2 DEF Outside
  <1> QED BY <1>3 DEF ss

(* A scope ends with its arrays.                                           *)
LEMMA OutsidePop ==
    ASSUME NEW F, NEW U, NEW A \in Seq(U), NEW S, NEW scs \in Seq(S), scs # <<>>,
           Outside(F, A, scs), NEW k, k = F[Len(scs)]
    PROVE  /\ k \in 0..Len(A) /\ Len(SubSeq(A, 1, k)) = k
           /\ Len(Front(scs)) = Len(scs) - 1
           /\ Outside(F, SubSeq(A, 1, k), Front(scs))
           /\ \A j \in 1..Len(Front(scs)) :
                 F[j] \in 0..k /\ Saves(SubSeq(A, 1, k), F[j]) = Saves(A, F[j])
  <1> DEFINE m == Len(scs)
             B == SubSeq(A, 1, k)
             ss == Front(scs)
  <1>1. m \in Nat /\ m >= 1 /\ m \in 1..m BY LenPositive
  <1>2. Len(ss) = m - 1 /\ \A i \in 1..(m - 1) : ss[i] = scs[i] BY FrontLemma
  <1>3. /\ k \in 0..Len(A)
        /\ \A n \in 1..k : scs[m].blk # A[n].blk
        /\ \A n \in (k + 1)..Len(A) : scs[m].blk = A[n].blk
    <2>1. \A i \in m..m : i = m BY <1>1
    <2>2. m \in m..m BY <1>1
    <2> QED BY <1>1, <2>1, <2>2 DEF Outside
  <1>4. Len(A) \in Nat BY LenProperties
  <1>5. Len(B) = k /\ \A n \in 1..k : B[n] = A[n] BY <1>3, PrefixLemma
  <1> HIDE DEF B, ss
  <1>6. ASSUME NEW j \in 1..(m - 1)
        PROVE  /\ F[j] \in 0..k
               /\ \A n \in 1..F[j] : \A i \in j..(m - 1) : scs[i].blk # B[n].blk
               /\ \A n \in (F[j] + 1)..k : \E i \in j..(m - 1) : scs[i].blk = B[n].blk
               /\ Saves(B, F[j]) = Saves(A, F[j])
    <2>1. j \in 1..m /\ m \in j..m BY <1>1
    <2>2. /\ F[j] \in 0..Len(A)
          /\ \A n \in 1..F[j] : \A i \in j..m : scs[i].blk # A[n].blk
          /\ \A n \in (F[j] + 1)..Len(A) : \E i \in j..m : scs[i].blk = A[n].blk
      BY <2>1 DEF Outside
    <2>3. F[j] <= k
      <3> SUFFICES ASSUME ~(F[j] <= k) PROVE FALSE OBVIOUS
      <3>1. k + 1 \in (k + 1)..Len(A) /\ k + 1 \in 1..F[j] BY <1>3, <1>4, <2>2
      <3> QED BY <1>3, <2>1, <2>2, <3>1
    <2>4. \A n \in 1..F[j] : n \in 1..k /\ B[n] = A[n] BY <1>3, <1>5, <2>2, <2>3
    <2>5. ASSUME NEW n \in 1..F[j], NEW i \in j..(m - 1) PROVE scs[i].blk # B[n].blk
      <3>1. i \in j..m BY <1>1
      <3> QED BY <2>2, <2>4, <3>1
    <2>6. ASSUME NEW n \in (F[j] + 1)..k PROVE \E i \in j..(m - 1) : scs[i].blk = B[n].blk
      <3>1. n \in (F[j] + 1)..Len(A) /\ n \in 1..k BY <1>3, <2>2
      <3>2. PICK i \in j..m : scs[i].blk = A[n].blk BY <2>2, <3>1
      <3>3. i # m BY <1>3, <3>1, <3>2
      <3>4. i \in j..(m - 1) BY <1>1, <3>2, <3>3
      <3> QED BY <1>5, <3>1, <3>2, <3>4
    <2>7. F[j] \in 0..k BY <1>3, <2>2, <2>3
    <2> QED BY <2>4, <2>5, <2>6, <2>7, SavesSame
  <1>7. Outside(F, B, ss)
    <2>1. ASSUME NEW j \in 1..Len(ss)
          PROVE  /\ F[j] \in 0..Len(B)
                 /\ \A n \in 1..F[j] : \A i \in j..Len(ss) : ss[i].blk # B[n].blk
                 /\ \A n \in (F[j] + 1)..Len(B) : \E i \in j..Len(ss) : ss[i].blk = B[n].blk
      <3>1. j \in 1..(m - 1) BY <1>2
      <3>2. \A i \in j..(m - 1) : ss[i] = scs[i] BY <1>1, <1>2, <3>1
      <3>3. /\ F[j] \in 0..k
            /\ \A n \in 1..F[j] : \A i \in j..(m - 1) : scs[i].blk # B[n].blk
            /\ \A n \in (F[j] + 1)..k : \E i \in j..(m - 1) : scs[i].blk = B[n].blk
        BY <1>6, <3>1
      <3>4. j..Len(ss) = j..(m - 1) /\ Len(B) = k BY <1>2, <1>5
      <3> HIDE DEF m
      <3>5. \A n \in 1..F[j] : \A i \in j..Len(ss) : ss[i].blk # B[n].blk
        BY <3>2, <3>3, <3>4
      <3>6. \A n \in (F[j] + 1)..Len(B) : \E i \in j..Len(ss) : ss[i].blk = B[n].blk
        BY <3>2, <3>3, <3>4
      <3> QED BY <3>3, <3>4, <3>5, <3>6
    <2> QED BY <2>1 DEF Outside
  <1> QED BY <1>2, <1>3, <1>5, <1>6, <1>7 DEF B, ss

(* The scopes change, but not whose they are.                              *)
LEMMA OutsideKept ==
    ASSUME NEW F, NEW A, NEW scs, Outside(F, A, scs), NEW ss, Len(ss) = Len(scs),
           Len(scs) \in Nat, Len(A) \in Nat,
           \A i \in 1..Len(scs) : \A n \in 1..Len(A) :
               ss[i].blk = A[n].blk <=> scs[i].blk = A[n].blk
    PROVE  Outside(F, A, ss)
  <1>1. ASSUME NEW j \in 1..Len(ss)
        PROVE  /\ F[j] \in 0..Len(A)
               /\ \A n \in 1..F[j] : \A i \in j..Len(ss) : ss[i].blk # A[n].blk
               /\ \A n \in (F[j] + 1)..Len(A) : \E i \in j..Len(ss) : ss[i].blk = A[n].blk
    <2>1. /\ F[j] \in 0..Len(A)
          /\ \A n \in 1..F[j] : \A i \in j..Len(scs) : scs[i].blk # A[n].blk
          /\ \A n \in (F[j] + 1)..Len(A) : \E i \in j..Len(scs) : scs[i].blk = A[n].blk
      BY DEF Outside
    <2>2. \A i \in j..Len(scs) : i \in 1..Len(scs) OBVIOUS
    <2>3. /\ \A n \in 1..F[j] : n \in 1..Len(A)
          /\ \A n \in (F[j] + 1)..Len(A) : n \in 1..Len(A)
      BY <2>1
    <2>4. ASSUME NEW n \in (F[j] + 1)..Len(A) PROVE \E i \in j..Len(ss) : ss[i].blk = A[n].blk
      <3>1. PICK i \in j..Len(scs) : scs[i].blk = A[n].blk BY <2>1
      <3> QED BY <2>2, <2>3, <3>1
    <2> QED BY <2>1, <2>2, <2>3, <2>4
  <1> QED BY <1>1 DEF Outside

(* The innermost scope has an array more.                                  *)
LEMMA OutsideDeclare ==
    ASSUME NEW F, NEW A, NEW scs, Outside(F, A, scs), NEW B, NEW a,
           Len(A) \in Nat, Len(scs) \in Nat, Len(scs) >= 1,
           Len(B) = Len(A) + 1, B[Len(A) + 1] = a, \A n \in 1..Len(A) : B[n] = A[n],
           a.blk = scs[Len(scs)].blk
    PROVE  /\ Outside(F, B, scs)
           /\ \A j \in 1..Len(scs) : Saves(B, F[j]) = Saves(A, F[j])
  <1>1. ASSUME NEW j \in 1..Len(scs)
        PROVE  /\ F[j] \in 0..Len(B)
               /\ \A n \in 1..F[j] : \A i \in j..Len(scs) : scs[i].blk # B[n].blk
               /\ \A n \in (F[j] + 1)..Len(B) : \E i \in j..Len(scs) : scs[i].blk = B[n].blk
               /\ Saves(B, F[j]) = Saves(A, F[j])
    <2>1. /\ F[j] \in 0..Len(A)
          /\ \A n \in 1..F[j] : \A i \in j..Len(scs) : scs[i].blk # A[n].blk
          /\ \A n \in (F[j] + 1)..Len(A) : \E i \in j..Len(scs) : scs[i].blk = A[n].blk
      BY DEF Outside
    <2>2. \A n \in 1..F[j] : B[n] = A[n] BY <2>1
    <2>3. ASSUME NEW n \in (F[j] + 1)..Len(B) PROVE \E i \in j..Len(scs) : scs[i].blk = B[n].blk
      <3>1. CASE n = Len(A) + 1
        <4>1. Len(scs) \in j..Len(scs) OBVIOUS
        <4> QED BY <3>1, <4>1
      <3>2. CASE n # Len(A) + 1
        <4>1. n \in (F[j] + 1)..Len(A) /\ n \in 1..Len(A) BY <2>1, <3>2
        <4> QED BY <2>1, <4>1
      <3> QED BY <3>1, <3>2
    <2>4. F[j] \in 0..Len(B) BY <2>1
    <2> QED BY SMTT(30), <2>1, <2>2, <2>3, <2>4, SavesSame
  <1> QED BY <1>1 DEF Outside

(* The arrays that a block's end releases are those that are not outside   *)
(* it; the restores take the saves of all to those of the rest.            *)
LEMMA MineAre ==
    ASSUME NEW F, NEW U, arrayDecls \in Seq(U), NEW S, scopes \in Seq(S), scopes # <<>>,
           Outside(F, arrayDecls, scopes), NEW k, k = F[Len(scopes)]
    PROVE  k \in 0..Len(arrayDecls) /\ Cardinality(Mine) = Len(arrayDecls) - k
  <1> DEFINE m == Len(scopes)
  <1>1. m \in Nat /\ m >= 1 /\ m \in 1..m BY LenPositive
  <1>2. Scope = scopes[m] BY DEF Scope, Last
  <1>3. Len(arrayDecls) \in Nat BY LenProperties
  <1>4. /\ k \in 0..Len(arrayDecls)
        /\ \A n \in 1..k : scopes[m].blk # arrayDecls[n].blk
        /\ \A n \in (k + 1)..Len(arrayDecls) : scopes[m].blk = arrayDecls[n].blk
    <2>1. \A i \in m..m : i = m BY <1>1
    <2>2. m \in m..m BY <1>1
    <2> QED BY <1>1, <2>1, <2>2 DEF Outside
  <1>5. Mine = (k + 1)..Len(arrayDecls)
    <2>1. ASSUME NEW n \in Mine PROVE n \in (k + 1)..Len(arrayDecls)
      <3>1. n \in 1..Len(arrayDecls) /\ n \in n..Len(arrayDecls) BY DEF Mine
      <3>2. arrayDecls[n].blk = Scope.blk BY <3>1 DEF Mine
      <3>3. n \notin 1..k BY <1>2, <1>4, <3>2
      <3> QED BY <1>3, <1>4, <3>1, <3>3
    <2>2. ASSUME NEW n \in (k + 1)..Len(arrayDecls) PROVE n \in Mine
      <3>1. n \in 1..Len(arrayDecls) /\ n..Len(arrayDecls) \subseteq (k + 1)..Len(arrayDecls)
        BY <1>3, <1>4
      <3> QED BY <1>2, <1>4, <3>1 DEF Mine
    <2> QED BY <2>1, <2>2
  <1>6. k + 1 \in Int /\ Len(arrayDecls) \in Int BY <1>3, <1>4
  <1>7. Cardinality((k + 1)..Len(arrayDecls))
          = IF k + 1 > Len(arrayDecls) THEN 0 ELSE Len(arrayDecls) - (k + 1) + 1
    BY <1>6, FS_Interval
  <1> QED BY <1>3, <1>4, <1>5, <1>7

LEMMA RestoresRun ==
    ASSUME Len(arrayDecls) \in Nat, NEW k \in 0..Len(arrayDecls),
           Cardinality(Mine) = Len(arrayDecls) - k
    PROVE  /\ Sequence(Restores) /\ Exits(Restores) = {}
           /\ Runs(Restores, Saves(arrayDecls, Len(arrayDecls)), Saves(arrayDecls, k))
  <1> DEFINE A == arrayDecls
             l == Len(A)
             N == l - k
             R(n) == StackRestore(A[l + 1 - n].save)
             T == {R(n) : n \in 1..N}
             g == [n \in 0..N |-> Saves(A, l - n)]
  <1>1. N \in Nat /\ l \in Nat OBVIOUS
  <1>2. Restores = [n \in 1..N |-> R(n)] BY DEF Restores
  <1>3. Restores \in [1..N -> T] BY <1>2
  <1>4. Restores \in Seq(T) BY <1>1, <1>3, SeqDef
  <1>5. Sequence(Restores) /\ Len(Restores) = N
    <2>1. Len(Restores) = N BY <1>1, <1>2
    <2>2. Sequence(Restores) BY <1>4 DEF Sequence
    <2> QED BY <2>1, <2>2
  <1>6. \A n \in 1..N : /\ Restores[n].op = "restore" /\ Restores[n].arg = A[l + 1 - n].save
                        /\ Restores[n].to = <<>>
    BY <1>2 DEF StackRestore, Instr
  <1>7. Exits(Restores) = {}
    <2>1. \A n \in 1..Len(Restores) : ToSet(Restores[n].to) = {}
      <3>1. ToSet(<<>>) = {} BY DEF ToSet
      <3> QED BY <1>5, <1>6, <3>1
    <2> QED BY <2>1 DEF Exits
  <1>8. \A n \in 0..N : g[n] = Saves(A, l - n) OBVIOUS
  <1> HIDE DEF g, R, T
  <1>9. g[0] = Saves(A, l) /\ g[N] = Saves(A, k)
    <2>1. 0 \in 0..N /\ N \in 0..N /\ l - 0 = l /\ l - N = k BY <1>1
    <2> QED BY <1>8, <2>1
  <1>10. ASSUME NEW n \in 1..N PROVE g[n] = Effect(Restores[n], g[n - 1])
    <2> DEFINE j == l + 1 - n
    <2>1. /\ n \in 0..N /\ n - 1 \in 0..N /\ j \in Nat /\ j # 0
          /\ l - (n - 1) = j /\ j - 1 = l - n
      BY <1>1
    <2>2. g[n] = Saves(A, j - 1) /\ g[n - 1] = Saves(A, j) BY <1>8, <2>1
    <2>3. Restores[n].op = "restore" /\ Restores[n].arg = A[j].save BY <1>6
    <2> HIDE DEF j
    <2>4. /\ Saves(A, j) # <<>> /\ Last(Saves(A, j)) = A[j].save
          /\ Front(Saves(A, j)) = Saves(A, j - 1)
      BY <2>1, SavesBelow
    <2> HIDE DEF A
    <2> QED BY <2>2, <2>3, <2>4 DEF Effect
  <1> HIDE DEF N
  <1>11. Runs(Restores, Saves(A, l), Saves(A, k)) BY <1>5, <1>9, <1>10 DEF Runs
  <1> QED BY <1>5, <1>7, <1>11

-----------------------------------------------------------------------------
(* A step of the code generator, and what the scopes await.                *)

(* g is what f has become: blocks have been added, and of those there were *)
(* only the entry's and the current one's instructions have changed.       *)
Enlarged(f, L, g, M) ==
    /\ Len(f.blocks) \in Nat /\ Len(g.blocks) \in Nat /\ Len(g.blocks) >= Len(f.blocks)
    /\ \A b \in Blocks(f) : /\ M[b] = L[b]
                            /\ b \notin {1, f.at} => g.blocks[b] = f.blocks[b]

(* What a scope awaits stays, if its blocks are not moved to.              *)
LEMMA AwaitsKept ==
    ASSUME NEW f, NEW L, NEW g, NEW M, Enlarged(f, L, g, M), NEW s, NEW c, Awaits(f, L, s, c),
           g.at \notin Pending(c)
    PROVE  Awaits(g, M, s, c)
  <1>1. Blocks(f) \subseteq Blocks(g) BY DEF Enlarged, Blocks
  <1>2. ASSUME NEW p \in Pending(c)
        PROVE  p \in Blocks(g) \ {1, g.at} /\ g.blocks[p] = <<>> /\ M[p] = s
    BY <1>1 DEF Awaits, Enlarged
  <1>3. IsLoop(c) => c.hdr \in Blocks(g) /\ M[c.hdr] = s BY <1>1 DEF Awaits, Enlarged
  <1> QED BY <1>2, <1>3 DEF Awaits

LEMMA AllAwaitKept ==
    ASSUME NEW f, NEW L, NEW g, NEW M, Enlarged(f, L, g, M),
           NEW F, NEW A, NEW scs, AllAwait(f, L, F, A, scs),
           NEW B, \A j \in 1..Len(scs) : Saves(B, F[j]) = Saves(A, F[j]),
           \A j \in 1..Len(scs) : g.at \notin Pending(scs[j])
    PROVE  AllAwait(g, M, F, B, scs)
  <1>1. ASSUME NEW j \in 1..Len(scs) PROVE Awaits(g, M, Saves(B, F[j]), scs[j])
    <2>1. Awaits(f, L, Saves(A, F[j]), scs[j]) BY DEF AllAwait
    <2>2. Awaits(g, M, Saves(A, F[j]), scs[j]) BY <2>1, AwaitsKept
    <2> QED BY <2>2
  <1> QED BY <1>1 DEF AllAwait

(* Between two blocks: c is the scope that is about to be pushed, or has   *)
(* been popped.                                                            *)
Between(f, L, F, A, scs, c) ==
    /\ FlowAt(f, L, F, A, scs)
    /\ Awaits(f, L, Saves(A, Len(A)), c)
    /\ \A j \in 1..Len(scs) : Pending(c) \cap Pending(scs[j]) = {}

(* A scope is pushed.                                                      *)
LEMMA FlowPush ==
    ASSUME NEW f, NEW L, NEW F, NEW U, NEW A \in Seq(U), NEW S, NEW scs \in Seq(S), NEW c,
           Between(f, L, F, A, scs, c), \A n \in 1..Len(A) : A[n].blk # c.blk
    PROVE  Flows(f, A, Append(scs, c))
  <1> DEFINE T == S \cup {c}
             m == Len(scs) + 1
             G == [j \in 1..m |-> IF j = m THEN Len(A) ELSE F[j]]
             ss == Append(scs, c)
  <1>1. scs \in Seq(T) /\ c \in T BY SeqMonotonic
  <1> HIDE DEF T
  <1>2. /\ Len(scs) \in Nat /\ Len(ss) = m /\ ss[m] = c
        /\ \A i \in 1..Len(scs) : ss[i] = scs[i]
    BY <1>1, PushLemma
  <1>3. Len(A) \in Nat BY LenProperties
  <1>4. G[m] = Len(A) /\ \A j \in 1..Len(scs) : G[j] = F[j]
    BY <1>2
  <1> HIDE DEF G
  <1>5. Outside(G, A, ss) BY <1>1, <1>3, <1>4, OutsidePush DEF Between, FlowAt
  <1> HIDE DEF ss
  <1>6. \A j \in 1..Len(ss) : j = m \/ j \in 1..Len(scs) BY <1>2
  <1> HIDE DEF m
  <1>7. ASSUME NEW j \in 1..Len(ss) PROVE Awaits(f, L, Saves(A, G[j]), ss[j])
    <2>1. CASE j = m BY <1>2, <1>4, <2>1 DEF Between
    <2>2. CASE j \in 1..Len(scs) BY <1>2, <1>4, <2>2 DEF Between, FlowAt, AllAwait
    <2> QED BY <1>6, <2>1, <2>2
  <1>8. ASSUME NEW i \in 1..Len(ss), NEW j \in 1..Len(ss), i # j
        PROVE  Pending(ss[i]) \cap Pending(ss[j]) = {}
    <2>1. CASE i = m BY <1>2, <1>6, <1>8, <2>1 DEF Between
    <2>2. CASE j = m BY <1>2, <1>6, <1>8, <2>2 DEF Between
    <2>3. CASE i \in 1..Len(scs) /\ j \in 1..Len(scs)
      BY <1>2, <1>8, <2>3 DEF Between, FlowAt, AllAwait
    <2> QED BY <1>6, <2>1, <2>2, <2>3
  <1>9. AllAwait(f, L, G, A, ss) BY <1>7, <1>8 DEF AllAwait
  <1>10. FlowAt(f, L, G, A, ss) BY <1>5, <1>9 DEF Between, FlowAt
  <1> QED BY <1>10 DEF Flows, ss

(* The topmost scope is popped; its arrays have been released by `is'.     *)
LEMMA FlowPop ==
    ASSUME NEW f, NEW L, NEW F, NEW U, NEW A \in Seq(U), NEW S, NEW scs \in Seq(S), scs # <<>>,
           FlowAt(f, L, F, A, scs), \A n \in 1..Len(A) : A[n].save # None,
           NEW k, k = F[Len(scs)], NEW is, Sequence(is), Exits(is) = {},
           Runs(is, Saves(A, Len(A)), Saves(A, k))
    PROVE  Between(Emit(f, is), L, F, SubSeq(A, 1, k), Front(scs), scs[Len(scs)])
  <1> DEFINE B == SubSeq(A, 1, k)
             ss == Front(scs)
             g == Emit(f, is)
             m == Len(scs)
  <1>1. /\ k \in 0..Len(A) /\ Len(B) = k /\ Len(ss) = Len(scs) - 1 /\ Outside(F, B, ss)
        /\ \A j \in 1..Len(ss) : F[j] \in 0..k /\ Saves(B, F[j]) = Saves(A, F[j])
    BY OutsidePop DEF FlowAt
  <1>2. Len(A) \in Nat /\ k \in Nat /\ \A n \in 1..k : n \in 1..Len(A) /\ B[n] = A[n]
    <2>1. Len(A) \in Nat BY LenProperties
    <2> QED BY <1>1, <2>1, PrefixLemma
  <1>3. Saves(B, k) = Saves(A, k)
    <2> HIDE DEF B
    <2> QED BY <1>2, SavesSame
  <1>4. m \in Nat /\ m \in 1..m /\ Len(ss) = m - 1 /\ \A i \in 1..(m - 1) : ss[i] = scs[i]
    BY LenPositive, FrontLemma
  <1>5. Labelled(f, L, Saves(A, Len(A))) /\ IsFunction(f) BY DEF FlowAt, Labelled
  <1>6. /\ IsFunction(g) /\ Len(g.blocks) = Len(f.blocks) /\ g.at = f.at
        /\ g.blocks[f.at] = f.blocks[f.at] \o is
        /\ \A c \in Blocks(f) : c # f.at => g.blocks[c] = f.blocks[c]
    BY <1>5, EmitBlock
  <1>7. /\ Len(f.blocks) \in Nat /\ f.at \in Blocks(f) /\ Blocks(f) = 1..Len(f.blocks)
        /\ \A b \in Blocks(f) : Sequence(f.blocks[b])
    BY <1>5, FunctionLen
  <1> HIDE DEF B, ss, g
  <1>8. Blocks(g) = Blocks(f) BY <1>6 DEF Blocks
  <1>9. Labelled(g, L, Saves(A, k))
    <2>1. Saves(A, k) # Unbalanced BY <1>2, SavesBracket
    <2>2. Exits(g.blocks[g.at]) = {}
      <3>1. Exits(f.blocks[f.at]) = {} BY <1>5 DEF Labelled
      <3>2. Exits(f.blocks[f.at] \o is) = Exits(f.blocks[f.at]) \cup Exits(is)
        BY <1>7, NeutralJoin
      <3> QED BY <1>6, <3>1, <3>2
    <2>3. Runs(g.blocks[g.at], L[g.at], Saves(A, k))
      <3>1. Runs(f.blocks[f.at], L[f.at], Saves(A, Len(A))) BY <1>5 DEF Labelled
      <3>2. Runs(f.blocks[f.at] \o is, L[f.at], Saves(A, k)) BY <1>7, <3>1, RunsJoin
      <3> QED BY <1>6, <3>2
    <2>4. Len(g.blocks) >= Len(f.blocks) BY <1>6, <1>7
    <2>5. \A b \in Blocks(g) : L[b] = IF b \in Blocks(f) THEN L[b] ELSE Saves(A, k)
      BY <1>8
    <2> QED BY <1>5, <1>6, <1>8, <2>1, <2>2, <2>3, <2>4, <2>5, GrowLabels
  <1>10. Enlarged(f, L, g, L) BY <1>6, <1>7 DEF Enlarged
  <1>11. \A j \in 1..m : g.at \notin Pending(scs[j])
    BY <1>6 DEF FlowAt, AllAwait, Awaits
  <1>12. AllAwait(g, L, F, A, scs) BY <1>10, <1>11, AllAwaitKept DEF FlowAt
  <1>13. AllAwait(g, L, F, B, ss)
    <2>1. \A j \in 1..Len(ss) : j \in 1..m /\ ss[j] = scs[j] BY <1>4
    <2>2. ASSUME NEW j \in 1..Len(ss) PROVE Awaits(g, L, Saves(B, F[j]), ss[j])
      BY <1>1, <1>12, <2>1 DEF AllAwait
    <2> QED BY <1>12, <2>1, <2>2 DEF AllAwait
  <1>14. Awaits(g, L, Saves(B, Len(B)), scs[m])
    BY <1>1, <1>3, <1>4, <1>12 DEF AllAwait
  <1>15. ASSUME NEW j \in 1..Len(ss) PROVE Pending(scs[m]) \cap Pending(ss[j]) = {}
    <2>1. j \in 1..m /\ j # m /\ ss[j] = scs[j] BY <1>4
    <2> QED BY <1>4, <1>12, <2>1 DEF AllAwait
  <1>16. FlowAt(g, L, F, B, ss) BY <1>1, <1>3, <1>9, <1>13 DEF FlowAt
  <1>17. Between(g, L, F, B, ss, scs[m]) BY <1>14, <1>15, <1>16 DEF Between
  <1> QED BY <1>17 DEF g, B, ss
=============================================================================
