-------------------------- MODULE TypecheckProofs --------------------------
(***************************************************************************)
(* Every action of the typechecker keeps the invariant Good.  The types of *)
(* the symbol table's operators, and what each form of a step preserves,   *)
(* come first; then the steps that enter or leave a function; the others   *)
(* are instances of the forms.  Last, what the actions do to the blocks    *)
(* open: the blocks open at the nodes recorded, followed by those being    *)
(* visited, stay a History (Nested).                                       *)
(***************************************************************************)
EXTENDS OpenBlocks, SeqLemmas

(* The state of the typechecker is well typed, and its visits are.         *)
TcTyped ==
    /\ fns \in Protos
    /\ ast \in Seq(Nodes)
    /\ trail \in Seq(Chains)
    /\ symTab \in Chains
    /\ visiting \in Seq(Frames)
    /\ fnIdx \in 0..Len(fns)

LEMMA VarInfoType ==
    ASSUME NEW type, NEW d \in Nat \X Nat
    PROVE  VarInfo(type, d) \in SymbolInfo /\ VarInfo(type, d).type # "Function"
  BY DEF VarInfo, SymbolInfo, TokenToSymbolType, SymbolTypes

LEMMA FnInfoType ==
    ASSUME NEW i \in Nat
    PROVE  FnInfo(i) \in SymbolInfo /\ NoSym \in SymbolInfo /\ NoSym.type # "Function"
  BY DEF FnInfo, SymbolInfo, SymbolTypes, NoSym

LEMMA NodeType ==
    ASSUME NEW k \in NodeKinds, NEW x \in Names \cup {NoName}, NEW op \in Labels,
           NEW kids \in Seq(Nat), NEW res \in ResultTokens \cup {"none"}, NEW vs
    PROVE  Node(k, x, op, kids, res, IsLive(vs)) \in Nodes
  <1>1. IsLive(vs) \in BOOLEAN BY DEF IsLive
  <1> QED BY <1>1 DEF Node, Nodes

LEMMA RecordType ==
    ASSUME TcTyped,
           NEW k \in NodeKinds, NEW x \in Names \cup {NoName}, NEW op \in Labels,
           NEW kids \in Seq(Nat), NEW res \in ResultTokens \cup {"none"}, NEW vs,
           NEW st \in Chains, Record(k, x, op, kids, res, vs, st)
    PROVE  /\ ast' \in Seq(Nodes) /\ symTab' \in Chains /\ trail' \in Seq(Chains)
           /\ Len(ast) \in Nat /\ Len(ast') = Len(ast) + 1
           /\ \A i \in 1..Len(ast) : ast'[i] = ast[i]
  <1>1. Node(k, x, op, kids, res, IsLive(vs)) \in Nodes BY NodeType
  <1> QED BY <1>1, PushLemma DEF Record, TcTyped

-----------------------------------------------------------------------------
(* The chain of tables.                                                    *)

Tables == [Keys -> SymbolInfo]

LEMMA EmptyTableType == EmptyTable \in Tables /\ \A n \in Keys : EmptyTable[n] = NoSym
  BY FnInfoType DEF EmptyTable, Tables

LEMMA AddChain ==
    ASSUME NEW c \in Chains, Len(c) >= 1, NEW x \in Names, NEW info \in SymbolInfo
    PROVE  /\ Add(c, x, info) \in Chains
           /\ Len(Add(c, x, info)) = Len(c)
           /\ \A L \in 1..Len(c) : \A n \in Keys :
                 Add(c, x, info)[L][n] = IF L = Len(c) /\ n = x THEN info ELSE c[L][n]
  <1> DEFINE m == Len(c)
             t == [c[m] EXCEPT ![x] = info]
  <1>1. c \in Seq(Tables) BY DEF Chains, Tables
  <1>2. m \in 1..Len(c) BY <1>1, LenProperties
  <1>3. c[m] \in Tables BY <1>1, <1>2, ElementOfSeq
  <1>4. t \in Tables /\ \A n \in Keys : t[n] = IF n = x THEN info ELSE c[m][n]
    BY <1>3 DEF Tables, Keys
  <1>5. Add(c, x, info) = [c EXCEPT ![m] = t] BY DEF Add
  <1> HIDE DEF t
  <1>6. /\ [c EXCEPT ![m] = t] \in Seq(Tables)
        /\ Len([c EXCEPT ![m] = t]) = Len(c)
        /\ \A L \in 1..Len(c) : [c EXCEPT ![m] = t][L] = IF L = m THEN t ELSE c[L]
    BY <1>1, <1>2, <1>4, ExceptSeq
  <1> QED BY <1>4, <1>5, <1>6 DEF Chains, Tables

LEMMA EnterChain ==
    ASSUME NEW c \in Chains
    PROVE  /\ EnterScope(c) \in Chains
           /\ Len(c) \in Nat /\ Len(EnterScope(c)) = Len(c) + 1
           /\ \A L \in 1..Len(c) : EnterScope(c)[L] = c[L]
           /\ EnterScope(c)[Len(c) + 1] = EmptyTable
  BY EmptyTableType, PushLemma DEF EnterScope, Chains, Tables

LEMMA LeaveChain ==
    ASSUME NEW c \in Chains, NEW k \in 0..Len(c)
    PROVE  /\ LeaveScopes(c, k) \in Chains
           /\ Len(c) \in Nat /\ Len(LeaveScopes(c, k)) = Len(c) - k
           /\ \A L \in 1..(Len(c) - k) : LeaveScopes(c, k)[L] = c[L]
  <1>1. c \in Seq(Tables) BY DEF Chains, Tables
  <1>2. Len(c) \in Nat /\ Len(c) - k \in 0..Len(c) BY <1>1, LenProperties
  <1> QED BY <1>1, <1>2, PrefixLemma DEF LeaveScopes, Chains, Tables

-----------------------------------------------------------------------------
(* The visits.                                                             *)

(* The frames ws are those of vs but for what a statement notes in its     *)
(* block or an expression leaves in the visit it is an operand of.         *)
Marks(vs, ws) ==
    /\ ws \in Seq(Frames)
    /\ Len(ws) = Len(vs)
    /\ \A j \in 1..Len(vs) :
          /\ ws[j].k = vs[j].k /\ ws[j].base = vs[j].base
          /\ vs[j].ret => ws[j].ret

(* Nor has any visit a new operand.                                        *)
Keeps(vs, ws) ==
    \A j \in 1..Len(vs) :
        /\ ws[j].k = vs[j].k /\ ws[j].op = vs[j].op /\ ws[j].x = vs[j].x
        /\ ws[j].proto = vs[j].proto /\ ws[j].kids = vs[j].kids

LEMMA MarksSelf ==
    ASSUME NEW vs \in Seq(Frames)
    PROVE  Marks(vs, vs) /\ Keeps(vs, vs)
  BY DEF Marks, Keeps

LEMMA NotedMarks ==
    ASSUME NEW vs \in Seq(Frames), vs # <<>>, NEW k \in NodeKinds \cup FrameKinds
    PROVE  Marks(vs, Noted(vs, k)) /\ Keeps(vs, Noted(vs, k))
  <1> DEFINE n == Len(vs)
             f == [vs[n] EXCEPT !.last = k]
  <1>1. n \in 1..Len(vs) /\ vs[n] \in Frames BY LastLemma
  <1>2. /\ f \in Frames
        /\ f.k = vs[n].k /\ f.base = vs[n].base /\ f.op = vs[n].op
        /\ f.proto = vs[n].proto /\ f.kids = vs[n].kids /\ f.ret = vs[n].ret /\ f.x = vs[n].x
    BY <1>1 DEF Frames
  <1>3. [vs EXCEPT ![n].last = k] = [vs EXCEPT ![n] = f] OBVIOUS
  <1> HIDE DEF f, n
  <1>4. Marks(vs, [vs EXCEPT ![n] = f]) /\ Keeps(vs, [vs EXCEPT ![n] = f])
    <2>1. /\ [vs EXCEPT ![n] = f] \in Seq(Frames)
          /\ Len([vs EXCEPT ![n] = f]) = Len(vs)
          /\ \A j \in 1..Len(vs) :
                [vs EXCEPT ![n] = f][j] = IF j = n THEN f ELSE vs[j]
      BY <1>1, <1>2, ExceptSeq
    <2> QED BY <1>2, <2>1 DEF Marks, Keeps
  <1>5. Marks(vs, vs) /\ Keeps(vs, vs) BY MarksSelf
  <1> QED BY <1>3, <1>4, <1>5 DEF Noted, n

LEMMA ReturnedMarks ==
    ASSUME NEW vs \in Seq(Frames), vs # <<>>
    PROVE  /\ Marks(vs, Returned(vs)) /\ Keeps(vs, Returned(vs))
           /\ Returned(vs)[Len(vs)].ret
  <1> DEFINE n == Len(vs)
             f == [vs[n] EXCEPT !.ret = TRUE]
  <1>1. n \in 1..Len(vs) /\ vs[n] \in Frames BY LastLemma
  <1>2. /\ f \in Frames
        /\ f.k = vs[n].k /\ f.base = vs[n].base /\ f.op = vs[n].op
        /\ f.proto = vs[n].proto /\ f.kids = vs[n].kids /\ f.ret /\ f.x = vs[n].x
    BY <1>1 DEF Frames
  <1>3. Returned(vs) = [vs EXCEPT ![n] = f] BY DEF Returned
  <1> HIDE DEF f
  <1>4. /\ [vs EXCEPT ![n] = f] \in Seq(Frames)
        /\ Len([vs EXCEPT ![n] = f]) = Len(vs)
        /\ \A j \in 1..Len(vs) :
              [vs EXCEPT ![n] = f][j] = IF j = n THEN f ELSE vs[j]
    BY <1>1, <1>2, ExceptSeq
  <1> QED BY <1>1, <1>2, <1>3, <1>4 DEF Marks, Keeps

LEMMA FrameType ==
    ASSUME NEW k \in FrameKinds, NEW x \in Names \cup {NoName},
           NEW op \in Labels \cup TypeTokens \cup {"Err"}, NEW proto \in Nat, NEW base \in Nat
    PROVE  Frame(k, x, op, proto, base) \in Frames
  <1>1. <<>> \in Seq(Nat) BY EmptySeq
  <1> QED BY <1>1 DEF Frame, Frames

(* A program that grows keeps the frames good.                             *)
Extends(tree, longer) ==
    /\ Len(tree) \in Nat /\ Len(longer) \in Nat /\ Len(tree) <= Len(longer)
    /\ \A i \in 1..Len(tree) : longer[i] = tree[i]

LEMMA GoodStays ==
    ASSUME NEW f, NEW tree, NEW longer, NEW ps, NEW doing, NEW then,
           Extends(tree, longer), then = "typecheck" => doing = "typecheck",
           FrameGood(f, tree, ps, doing)
    PROVE  FrameGood(f, longer, ps, then)
  <1>1. 1..Len(tree) \subseteq 1..Len(longer) BY DEF Extends
  <1>2. f.kids \in Seq(1..Len(tree)) BY DEF FrameGood
  <1>3. f.kids \in Seq(1..Len(longer)) BY <1>1, <1>2, SeqMonotonic
  <1>4. Len(f.kids) = 2 => f.kids[1] \in 1..Len(tree) /\ f.kids[2] \in 1..Len(tree)
    BY <1>2, ElementOfSeq
  <1> QED BY <1>3, <1>4 DEF FrameGood, Extends

LEMMA VisitsStayGood ==
    ASSUME NEW vs, NEW ws, NEW tree, NEW longer, NEW ps, NEW doing, NEW then,
           Extends(tree, longer), then = "typecheck" => doing = "typecheck",
           VisitsGood(vs, tree, ps, doing), Keeps(vs, ws), Len(ws) = Len(vs)
    PROVE  VisitsGood(ws, longer, ps, then)
  <1> SUFFICES ASSUME NEW j \in 1..Len(ws) PROVE FrameGood(ws[j], longer, ps, then)
    BY DEF VisitsGood
  <1>1. FrameGood(vs[j], longer, ps, then) BY GoodStays DEF VisitsGood
  <1> QED BY <1>1 DEF FrameGood, Keeps

-----------------------------------------------------------------------------
(* The forms of a step.                                                    *)

TcGood == TcTyped /\ FrameInv /\ ProtoInv

LEMMA PushGood ==
    ASSUME NEW vs \in Seq(Frames), NEW tree, NEW ps, NEW doing,
           VisitsGood(vs, tree, ps, doing),
           NEW f \in Frames, FrameGood(f, tree, ps, doing)
    PROVE  /\ Append(vs, f) \in Seq(Frames)
           /\ VisitsGood(Append(vs, f), tree, ps, doing)
  <1>1. /\ Append(vs, f) \in Seq(Frames)
        /\ Len(vs) \in Nat /\ Len(Append(vs, f)) = Len(vs) + 1
        /\ \A i \in 1..Len(vs) : Append(vs, f)[i] = vs[i]
        /\ Append(vs, f)[Len(vs) + 1] = f
    BY PushLemma
  <1>2. ASSUME NEW j \in 1..(Len(vs) + 1) PROVE FrameGood(Append(vs, f)[j], tree, ps, doing)
    <2>1. CASE j \in 1..Len(vs) BY <1>1, <2>1 DEF VisitsGood
    <2>2. CASE j = Len(vs) + 1 BY <1>1, <2>2
    <2> QED BY <1>1, <2>1, <2>2
  <1> QED BY <1>1, <1>2 DEF VisitsGood

LEMMA NewFrameGood ==
    ASSUME NEW k \in FrameKinds, NEW x \in Names \cup {NoName},
           NEW op \in Labels \cup TypeTokens \cup {"Err"}, NEW proto \in Nat, NEW base \in Nat,
           NEW tree, NEW ps, NEW doing, k = "call" => proto \in 1..Len(ps),
           k = "arraydecl" => x \in Names, k # "assign" => op \in Labels
    PROVE  /\ Frame(k, x, op, proto, base) \in Frames
           /\ FrameGood(Frame(k, x, op, proto, base), tree, ps, doing)
  <1>1. Frame(k, x, op, proto, base) \in Frames BY FrameType
  <1>2. <<>> \in Seq(1..Len(tree)) /\ Len(<<>>) = 0 BY EmptySeq
  <1> QED BY <1>1, <1>2 DEF Frame, FrameGood

(* An operand is about to be visited.                                      *)
LEMMA VisitGood ==
    ASSUME TcGood, visiting # <<>>,
           NEW k \in FrameKinds, NEW x \in Names \cup {NoName},
           NEW op \in Labels \cup TypeTokens \cup {"Err"}, NEW proto \in Nat,
           k = "call" => proto \in 1..Len(fns), k = "arraydecl" => x \in Names, k # "assign" => op \in Labels,
           Visit(k, x, op, proto)
    PROVE  TcGood'
  <1> DEFINE ws == Noted(visiting, k)
             f  == Frame(k, x, op, proto, 0)
  <1>1. visiting \in Seq(Frames) /\ Extends(ast, ast)
    BY LenProperties DEF TcGood, TcTyped, Extends
  <1>2. Marks(visiting, ws) /\ Keeps(visiting, ws) BY <1>1, NotedMarks
  <1>3. ws \in Seq(Frames) /\ VisitsGood(ws, ast, fns, phase)
    BY <1>1, <1>2, VisitsStayGood DEF TcGood, FrameInv, Marks
  <1>4. f \in Frames /\ FrameGood(f, ast, fns, phase) BY NewFrameGood
  <1>5. visiting' = Append(ws, f) BY DEF Visit
  <1> HIDE DEF ws, f
  <1>6. visiting' \in Seq(Frames) /\ VisitsGood(visiting', ast, fns, phase)
    BY <1>3, <1>4, <1>5, PushGood
  <1> QED BY <1>6 DEF Visit, TcGood, TcTyped, FrameInv, ProtoInv

LEMMA StopGood ==
    ASSUME TcGood, NEW how, how # "typecheck", Stop(how)
    PROVE  TcGood'
  <1>1. Extends(ast, ast) BY LenProperties DEF TcGood, TcTyped, Extends
  <1>2. visiting \in Seq(Frames) BY DEF TcGood, TcTyped
  <1>3. VisitsGood(visiting, ast, fns, how)
    BY <1>1, <1>2, MarksSelf, VisitsStayGood DEF TcGood, FrameInv
  <1> QED BY <1>3 DEF Stop, TcGood, TcTyped, FrameInv, ProtoInv

(* A node is recorded; the frames are ws afterwards and the chain st.      *)
LEMMA RecordGood ==
    ASSUME TcGood,
           NEW k \in NodeKinds, NEW x \in Names \cup {NoName}, NEW op \in Labels,
           NEW kids \in Seq(Nat), NEW res \in ResultTokens \cup {"none"}, NEW vs,
           NEW st \in Chains, ProtosIn(st, fns),
           Record(k, x, op, kids, res, vs, st),
           NEW ws \in Seq(Frames), VisitsGood(ws, ast', fns, phase'), visiting' = ws,
           fns' = fns, fnIdx' \in 0..Len(fns)
    PROVE  TcGood'
  <1>1. ast' \in Seq(Nodes) /\ symTab' \in Chains /\ trail' \in Seq(Chains)
    BY RecordType DEF TcGood
  <1>2. symTab' = st BY DEF Record
  <1> QED BY <1>1, <1>2 DEF TcGood, TcTyped, FrameInv, ProtoInv

(* The visits that were good before a node is recorded are good after.     *)
LEMMA RecordKeepsGood ==
    ASSUME TcGood, NEW vs, NEW ws, VisitsGood(vs, ast, fns, phase), Keeps(vs, ws),
           Len(ws) = Len(vs), Len(ast') = Len(ast) + 1,
           \A i \in 1..Len(ast) : ast'[i] = ast[i],
           phase' = "typecheck" => phase = "typecheck"
    PROVE  Extends(ast, ast') /\ VisitsGood(ws, ast', fns, phase')
  <1>1. Len(ast) \in Nat BY LenProperties DEF TcGood, TcTyped
  <1>2. Extends(ast, ast') BY <1>1 DEF Extends
  <1> QED BY <1>2, VisitsStayGood

(* An expression becomes an operand of the visit below it, or a statement. *)
LEMMA DeliverGood ==
    ASSUME TcGood, phase = "typecheck",
           NEW vs \in Seq(Frames), vs # <<>>, VisitsGood(vs, ast, fns, phase),
           NEW k \in NodeKinds, NEW x \in Names \cup {NoName}, NEW op \in Labels,
           NEW kids \in Seq(Nat), NEW ty \in ResultTokens \cup {"none"},
           Deliver(vs, k, x, op, kids, ty)
    PROVE  TcGood' /\ Marks(vs, visiting')
  <1> DEFINE n == Len(vs)
  <1>1. Record(k, x, op, kids, ty, vs, symTab) /\ fns' = fns /\ fnIdx' = fnIdx BY DEF Deliver
  <1>2. symTab \in Chains /\ ProtosIn(symTab, fns) /\ fnIdx \in 0..Len(fns)
    BY DEF TcGood, TcTyped, ProtoInv
  <1>3. ty \in ResultTokens \cup {"none"} OBVIOUS
  <1>4. /\ Len(ast) \in Nat /\ Len(ast') = Len(ast) + 1
        /\ \A i \in 1..Len(ast) : ast'[i] = ast[i]
    BY <1>1, <1>2, <1>3, RecordType DEF TcGood
  <1>5. phase' = phase \/ phase' = "rejected" BY DEF Deliver
  <1>6. ast'[Len(ast) + 1].res = ty
    <2>1. Node(k, x, op, kids, ty, IsLive(vs)) \in Nodes BY <1>3, NodeType
    <2>2. ast'[Len(ast) + 1] = Node(k, x, op, kids, ty, IsLive(vs))
      BY <1>1, <2>1, PushLemma DEF Record, TcGood, TcTyped
    <2> QED BY <2>2 DEF Node
  <1>7. CASE vs[n].k \in BlockKinds
    <2>1. Marks(vs, Noted(vs, k)) /\ Keeps(vs, Noted(vs, k)) BY NotedMarks
    <2>2. visiting' = Noted(vs, k) BY <1>7 DEF Deliver, Last
    <2>3. Extends(ast, ast') /\ VisitsGood(Noted(vs, k), ast', fns, phase')
      BY <1>4, <1>5, <2>1, RecordKeepsGood DEF Marks
    <2>4. Noted(vs, k) \in Seq(Frames) BY <2>1 DEF Marks
    <2> HIDE DEF n
    <2> QED BY <1>1, <1>2, <1>3, <2>1, <2>2, <2>3, <2>4, RecordGood
  <1>8. CASE vs[n].k \notin BlockKinds
    <2> DEFINE kids2 == Append(vs[n].kids, Len(ast) + 1)
               f     == [vs[n] EXCEPT !.kids = kids2]
               ws    == [vs EXCEPT ![n] = f]
    <2>1. n \in 1..Len(vs) /\ vs[n] \in Frames /\ Last(vs) = vs[n] BY LastLemma
    <2>2. Extends(ast, ast') /\ VisitsGood(vs, ast', fns, phase')
      BY <1>4, <1>5, MarksSelf, RecordKeepsGood
    <2>3. FrameGood(vs[n], ast', fns, phase') BY <2>1, <2>2 DEF VisitsGood
    <2>4. vs[n].kids \in Seq(1..Len(ast')) BY <2>3 DEF FrameGood
    <2>5. Len(ast) + 1 \in 1..Len(ast') BY <1>4
    <2>6. /\ kids2 \in Seq(1..Len(ast'))
          /\ Len(vs[n].kids) \in Nat /\ Len(kids2) = Len(vs[n].kids) + 1
          /\ \A i \in 1..Len(vs[n].kids) : kids2[i] = vs[n].kids[i]
          /\ kids2[Len(vs[n].kids) + 1] = Len(ast) + 1
      BY <2>4, <2>5, PushLemma
    <2>7. kids2 \in Seq(Nat)
      <3>1. 1..Len(ast') \subseteq Nat BY <1>4
      <3> QED BY <2>6, <3>1, SeqMonotonic
    <2> HIDE DEF kids2
    <2>8. /\ f \in Frames
          /\ f.k = vs[n].k /\ f.base = vs[n].base /\ f.op = vs[n].op
          /\ f.proto = vs[n].proto /\ f.ret = vs[n].ret /\ f.kids = kids2 /\ f.x = vs[n].x
          /\ f.op = vs[n].op
      BY <2>1, <2>7 DEF Frames
    <2>9. phase' = "typecheck" => Accepts(vs[n], ty) BY <2>1 DEF Deliver
    <2>10. FrameGood(f, ast', fns, phase')
      <3>1. ASSUME phase' = "typecheck", vs[n].k = "binop", Len(kids2) = 2
            PROVE  BinopResult(vs[n].op, ast'[kids2[1]].res, ast'[kids2[2]].res) # "Err"
        <4>1. Len(vs[n].kids) = 1
          <5>1. \A m \in Nat : m + 1 = 2 => m = 1 OBVIOUS
          <5>2. Len(vs[n].kids) \in Nat /\ Len(vs[n].kids) + 1 = 2 BY <2>6, <3>1
          <5> QED BY <5>1, <5>2
        <4>2. BinopResult(vs[n].op, Res(vs[n].kids[1]), ty) # "Err"
          BY <2>9, <3>1, <4>1 DEF Accepts
        <4>3. kids2[1] = vs[n].kids[1] /\ kids2[2] = Len(ast) + 1 BY <2>6, <4>1
        <4>4. vs[n].kids[1] \in 1..Len(ast)
          <5>1. FrameGood(vs[n], ast, fns, phase) BY <2>1 DEF VisitsGood
          <5> QED BY <4>1, <5>1, ElementOfSeq DEF FrameGood
        <4> QED BY <1>4, <1>6, <4>2, <4>3, <4>4 DEF Res
      <3>2. /\ f.k = "call" => f.proto \in 1..Len(fns)
            /\ f.k = "arraydecl" => f.x \in Names
            /\ f.k # "assign" => f.op \in Labels
        BY <2>3, <2>8 DEF FrameGood
      <3> HIDE DEF f
      <3> QED BY <2>6, <2>8, <3>1, <3>2 DEF FrameGood
    <2> HIDE DEF f
    <2>11. /\ ws \in Seq(Frames) /\ Len(ws) = Len(vs)
           /\ \A j \in 1..Len(vs) : ws[j] = IF j = n THEN f ELSE vs[j]
      BY <2>1, <2>8, ExceptSeq
    <2>12. visiting' = ws
      BY <1>8, <2>1 DEF Deliver, f, kids2, Last
    <2> HIDE DEF ws, n
    <2>13. Marks(vs, ws) BY <2>8, <2>11 DEF Marks
    <2>14. VisitsGood(ws, ast', fns, phase') BY <2>2, <2>10, <2>11 DEF VisitsGood
    <2> QED BY <1>1, <1>2, <1>3, <2>11, <2>12, <2>13, <2>14, RecordGood
  <1> QED BY <1>7, <1>8

-----------------------------------------------------------------------------
(* Chains of tables with no name in two of them.                           *)

LEMMA AddUnshadowed ==
    ASSUME NEW c \in Chains, Len(c) >= 1, NEW x \in Names, NEW info \in SymbolInfo,
           Unshadowed(c), ~Declares(c, x)
    PROVE  Unshadowed(Add(c, x, info))
  <1>1. /\ Len(Add(c, x, info)) = Len(c)
        /\ \A L \in 1..Len(c) : \A n \in Keys :
              Add(c, x, info)[L][n] = IF L = Len(c) /\ n = x THEN info ELSE c[L][n]
    BY AddChain
  <1> QED BY <1>1 DEF Unshadowed, Declares

LEMMA EnterUnshadowed ==
    ASSUME NEW c \in Chains, Unshadowed(c)
    PROVE  Unshadowed(EnterScope(c))
  <1>1. /\ Len(c) \in Nat /\ Len(EnterScope(c)) = Len(c) + 1
        /\ \A L \in 1..Len(c) : EnterScope(c)[L] = c[L]
        /\ EnterScope(c)[Len(c) + 1] = EmptyTable
    BY EnterChain
  <1>2. \A n \in Keys : ~IsSym(EmptyTable[n]) BY EmptyTableType DEF IsSym
  <1>3. \A L \in 1..(Len(c) + 1) : L \in 1..Len(c) \/ L = Len(c) + 1 BY <1>1
  <1> QED BY <1>1, <1>2, <1>3 DEF Unshadowed

LEMMA LeaveUnshadowed ==
    ASSUME NEW c \in Chains, NEW k \in 0..Len(c), Unshadowed(c)
    PROVE  Unshadowed(LeaveScopes(c, k))
  <1>1. /\ Len(c) \in Nat /\ Len(LeaveScopes(c, k)) = Len(c) - k
        /\ \A L \in 1..(Len(c) - k) : LeaveScopes(c, k)[L] = c[L]
    BY LeaveChain
  <1>2. 1..(Len(c) - k) \subseteq 1..Len(c) BY <1>1
  <1> QED BY <1>1, <1>2 DEF Unshadowed

-----------------------------------------------------------------------------
(* A node is recorded.                                                     *)

(* What the chain st left by the node has that the chain before it has not *)
(* is declared by the node; a declaration is of a new name; a function     *)
(* finds no variables; and a node that looks a name up finds live ones.    *)
FromHere(st, k, x, kids, res) ==
    \A L \in 1..Len(st) : \A y \in Names :
        IsVar(st[L][y]) =>
          \/ L <= Len(symTab) /\ st[L][y] = symTab[L][y]
          \/ k \in DeclKinds /\ y = x /\ st[L][y] = VarInfo(res, DeclAt(Len(ast) + 1))
          \/ /\ k = "fn" /\ IsParam(fns[kids[1]].params, y)
             /\ st[L][y] = VarInfo(fns[kids[1]].params[ParamAt(fns[kids[1]].params, y)].type,
                                   ParamDecl(Len(ast) + 1, ParamAt(fns[kids[1]].params, y)))

NewName(k, x, res) ==
    k \in DeclKinds => /\ x \in Names /\ ~Declares(symTab, x) /\ res \in TypeTokens
                       /\ k = "arraydecl" => res = "Type_array"
                       /\ k = "forvar" => res = "Type_int"

AtTop(k, kids, vs) ==
    k = "fn" => /\ IsLive(vs) /\ kids[1] \in 1..Len(fns)
                /\ \A L \in 1..Len(symTab) : \A y \in Names : ~IsVar(symTab[L][y])

SeesLive(k, vs) ==
    k \in Lookups /\ IsLive(vs) =>
        \A L \in 1..Len(symTab) : \A y \in Names :
            IsVar(symTab[L][y]) => LiveSym(symTab[L][y])

(* Where a node and the chains about it stay, so does what links them.     *)
LEMMA LinkSame ==
    ASSUME NEW i, Sourced(i), Fresh(i), fns' = fns,
           ast'[i] = ast[i], trail'[i] = trail[i], trail'[i + 1] = trail[i + 1]
    PROVE  Sourced(i)' /\ Fresh(i)'
  <1> DEFINE From(chain, next, n, protos) ==
               \A L \in 1..Len(next) : \A x \in Names :
                   LET s  == next[L][x]
                       ps == protos[n.kids[1]].params
                   IN  IsVar(s) =>
                         \/ L <= Len(chain) /\ s = chain[L][x]
                         \/ /\ n.k \in DeclKinds /\ x = n.x
                            /\ s = VarInfo(n.res, DeclAt(i))
                         \/ /\ n.k = "fn" /\ IsParam(ps, x)
                            /\ s = VarInfo(ps[ParamAt(ps, x)].type, ParamDecl(i, ParamAt(ps, x)))
  <1>1. Sourced(i)'
    <2>1. Sourced(i) <=> From(trail[i], trail[i + 1], ast[i], fns) BY DEF Sourced
    <2>2. Sourced(i)' <=> From(trail'[i], trail'[i + 1], ast'[i], fns') BY DEF Sourced
    <2> HIDE DEF From
    <2> QED BY <2>1, <2>2
  <1>2. Fresh(i)' BY DEF Fresh
  <1> QED BY <1>1, <1>2

LEMMA RecordScope ==
    ASSUME TcGood, ScopeInv, trail # <<>>, phase' \notin {"declare"},
           NEW k \in NodeKinds, NEW x \in Names \cup {NoName}, NEW op \in Labels,
           NEW kids \in Seq(Nat), NEW res \in ResultTokens \cup {"none"}, NEW vs,
           NEW st \in Chains, Record(k, x, op, kids, res, vs, st), fns' = fns,
           Len(st) >= 1, st[1] = FnTable, Unshadowed(st),
           FromHere(st, k, x, kids, res), NewName(k, x, res), AtTop(k, kids, vs),
           SeesLive(k, vs)
    PROVE  /\ TrailInv' /\ NoShadowing' /\ TrailUnshadowed'
           /\ LinkInv' /\ DeclaredInv' /\ LookupInv'
  <1> DEFINE e == Node(k, x, op, kids, res, IsLive(vs))
  <1>1. /\ symTab \in Chains /\ ast \in Seq(Nodes) /\ trail \in Seq(Chains)
        /\ Len(ast) \in Nat /\ Len(trail) = Len(ast) + 1
        /\ trail[Len(trail)] = symTab /\ trail[1] = <<FnTable>> /\ symTab[1] = FnTable
    BY LenProperties DEF TcGood, TcTyped, ScopeInv, TrailInv
  <1>2. e \in Nodes BY NodeType
  <1> PICK n \in Nat : n = Len(ast) + 1 BY <1>1
  <1>3. /\ ast' = Append(ast, e) /\ symTab' = st /\ trail' = Append(trail, st)
    BY DEF Record
  <1>4. /\ Len(ast') = n /\ ast'[n] = e
        /\ \A i \in 1..Len(ast) : ast'[i] = ast[i]
    BY <1>1, <1>2, <1>3, PushLemma
  <1>5. /\ Len(trail') = n + 1 /\ trail'[n + 1] = st /\ trail'[n] = symTab
        /\ \A i \in 1..n : trail'[i] = trail[i]
    BY <1>1, <1>3, PushLemma
  <1>6. e.k = k /\ e.x = x /\ e.kids = kids /\ e.res = res /\ e.live = IsLive(vs) BY DEF Node
  <1>7. FnTable' = FnTable BY DEF FnTable
  <1> HIDE DEF e
  <1>8. n \in Nat /\ n >= 1 /\ Len(trail) = n /\ n = Len(ast) + 1
        /\ \A i \in 1..n : i \in 1..Len(ast) \/ i = n
    BY <1>1
  <1>9. TrailInv'
    <2>1. trail' # <<>>
      <3>1. Append(trail, st) # <<>> BY <1>1, PushLemma
      <3> QED BY <1>3, <3>1
    <2>2. trail'[1] = <<FnTable>> BY <1>1, <1>5, <1>8
    <2> QED BY <1>3, <1>4, <1>5, <1>7, <1>8, <2>1, <2>2 DEF TrailInv
  <1>10. NoShadowing' BY <1>3 DEF NoShadowing, Unshadowed
  <1>11. TrailUnshadowed'
    <2>1. \A i \in 1..n : Unshadowed(trail'[i]) BY <1>5, <1>8 DEF ScopeInv, TrailUnshadowed
    <2>2. \A i \in 1..(n + 1) : i \in 1..n \/ i = n + 1 BY <1>8
    <2> QED BY <1>5, <2>1, <2>2 DEF TrailUnshadowed
  <1>12. LinkInv'
    <2>1. ASSUME NEW i \in 1..Len(ast) PROVE Sourced(i)' /\ Fresh(i)'
      <3>1. /\ ast'[i] = ast[i] /\ trail'[i] = trail[i] /\ trail'[i + 1] = trail[i + 1]
        BY <1>1, <1>4, <1>5, <1>8
      <3>2. Sourced(i) /\ Fresh(i) BY DEF ScopeInv, LinkInv
      <3> QED BY <1>3, <3>1, <3>2, LinkSame
    <2>2. Sourced(n)' BY <1>4, <1>5, <1>6, <1>8 DEF Sourced, FromHere
    <2>3. Fresh(n)' BY <1>4, <1>5, <1>6, <1>8 DEF Fresh, Declares, NewName, AtTop
    <2> QED BY <1>4, <1>8, <2>1, <2>2, <2>3 DEF LinkInv
  <1>13. \A i \in 1..n : \A L \in 1..Len(trail'[i]) : \A y \in Names :
            IsVar(trail'[i][L][y]) => trail'[i][L][y].decl[1] \in 1..Len(ast)
    BY <1>5, <1>8 DEF ScopeInv, DeclaredInv
  <1>14. DeclaredInv'
    <2>1. ASSUME NEW L \in 1..Len(st), NEW y \in Names, IsVar(st[L][y])
          PROVE  st[L][y].decl[1] \in 1..n
      <3>1. CASE L <= Len(symTab) /\ st[L][y] = symTab[L][y]
        <4>1. L \in 1..Len(trail'[n])
          <5>1. Len(symTab) \in Nat /\ Len(st) \in Nat BY <1>1, LenProperties DEF Chains
          <5> QED BY <1>5, <3>1, <5>1
        <4> QED BY <1>5, <1>8, <1>13, <2>1, <3>1, <4>1
      <3>2. CASE st[L][y] = VarInfo(res, DeclAt(n)) BY <1>8, <3>2 DEF VarInfo, DeclAt
      <3>3. CASE \E t, j : st[L][y] = VarInfo(t, ParamDecl(n, j))
        BY <1>8, <3>3 DEF VarInfo, ParamDecl
      <3> QED BY <1>8, <2>1, <3>1, <3>2, <3>3 DEF FromHere
    <2>2. 1..Len(ast) \subseteq 1..n BY <1>8
    <2>3. \A i \in 1..(n + 1) : i \in 1..n \/ i = n + 1 BY <1>8
    <2> QED BY <1>4, <1>5, <1>13, <2>1, <2>2, <2>3 DEF DeclaredInv
  <1>15. LookupInv'
    <2>1. \A i \in 1..n : \A L \in 1..Len(trail'[i]) : \A y \in Names :
            IsVar(trail'[i][L][y]) =>
                ast'[trail'[i][L][y].decl[1]] = ast[trail'[i][L][y].decl[1]]
      BY <1>4, <1>13
    <2>2. ASSUME NEW i \in 1..n, ast'[i].live, ast'[i].k \in Lookups,
                 NEW L \in 1..Len(trail'[i]), NEW y \in Names, IsVar(trail'[i][L][y])
          PROVE  ast'[trail'[i][L][y].decl[1]].live
      <3>0. ast'[trail'[i][L][y].decl[1]] = ast[trail'[i][L][y].decl[1]] BY <2>1, <2>2
      <3>1. CASE i \in 1..Len(ast)
        <4>1. ast'[i] = ast[i] /\ trail'[i] = trail[i] BY <1>4, <1>5, <3>1
        <4>2. LiveSym(trail[i][L][y])
          BY <2>2, <3>1, <4>1 DEF ScopeInv, LookupInv
        <4> QED BY <3>0, <4>1, <4>2 DEF LiveSym
      <3>2. CASE i = n
        <4>1. trail'[i] = symTab /\ IsLive(vs) /\ k \in Lookups
          BY <1>4, <1>5, <1>6, <2>2, <3>2
        <4>2. LiveSym(symTab[L][y]) BY <2>2, <4>1 DEF SeesLive
        <4> QED BY <3>0, <4>1, <4>2 DEF LiveSym
      <3> QED BY <1>8, <3>1, <3>2
    <2> QED BY <1>4, <2>2 DEF LookupInv, LiveSym
  <1> QED BY <1>9, <1>10, <1>11, <1>12, <1>14, <1>15

-----------------------------------------------------------------------------
(* The stack of visits.  In each lemma the first m visits stay, V is the   *)
(* stack afterwards.                                                       *)

Kept(m, V) ==
    \A j \in 1..m : /\ V[j].k = visiting[j].k /\ V[j].base = visiting[j].base
                    /\ visiting[j].ret => V[j].ret

LEMMA FrameBase ==
    ASSUME NEW vs \in Seq(Frames), NEW i \in 1..Len(vs)
    PROVE  vs[i] \in Frames /\ vs[i].base \in Nat
  <1>1. vs[i] \in Frames BY ElementOfSeq
  <1> QED BY <1>1 DEF Frames

LEMMA AllBlocks ==
    ASSUME StackInv, NEW m \in 1..Len(visiting), IsBlock(visiting[m]), visiting \in Seq(Frames)
    PROVE  \A i \in 1..m : IsBlock(visiting[i]) /\ visiting[i].base <= visiting[m].base
  <1>1. Len(visiting) \in Nat /\ 1..m \subseteq 1..Len(visiting) BY LenProperties
  <1>2. \A i \in 1..m : i \in 1..(m - 1) \/ i = m BY <1>1
  <1>3. \A i \in 1..(m - 1) : IsBlock(visiting[i]) /\ visiting[i].base < visiting[m].base
    BY DEF StackInv, IsBlock
  <1>4. \A i \in 1..m : visiting[i].base \in Nat BY <1>1, FrameBase
  <1> QED BY <1>1, <1>2, <1>3, <1>4

(* What StackInv says of the visit j of V; it holds where a visit is kept. *)
StackAt(V, j) ==
    /\ V[j].k = "body" <=> j = 1
    /\ V[j].k \in BlockKinds \cup StmtKinds => \A i \in 1..(j - 1) : IsBlock(V[i])
    /\ IsBlock(V[j]) =>
         /\ V[j].base >= 4
         /\ \A i \in 1..(j - 1) : V[i].base < V[j].base
         /\ j = 1 => V[j].base = 4
         /\ j > 1 => V[j].base = V[j - 1].base + (IF V[j].k = "for" THEN 2 ELSE 1)

LEMMA StackKept ==
    ASSUME StackInv, NEW m \in Nat, 1..m \subseteq 1..Len(visiting), NEW V, Kept(m, V),
           NEW j \in 1..m
    PROVE  StackAt(V, j)
  <1>1. V[j].k = visiting[j].k /\ V[j].base = visiting[j].base BY DEF Kept
  <1>2. \A i \in 1..(j - 1) : V[i].k = visiting[i].k /\ V[i].base = visiting[i].base
    <2>1. \A i \in 1..(j - 1) : i \in 1..m OBVIOUS
    <2> QED BY <2>1 DEF Kept
  <1>3. j > 1 => V[j - 1].base = visiting[j - 1].base
    <2>1. j > 1 => j - 1 \in 1..m OBVIOUS
    <2> QED BY <2>1 DEF Kept
  <1>4. j \in 1..Len(visiting) OBVIOUS
  <1>5. V[j].k = "body" <=> j = 1 BY <1>1, <1>4 DEF StackInv
  <1>6. V[j].k \in BlockKinds \cup StmtKinds => \A i \in 1..(j - 1) : IsBlock(V[i])
    <2>1. visiting[j].k \in BlockKinds \cup StmtKinds =>
            \A i \in 1..(j - 1) : IsBlock(visiting[i])
      BY <1>4 DEF StackInv
    <2> QED BY <1>1, <1>2, <2>1 DEF IsBlock
  <1>7. IsBlock(V[j]) => V[j].base >= 4 /\ (j = 1 => V[j].base = 4)
    BY <1>1, <1>4 DEF StackInv, IsBlock
  <1>8. ASSUME IsBlock(V[j]), NEW i \in 1..(j - 1) PROVE V[i].base < V[j].base
    BY <1>1, <1>2, <1>4, <1>8 DEF StackInv, IsBlock
  <1>9. ASSUME IsBlock(V[j]), j > 1
        PROVE  V[j].base = V[j - 1].base + (IF V[j].k = "for" THEN 2 ELSE 1)
    <2>1. visiting[j].base = visiting[j - 1].base + (IF visiting[j].k = "for" THEN 2 ELSE 1)
      BY <1>1, <1>4, <1>9 DEF StackInv, IsBlock
    <2> QED BY <1>1, <1>3, <1>9, <2>1
  <1> QED BY <1>5, <1>6, <1>7, <1>8, <1>9 DEF StackAt

(* Visits of statements and expressions come and go above the blocks.      *)
LEMMA KeepStack ==
    ASSUME StackInv, DepthInv, visiting \in Seq(Frames),
           NEW m \in 1..Len(visiting), NEW V \in Seq(Frames), visiting' = V, Kept(m, V),
           Len(visiting) = m \/ (/\ Len(visiting) = m + 1 /\ ~IsBlock(visiting[m + 1])
                                /\ visiting[m + 1].k # "forhdr"),
           Len(V) = m \/ (/\ Len(V) = m + 1 /\ ~IsBlock(V[m + 1]) /\ V[m + 1].k # "forhdr"
                          /\ V[m + 1].k \in StmtKinds => IsBlock(visiting[m])),
           Len(symTab') = Len(symTab)
    PROVE  StackInv' /\ DepthInv'
  <1>1. m \in Nat /\ m >= 1 /\ 1..m \subseteq 1..Len(visiting) BY LenProperties
  <1>2. \A j \in 1..Len(V) : j \in 1..m \/ (j = m + 1 /\ Len(V) = m + 1) BY <1>1
  <1>3. ASSUME NEW j \in 1..Len(V)
        PROVE  StackAt(V, j)
    <2>1. CASE j \in 1..m BY <1>1, <2>1, StackKept
    <2>2. CASE j = m + 1 /\ Len(V) = m + 1
      <3>1. ~IsBlock(V[j]) /\ V[j].k # "body" /\ j # 1 BY <1>1, <2>2 DEF IsBlock, BlockKinds
      <3>2. V[j].k \in StmtKinds => \A i \in 1..m : IsBlock(visiting[i])
        BY <1>1, <2>2, AllBlocks
      <3>3. V[j].k \in StmtKinds => \A i \in 1..(j - 1) : IsBlock(V[i])
        BY <1>1, <2>2, <3>2 DEF Kept, IsBlock
      <3> QED BY <3>1, <3>3 DEF IsBlock, StackAt
    <2> QED BY <1>2, <2>1, <2>2
  <1>4. StackInv' BY <1>3 DEF StackInv, StackAt, IsBlock
  <1>5. ASSUME NEW j \in 1..Len(V), IsBlock(V[j]), j < Len(V) => ~IsBlock(V[j + 1])
        PROVE  Len(symTab) = V[j].base + (IF j < Len(V) /\ V[j + 1].k = "forhdr" THEN 1 ELSE 0)
    <2>1. j \in 1..m BY <1>2, <1>5
    <2>2. CASE j < m
      <3>1. j + 1 \in 1..m /\ j < Len(V) /\ j < Len(visiting) /\ j \in 1..Len(visiting)
        BY <1>1, <2>1, <2>2
      <3>2. Innermost(j) BY <1>5, <2>1, <3>1 DEF Innermost, IsBlock, Kept
      <3> QED BY <2>1, <3>1, <3>2 DEF DepthInv, InHeader, Kept
    <2>3. CASE j = m
      <3>1. j \in 1..Len(visiting) BY <1>1, <2>1
      <3>2. Innermost(j) BY <1>1, <1>5, <2>1, <2>3 DEF Innermost, IsBlock, Kept
      <3>3. ~InHeader(j) BY <1>1, <2>3 DEF InHeader
      <3>4. ~(j < Len(V) /\ V[j + 1].k = "forhdr") BY <1>1, <2>3
      <3> QED BY <2>1, <3>1, <3>2, <3>3, <3>4 DEF DepthInv, Kept
    <2> QED BY <1>1, <2>1, <2>2, <2>3
  <1>6. V # <<>> BY <1>1, EmptySeq
  <1> QED BY <1>4, <1>5, <1>6 DEF DepthInv, Innermost, InHeader

(* A block is opened above the block m.                                    *)
LEMMA OpenStack ==
    ASSUME StackInv, DepthInv, visiting \in Seq(Frames),
           NEW m \in 1..Len(visiting), IsBlock(visiting[m]),
           NEW V \in Seq(Frames), visiting' = V, Kept(m, V), Len(V) = m + 1,
           IsBlock(V[m + 1]), V[m + 1].k # "body",
           V[m + 1].base = visiting[m].base + (IF V[m + 1].k = "for" THEN 2 ELSE 1),
           Len(symTab') = V[m + 1].base
    PROVE  StackInv' /\ DepthInv'
  <1>1. /\ m \in Nat /\ m >= 1 /\ 1..m \subseteq 1..Len(visiting)
        /\ \A i \in 1..Len(visiting) : visiting[i].base \in Nat
    BY LenProperties, FrameBase
  <1>2. \A j \in 1..Len(V) : j \in 1..m \/ j = m + 1 BY <1>1
  <1>3. \A i \in 1..m : IsBlock(V[i]) /\ V[i].base = visiting[i].base /\ V[i].base <= visiting[m].base
    BY AllBlocks DEF Kept, IsBlock
  <1>4. ASSUME NEW j \in 1..Len(V)
        PROVE  StackAt(V, j)
    <2>1. CASE j \in 1..m BY <1>1, <2>1, StackKept
    <2>2. CASE j = m + 1
      <3>1. \A i \in 1..(j - 1) : i \in 1..m BY <1>1, <2>2
      <3>2. visiting[m].base >= 4 BY <1>1 DEF StackInv
      <3>3. V[m].base = visiting[m].base /\ j - 1 = m /\ j # 1 BY <1>1, <1>3, <2>2
      <3>4. V[j].base \in Nat /\ V[j].base > visiting[m].base BY <1>1, <2>2
      <3>5. ASSUME NEW i \in 1..(j - 1) PROVE V[i].base < V[j].base
        <4>1. i \in 1..m /\ i \in 1..Len(visiting) BY <1>1, <3>1
        <4>2. V[i].base <= visiting[m].base /\ V[i].base \in Nat /\ visiting[m].base \in Nat
          BY <1>1, <1>3, <4>1
        <4> QED BY <3>4, <4>2
      <3> QED BY <1>1, <1>3, <2>2, <3>1, <3>2, <3>3, <3>4, <3>5 DEF StackAt
    <2> QED BY <1>2, <2>1, <2>2
  <1>5. StackInv' BY <1>4 DEF StackInv, StackAt, IsBlock
  <1>6. ASSUME NEW j \in 1..Len(V), IsBlock(V[j]), j < Len(V) => ~IsBlock(V[j + 1])
        PROVE  Len(symTab') = V[j].base /\ ~(j < Len(V))
    <2>1. j \notin 1..m
      <3>1. SUFFICES ASSUME j \in 1..m PROVE FALSE OBVIOUS
      <3>2. j + 1 \in 1..m \/ j + 1 = m + 1 BY <1>1, <3>1
      <3>3. j < Len(V) BY <1>1, <3>1
      <3> QED BY <1>3, <1>6, <3>2, <3>3
    <2> QED BY <1>1, <1>2, <2>1
  <1>7. V # <<>> BY <1>1, EmptySeq
  <1> QED BY <1>5, <1>6, <1>7 DEF DepthInv, Innermost, InHeader

(* The innermost block ends.                                               *)
LEMMA CloseStack ==
    ASSUME StackInv, DepthInv, visiting \in Seq(Frames),
           NEW m \in Nat, m >= 1, Len(visiting) = m + 1, IsBlock(visiting[m + 1]),
           NEW V \in Seq(Frames), visiting' = V, Kept(m, V), Len(V) = m,
           Len(symTab') = visiting[m].base
    PROVE  StackInv' /\ DepthInv'
  <1>1. 1..m \subseteq 1..Len(visiting) /\ m + 1 \in 1..Len(visiting) OBVIOUS
  <1>2. \A i \in 1..m : IsBlock(visiting[i]) /\ IsBlock(V[i])
    BY <1>1, AllBlocks DEF Kept, IsBlock
  <1>3. ASSUME NEW j \in 1..m
        PROVE  StackAt(V, j)
    BY <1>1, <1>3, StackKept
  <1>4. StackInv' BY <1>3 DEF StackInv, StackAt, IsBlock
  <1>5. ASSUME NEW j \in 1..m, j < m => ~IsBlock(V[j + 1]) PROVE j = m
    <2>1. j < m => j + 1 \in 1..m OBVIOUS
    <2> QED BY <1>2, <1>5, <2>1
  <1>6. V # <<>> /\ V[m].base = visiting[m].base BY EmptySeq DEF Kept
  <1> QED BY <1>4, <1>5, <1>6 DEF DepthInv, Innermost, InHeader

-----------------------------------------------------------------------------
(* What is out of code generation's reach.                                 *)

LEMMA DeadKept ==
    ASSUME TcGood, ScopeInv, trail # <<>>,
           NEW m \in 0..Len(visiting), NEW V, visiting' = V, Kept(m, V), Len(V) \in Nat, m <= Len(V),
           \A i \in 1..Len(ast) : ast'[i] = ast[i],
           \A L \in 1..Len(symTab') : \A y \in Names :
              IsVar(symTab'[L][y]) =>
                \/ /\ L <= Len(symTab) /\ symTab'[L][y] = symTab[L][y]
                   /\ \A j \in 1..Len(visiting) :
                         IsBlock(visiting[j]) /\ visiting[j].base <= L => j <= m
                \/ ast'[symTab'[L][y].decl[1]].live
                \/ \E j \in 1..Len(V) : IsBlock(V[j]) /\ V[j].ret /\ V[j].base <= L
    PROVE  DeadInv'
  <1> SUFFICES ASSUME NEW L \in 1..Len(symTab'), NEW y \in Names, IsVar(symTab'[L][y]),
                      ~ast'[symTab'[L][y].decl[1]].live
               PROVE  \E j \in 1..Len(V) : IsBlock(V[j]) /\ V[j].ret /\ V[j].base <= L
    BY DEF DeadInv, LiveSym, IsBlock
  <1>1. CASE \E j \in 1..Len(V) : IsBlock(V[j]) /\ V[j].ret /\ V[j].base <= L BY <1>1
  <1>2. CASE /\ L <= Len(symTab) /\ symTab'[L][y] = symTab[L][y]
             /\ \A j \in 1..Len(visiting) :
                   IsBlock(visiting[j]) /\ visiting[j].base <= L => j <= m
    <2>1. /\ Len(trail) \in Nat /\ Len(symTab) \in Nat /\ symTab = trail[Len(trail)]
          /\ Len(trail) \in 1..Len(trail) /\ Len(visiting) \in Nat
      BY LenProperties, LenPositive DEF TcGood, TcTyped, Chains, ScopeInv, TrailInv
    <2>2. L \in 1..Len(symTab) BY <1>2, <2>1
    <2>3. symTab[L][y].decl[1] \in 1..Len(ast)
      BY <1>2, <2>1, <2>2 DEF ScopeInv, DeclaredInv
    <2>4. ~LiveSym(symTab[L][y]) BY <1>2, <2>3 DEF LiveSym
    <2>5. PICK j \in 1..Len(visiting) : IsBlock(visiting[j]) /\ visiting[j].ret /\ visiting[j].base <= L
      BY <1>2, <2>2, <2>4 DEF ScopeInv, DeadInv
    <2>6. j \in 1..m /\ j \in 1..Len(V) BY <1>2, <2>1, <2>5
    <2> QED BY <2>5, <2>6 DEF Kept, IsBlock
  <1> QED BY <1>1, <1>2

-----------------------------------------------------------------------------
(* The steps that enter and leave no scope.                                *)

Good == TcGood /\ ScopeInv

(* After an action of the typechecker it is still good, and main() neither *)
(* back at the start nor on to code generation.                            *)
Kind == phase' \in Phases \ {"declare", "codegen"}

(* Nothing the trail's invariants speak of changes.                        *)
LEMMA TrailSame ==
    ASSUME ScopeInv, ast' = ast, trail' = trail, symTab' = symTab, fns' = fns
    PROVE  /\ NoShadowing' /\ TrailUnshadowed' /\ LinkInv' /\ DeclaredInv' /\ LookupInv'
  <1>1. NoShadowing' BY DEF ScopeInv, NoShadowing
  <1>2. TrailUnshadowed' BY DEF ScopeInv, TrailUnshadowed
  <1>3. LinkInv'
    <2>1. \A i \in 1..Len(ast) : Sourced(i) /\ Fresh(i) BY DEF ScopeInv, LinkInv
    <2>2. \A i \in 1..Len(ast) : Sourced(i)' /\ Fresh(i)' BY <2>1, LinkSame
    <2> QED BY <2>2 DEF LinkInv
  <1>4. DeclaredInv' BY DEF ScopeInv, DeclaredInv
  <1>5. LookupInv' BY DEF ScopeInv, LookupInv, LiveSym
  <1> QED BY <1>1, <1>2, <1>3, <1>4, <1>5

LEMMA StopScope ==
    ASSUME Good, NEW how \in Endings, Stop(how)
    PROVE  Good' /\ Kind
  <1>1. how # "typecheck" /\ how # "declare" /\ how # "codegen" /\ how \in Phases
    BY DEF Endings, Phases
  <1>2. TcGood' BY <1>1, StopGood DEF Good
  <1>3. phase' = how BY DEF Stop
  <1>4. ScopeInv'
    <2>1. ast' = ast /\ trail' = trail /\ symTab' = symTab /\ fns' = fns /\ visiting' = visiting
      BY DEF Stop
    <2>2. NoShadowing' /\ TrailUnshadowed' /\ LinkInv' /\ DeclaredInv' /\ LookupInv'
      BY <2>1, TrailSame DEF Good
    <2>3. StackInv' BY <2>1 DEF Good, ScopeInv, StackInv
    <2>4. DepthInv' BY <2>1 DEF Good, ScopeInv, DepthInv, Innermost, InHeader
    <2>5. TrailInv' BY <1>1, <1>3, <2>1 DEF Good, ScopeInv, TrailInv, FnTable
    <2>6. DeadInv' BY <2>1 DEF Good, ScopeInv, DeadInv, LiveSym
    <2> QED BY <2>2, <2>3, <2>4, <2>5, <2>6 DEF ScopeInv
  <1> QED BY <1>1, <1>2, <1>3, <1>4 DEF Good, Kind

LEMMA MarksKept ==
    ASSUME NEW B, NEW V, Marks(B, V), NEW m \in Nat, Len(B) = m,
           \A j \in 1..m : B[j] = visiting[j]
    PROVE  V \in Seq(Frames) /\ Len(V) = m /\ Kept(m, V)
  BY DEF Marks, Kept

LEMMA VisitScope ==
    ASSUME Good, phase = "typecheck", visiting # <<>>,
           NEW k \in FrameKinds \ BlockKinds, k # "forhdr", k \in StmtKinds => IsBlock(Top),
           NEW x \in Names \cup {NoName},
           NEW op \in Labels \cup TypeTokens \cup {"Err"}, NEW proto \in Nat,
           k = "call" => proto \in 1..Len(fns), k = "arraydecl" => x \in Names, k # "assign" => op \in Labels,
           Visit(k, x, op, proto)
    PROVE  Good' /\ Kind
  <1> DEFINE ws == Noted(visiting, k)
             f  == Frame(k, x, op, proto, 0)
             V  == Append(ws, f)
  <1>1. TcGood' BY VisitGood DEF Good
  <1>2. visiting \in Seq(Frames) /\ k \in NodeKinds \cup FrameKinds BY DEF Good, TcGood, TcTyped
  <1>3. Marks(visiting, ws) BY <1>2, NotedMarks
  <1>4. f \in Frames BY FrameType
  <1>5. f.k = k BY DEF Frame
  <1>6. visiting' = V /\ ast' = ast /\ trail' = trail /\ symTab' = symTab /\ phase' = phase /\ fns' = fns
    BY DEF Visit
  <1> HIDE DEF ws, f
  <1> PICK m \in Nat : m = Len(visiting) BY <1>2, LenProperties
  <1>7. ws \in Seq(Frames) /\ Len(ws) = m /\ Kept(m, ws) BY <1>3, MarksKept
  <1>8. V \in Seq(Frames) /\ Len(V) = m + 1 /\ V[m + 1] = f /\ \A i \in 1..m : V[i] = ws[i]
    BY <1>4, <1>7, PushLemma
  <1>9. m \in 1..Len(visiting) /\ visiting[m] = Top BY <1>2, LastLemma DEF Top
  <1>10. Kept(m, V) BY <1>7, <1>8 DEF Kept
  <1> HIDE DEF V
  <1>11. StackInv' /\ DepthInv'
    BY <1>2, <1>5, <1>6, <1>8, <1>9, <1>10, KeepStack DEF Good, ScopeInv, IsBlock
  <1>12. DeadInv'
    <2>1. \A L \in 1..Len(symTab') : L <= Len(symTab)
      BY <1>6, LenProperties DEF Good, TcGood, TcTyped, Chains
    <2>2. trail # <<>> BY DEF Good, ScopeInv, TrailInv
    <2>3. m \in 0..Len(visiting) /\ Len(V) \in Nat /\ m <= Len(V) BY <1>8, <1>9
    <2>4. \A j \in 1..Len(visiting) : j <= m OBVIOUS
    <2> QED BY <1>6, <1>10, <2>1, <2>2, <2>3, <2>4, DeadKept DEF Good
  <1>13. /\ TrailInv' /\ NoShadowing' /\ TrailUnshadowed' /\ LinkInv' /\ DeclaredInv' /\ LookupInv'
    <2>1. trail # <<>> BY DEF Good, ScopeInv, TrailInv
    <2>2. TrailInv' BY <1>6, <2>1 DEF Good, ScopeInv, TrailInv, FnTable
    <2> QED BY <1>6, <2>2, TrailSame DEF Good
  <1> QED BY <1>1, <1>6, <1>11, <1>12, <1>13 DEF Good, ScopeInv, Kind, Phases

(* The visits under which a node is recorded: all of them, or all but the  *)
(* statement or expression that ends.                                      *)
Base(vs, m) ==
    /\ m \in 1..Len(visiting)
    /\ Len(vs) = m /\ \A j \in 1..m : vs[j] = visiting[j]
    /\ \/ Len(visiting) = m
       \/ Len(visiting) = m + 1 /\ ~IsBlock(visiting[m + 1])

LEMMA LookupLive ==
    ASSUME Good, NEW vs, NEW m, Base(vs, m), IsLive(vs)
    PROVE  \A L \in 1..Len(symTab) : \A y \in Names :
              IsVar(symTab[L][y]) => LiveSym(symTab[L][y])
  <1> SUFFICES ASSUME NEW L \in 1..Len(symTab), NEW y \in Names, IsVar(symTab[L][y]),
                      ~LiveSym(symTab[L][y])
               PROVE  FALSE
    OBVIOUS
  <1>1. PICK j \in 1..Len(visiting) : IsBlock(visiting[j]) /\ visiting[j].ret
    BY DEF Good, ScopeInv, DeadInv
  <1>2. Len(visiting) \in Nat BY LenProperties DEF Good, TcGood, TcTyped
  <1>3. j \in 1..m BY <1>1, <1>2 DEF Base
  <1> QED BY <1>1, <1>3 DEF Base, IsLive

LEMMA QuietScope ==
    ASSUME Good, phase = "typecheck", visiting # <<>>,
           NEW k \in NodeKinds, NEW x \in Names \cup {NoName}, NEW op \in Labels,
           NEW kids \in Seq(Nat), NEW res \in ResultTokens \cup {"none"},
           k \notin DeclKinds, k # "fn",
           NEW vs, NEW m, Base(vs, m), Record(k, x, op, kids, res, vs, symTab),
           Len(visiting) = m + 1 => visiting[m + 1].k # "forhdr",
           NEW V \in Seq(Frames), visiting' = V, Kept(m, V),
           Len(V) = m \/ (/\ Len(V) = m + 1 /\ ~IsBlock(V[m + 1]) /\ V[m + 1].k # "forhdr"
                          /\ V[m + 1].k \in StmtKinds => IsBlock(visiting[m])),
           fns' = fns, phase' \in {"typecheck", "rejected"}
    PROVE  ScopeInv' /\ Kind
  <1>1. /\ visiting \in Seq(Frames) /\ symTab \in Chains /\ trail # <<>>
        /\ Len(visiting) \in Nat /\ Len(symTab) \in Nat /\ TcGood /\ ScopeInv
    BY LenProperties DEF Good, TcGood, TcTyped, ScopeInv, TrailInv, Chains
  <1>2. symTab' = symTab BY DEF Record
  <1>3. StackInv' /\ DepthInv'
    BY <1>1, <1>2, KeepStack DEF Base, ScopeInv
  <1>4. Len(symTab) >= 1 /\ symTab[1] = FnTable /\ Unshadowed(symTab)
    BY <1>1 DEF ScopeInv, TrailInv, NoShadowing, Unshadowed
  <1>5. SeesLive(k, vs) BY LookupLive DEF SeesLive
  <1>6. \A L \in 1..Len(symTab) : L <= Len(symTab) BY <1>1
  <1>7. /\ TrailInv' /\ NoShadowing' /\ TrailUnshadowed'
        /\ LinkInv' /\ DeclaredInv' /\ LookupInv'
    <2>1. FromHere(symTab, k, x, kids, res) BY <1>6 DEF FromHere
    <2>2. NewName(k, x, res) /\ AtTop(k, kids, vs) BY DEF NewName, AtTop
    <2> QED BY <1>1, <1>4, <1>5, <2>1, <2>2, RecordScope
  <1>8. \A i \in 1..Len(ast) : ast'[i] = ast[i] BY <1>1, RecordType DEF TcGood
  <1>9. \A j \in 1..Len(visiting) : IsBlock(visiting[j]) => j <= m
    BY <1>1 DEF Base
  <1>10. m \in 0..Len(visiting) /\ Len(V) \in Nat /\ m <= Len(V)
    BY <1>1 DEF Base
  <1>11. DeadInv' BY <1>1, <1>2, <1>6, <1>8, <1>9, <1>10, DeadKept
  <1> QED BY <1>3, <1>7, <1>11 DEF ScopeInv, Kind, Phases, Endings
-----------------------------------------------------------------------------
(* The steps that enter or leave a scope.                                  *)

LEMMA BelowBase ==
    ASSUME Good, visiting # <<>>, ~IsBlock(Top)
    PROVE  \E m \in Nat :
              /\ Base(Below, m) /\ m \in 1..Len(visiting) /\ Len(visiting) = m + 1
              /\ visiting[m + 1] = Top
              /\ Below \in Seq(Frames) /\ Below # <<>> /\ Len(Below) = m /\ Kept(m, Below)
              /\ VisitsGood(Below, ast, fns, phase) /\ Last(Below) = visiting[m]
              /\ Top.k \in StmtKinds => IsBlock(visiting[m])
  <1>1. visiting \in Seq(Frames) /\ Len(visiting) \in Nat /\ Len(visiting) >= 1
    BY LenPositive DEF Good, TcGood, TcTyped
  <1> PICK m \in Nat : Len(visiting) = m + 1 BY <1>1
  <1>2. visiting[m + 1] = Top BY <1>1, LastLemma DEF Top
  <1>3. /\ Below \in Seq(Frames) /\ Len(Below) = m
        /\ \A j \in 1..m : Below[j] = visiting[j]
    BY <1>1, FrontLemma DEF Below
  <1>4. m # 0
    <2>1. visiting[1].k = "body" BY <1>1 DEF Good, ScopeInv, StackInv
    <2> QED BY <1>2, <2>1 DEF IsBlock, BlockKinds
  <1>5. m \in 1..Len(visiting) /\ m \in 1..m BY <1>4
  <1>6. Base(Below, m) BY <1>2, <1>3, <1>5 DEF Base
  <1>7. Kept(m, Below) BY <1>3 DEF Kept
  <1>8. VisitsGood(Below, ast, fns, phase)
    <2>1. \A j \in 1..m : j \in 1..Len(visiting) OBVIOUS
    <2> QED BY <1>3, <2>1 DEF Good, TcGood, FrameInv, VisitsGood
  <1>9. Below # <<>> BY <1>3, <1>4, EmptySeq
  <1>10. Last(Below) = visiting[m] BY <1>3, <1>5, <1>9, LastLemma
  <1>11. Top.k \in StmtKinds => IsBlock(visiting[m])
    <2>1. m + 1 \in 1..Len(visiting) /\ m \in 1..((m + 1) - 1) BY <1>1, <1>5
    <2> QED BY <1>2, <2>1 DEF Good, ScopeInv, StackInv
  <1> QED BY <1>2, <1>3, <1>5, <1>6, <1>7, <1>8, <1>9, <1>10, <1>11

(* The chain st has no variable but those of the scopes of the first m     *)
(* visits.                                                                 *)
OldOnly(st, m) ==
    \A L \in 1..Len(st) : \A y \in Names :
        IsVar(st[L][y]) =>
            /\ L <= Len(symTab) /\ st[L][y] = symTab[L][y]
            /\ \A j \in 1..Len(visiting) :
                  IsBlock(visiting[j]) /\ visiting[j].base <= L => j <= m

LEMMA MoveScope ==
    ASSUME Good, phase = "typecheck", visiting # <<>>,
           NEW k \in NodeKinds, NEW x \in Names \cup {NoName}, NEW op \in Labels,
           NEW kids \in Seq(Nat), NEW res \in ResultTokens \cup {"none"},
           k \notin DeclKinds, k # "fn", NEW vs, NEW st \in Chains,
           Record(k, x, op, kids, res, vs, st),
           SeesLive(k, vs), Len(st) >= 1, st[1] = FnTable, Unshadowed(st),
           NEW m \in 0..Len(visiting), OldOnly(st, m),
           NEW V \in Seq(Frames), visiting' = V, Kept(m, V), m <= Len(V),
           StackInv', DepthInv',
           fns' = fns, phase' \in {"typecheck", "rejected"}
    PROVE  ScopeInv' /\ Kind
  <1>1. symTab' = st BY DEF Record
  <1>2. trail # <<>> /\ TcGood /\ ScopeInv BY DEF Good, ScopeInv, TrailInv
  <1>3. /\ TrailInv' /\ NoShadowing' /\ TrailUnshadowed'
        /\ LinkInv' /\ DeclaredInv' /\ LookupInv'
    <2>1. FromHere(st, k, x, kids, res) BY DEF FromHere, OldOnly
    <2>2. NewName(k, x, res) /\ AtTop(k, kids, vs) BY DEF NewName, AtTop
    <2> QED BY <1>2, <2>1, <2>2, RecordScope
  <1>4. \A i \in 1..Len(ast) : ast'[i] = ast[i] BY <1>2, RecordType DEF TcGood
  <1>5. Len(V) \in Nat BY LenProperties
  <1>6. DeadInv' BY <1>1, <1>2, <1>4, <1>5, DeadKept DEF OldOnly
  <1> QED BY <1>3, <1>6 DEF ScopeInv, Kind, Phases, Endings

LEMMA ChainProtos ==
    ASSUME NEW c \in Chains, NEW ps, ProtosIn(c, ps)
    PROVE  /\ ProtosIn(EnterScope(c), ps)
           /\ \A k \in 0..Len(c) : ProtosIn(LeaveScopes(c, k), ps)
           /\ \A x \in Names, info \in SymbolInfo :
                 Len(c) >= 1 /\ info.type # "Function" => ProtosIn(Add(c, x, info), ps)
  <1>1. ProtosIn(EnterScope(c), ps)
    <2>1. /\ Len(c) \in Nat /\ Len(EnterScope(c)) = Len(c) + 1
          /\ \A L \in 1..Len(c) : EnterScope(c)[L] = c[L]
          /\ EnterScope(c)[Len(c) + 1] = EmptyTable
      BY EnterChain
    <2>2. \A L \in 1..(Len(c) + 1) : L \in 1..Len(c) \/ L = Len(c) + 1 BY <2>1
    <2>3. \A n \in Keys : EmptyTable[n].type # "Function" BY EmptyTableType DEF NoSym
    <2> QED BY <2>1, <2>2, <2>3 DEF ProtosIn
  <1>2. ASSUME NEW k \in 0..Len(c) PROVE ProtosIn(LeaveScopes(c, k), ps)
    <2>1. /\ Len(c) \in Nat /\ Len(LeaveScopes(c, k)) = Len(c) - k
          /\ \A L \in 1..(Len(c) - k) : LeaveScopes(c, k)[L] = c[L]
      BY LeaveChain
    <2>2. 1..(Len(c) - k) \subseteq 1..Len(c) BY <2>1
    <2> QED BY <2>1, <2>2 DEF ProtosIn
  <1>3. ASSUME NEW x \in Names, NEW info \in SymbolInfo, Len(c) >= 1, info.type # "Function"
        PROVE  ProtosIn(Add(c, x, info), ps)
    <2>1. /\ Len(Add(c, x, info)) = Len(c)
          /\ \A L \in 1..Len(c) : \A n \in Keys :
                Add(c, x, info)[L][n] = IF L = Len(c) /\ n = x THEN info ELSE c[L][n]
      BY <1>3, AddChain
    <2> QED BY <1>3, <2>1 DEF ProtosIn
  <1> QED BY <1>1, <1>2, <1>3
(* A block is entered above the block m.                                   *)
LEMMA OpenScopeGood ==
    ASSUME Good, phase = "typecheck", visiting # <<>>,
           NEW node0 \in NodeKinds, NEW block \in BlockKinds \ {"body"},
           NEW x \in Names \cup {NoName}, NEW op \in Labels, NEW kids \in Seq(Nat),
           node0 \notin DeclKinds, node0 # "fn",
           NEW vs \in Seq(Frames), NEW st \in Chains,
           EnterBlock(vs, node0, block, x, op, kids, st),
           VisitsGood(vs, ast, fns, phase), SeesLive(node0, vs),
           NEW m \in 1..Len(visiting), IsBlock(visiting[m]), Len(vs) = m, Kept(m, vs),
           Len(st) >= 1, st[1] = FnTable, Unshadowed(st), ProtosIn(st, fns),
           Len(st) + 1 = visiting[m].base + (IF block = "for" THEN 2 ELSE 1),
           \A L \in 1..Len(st) : /\ L <= Len(symTab) /\ st[L] = symTab[L]
                                 /\ \A j \in 1..Len(visiting) :
                                       IsBlock(visiting[j]) /\ visiting[j].base <= L => j <= m
    PROVE  Good' /\ Kind
  <1> DEFINE f == Frame(block, x, op, 0, Len(st) + 1)
             V == Append(vs, f)
  <1>1. /\ Len(st) \in Nat /\ EnterScope(st) \in Chains
        /\ Len(EnterScope(st)) = Len(st) + 1
        /\ \A L \in 1..Len(st) : EnterScope(st)[L] = st[L]
        /\ EnterScope(st)[Len(st) + 1] = EmptyTable
    BY EnterChain
  <1>2. /\ Record(node0, x, op, kids, "none", vs, EnterScope(st)) /\ visiting' = V
        /\ phase' = phase /\ fns' = fns /\ fnIdx' = fnIdx
    BY DEF EnterBlock
  <1>3. block \in FrameKinds /\ op \in Labels \cup TypeTokens \cup {"Err"} /\ Len(st) + 1 \in Nat
        /\ block # "call" /\ block # "arraydecl"
    BY <1>1 DEF FrameKinds, BlockKinds
  <1>4. f \in Frames /\ FrameGood(f, ast, fns, phase) /\ f.k = block /\ f.base = Len(st) + 1
    <2>1. f \in Frames /\ FrameGood(f, ast, fns, phase) BY <1>3, NewFrameGood
    <2> QED BY <2>1 DEF Frame
  <1> HIDE DEF f
  <1>5. V \in Seq(Frames) /\ VisitsGood(V, ast, fns, phase) BY <1>4, PushGood
  <1>6. m \in Nat /\ Len(V) = m + 1 /\ V[m + 1] = f /\ \A i \in 1..m : V[i] = vs[i]
    BY <1>4, PushLemma
  <1>7. Kept(m, V) BY <1>6 DEF Kept
  <1> HIDE DEF V
  <1>8. "none" \in ResultTokens \cup {"none"} /\ TcGood /\ fnIdx \in 0..Len(fns)
    BY DEF Good, TcGood, TcTyped
  <1>9. /\ Len(ast') = Len(ast) + 1 /\ \A i \in 1..Len(ast) : ast'[i] = ast[i]
    BY <1>1, <1>2, <1>8, RecordType DEF TcGood
  <1>10. VisitsGood(V, ast', fns, phase')
    BY <1>2, <1>5, <1>8, <1>9, MarksSelf, RecordKeepsGood
  <1>11. ProtosIn(EnterScope(st), fns) BY ChainProtos
  <1>12. TcGood' BY <1>1, <1>2, <1>5, <1>8, <1>10, <1>11, RecordGood
  <1>13. symTab' = EnterScope(st) BY <1>2 DEF Record
  <1>14. StackInv' /\ DepthInv'
    <2>1. IsBlock(V[m + 1]) /\ V[m + 1].k # "body" /\ V[m + 1].base = Len(st) + 1
          /\ V[m + 1].k = block
      BY <1>4, <1>6 DEF IsBlock
    <2>2. visiting \in Seq(Frames) /\ StackInv /\ DepthInv
      BY DEF Good, TcGood, TcTyped, ScopeInv
    <2> QED BY <1>1, <1>2, <1>5, <1>6, <1>7, <1>13, <2>1, <2>2, OpenStack
  <1>15. OldOnly(EnterScope(st), m)
    <2>1. \A L \in 1..(Len(st) + 1) : L \in 1..Len(st) \/ L = Len(st) + 1 BY <1>1
    <2>2. \A y \in Names : ~IsVar(EmptyTable[y])
      BY EmptyTableType DEF IsVar, IsSym, Keys
    <2> QED BY <1>1, <2>1, <2>2 DEF OldOnly
  <1>16. EnterScope(st)[1] = FnTable /\ Len(EnterScope(st)) >= 1 /\ Unshadowed(EnterScope(st))
    BY <1>1, EnterUnshadowed
  <1>17. m \in 0..Len(visiting) /\ m <= Len(V) BY <1>6
  <1>18. phase' \in {"typecheck", "rejected"} BY <1>2
  <1>19. ScopeInv' /\ Kind
    BY <1>1, <1>2, <1>5, <1>7, <1>8, <1>14, <1>15, <1>16, <1>17, <1>18, MoveScope
  <1> QED BY <1>12, <1>19 DEF Good
(* The innermost visit is a block within a block.                          *)
LEMMA InnerBlock ==
    ASSUME Good, visiting # <<>>, IsBlock(Top), Top.k # "body"
    PROVE  \E m \in 1..Len(visiting) :
              /\ m \in Nat /\ m >= 1 /\ Len(visiting) = m + 1 /\ visiting[m + 1] = Top
              /\ m + 1 \in 1..Len(visiting) /\ IsBlock(visiting[m])
              /\ Below \in Seq(Frames) /\ Len(Below) = m /\ Kept(m, Below)
              /\ VisitsGood(Below, ast, fns, phase)
              /\ visiting[m].base \in Nat /\ visiting[m].base >= 4
              /\ Top.base = visiting[m].base + (IF Top.k = "for" THEN 2 ELSE 1)
              /\ Len(symTab) = Top.base
  <1>1. visiting \in Seq(Frames) /\ Len(visiting) \in Nat /\ Len(visiting) >= 1 /\ StackInv /\ DepthInv
    BY LenPositive DEF Good, TcGood, TcTyped, ScopeInv
  <1> PICK m \in Nat : Len(visiting) = m + 1 BY <1>1
  <1>2. visiting[m + 1] = Top BY <1>1, LastLemma DEF Top
  <1>3. /\ Below \in Seq(Frames) /\ Len(Below) = m
        /\ \A j \in 1..m : Below[j] = visiting[j]
    BY <1>1, FrontLemma DEF Below
  <1>4. m # 0
    <2>1. visiting[1].k = "body" BY <1>1 DEF StackInv
    <2> QED BY <1>2, <2>1
  <1>5. m >= 1 /\ m \in 1..Len(visiting) /\ m + 1 \in 1..Len(visiting) /\ m \in 1..((m + 1) - 1)
    BY <1>4
  <1>6. Kept(m, Below) BY <1>3 DEF Kept
  <1>7. VisitsGood(Below, ast, fns, phase)
    <2>1. \A j \in 1..m : j \in 1..Len(visiting) OBVIOUS
    <2> QED BY <1>3, <2>1 DEF Good, TcGood, FrameInv, VisitsGood
  <1>8. IsBlock(visiting[m]) BY <1>1, <1>2, <1>5 DEF StackInv, IsBlock
  <1>9. visiting[m].base \in Nat BY <1>1, <1>5, FrameBase
  <1>10. visiting[m].base >= 4 /\ Top.base = visiting[m].base + (IF Top.k = "for" THEN 2 ELSE 1)
    <2>1. (m + 1) - 1 = m /\ m + 1 > 1 BY <1>5
    <2> QED BY <1>1, <1>2, <1>5, <1>8, <2>1 DEF StackInv
  <1>11. Len(symTab) = Top.base
    <2>1. Innermost(m + 1) /\ ~InHeader(m + 1) BY <1>2 DEF Innermost, InHeader
    <2>2. Top.base \in Nat BY <1>1, <1>2, <1>5, FrameBase
    <2> QED BY <1>1, <1>2, <1>5, <2>1, <2>2 DEF DepthInv
  <1> QED BY <1>2, <1>3, <1>5, <1>6, <1>7, <1>8, <1>9, <1>10, <1>11

(* Of the scopes left none belongs to a block that is not among the first m.*)
LEMMA LeftScopes ==
    ASSUME Good, visiting # <<>>, NEW m \in Nat, Len(visiting) = m + 1, IsBlock(visiting[m + 1]),
           NEW k \in 1..Len(symTab), Len(symTab) - k < visiting[m + 1].base
    PROVE  /\ LeaveScopes(symTab, k) \in Chains
           /\ Len(LeaveScopes(symTab, k)) = Len(symTab) - k /\ Len(symTab) \in Nat
           /\ \A L \in 1..(Len(symTab) - k) :
                 /\ LeaveScopes(symTab, k)[L] = symTab[L] /\ L <= Len(symTab)
                 /\ \A j \in 1..Len(visiting) :
                       IsBlock(visiting[j]) /\ visiting[j].base <= L => j <= m
           /\ Unshadowed(LeaveScopes(symTab, k)) /\ ProtosIn(LeaveScopes(symTab, k), fns)
           /\ Len(symTab) - k >= 1 => LeaveScopes(symTab, k)[1] = FnTable
  <1>1. symTab \in Chains /\ Len(symTab) \in Nat /\ visiting \in Seq(Frames)
    BY LenProperties DEF Good, TcGood, TcTyped, Chains
  <1>2. k \in 0..Len(symTab) BY <1>1
  <1>3. /\ LeaveScopes(symTab, k) \in Chains
        /\ Len(LeaveScopes(symTab, k)) = Len(symTab) - k
        /\ \A L \in 1..(Len(symTab) - k) : LeaveScopes(symTab, k)[L] = symTab[L]
    BY <1>1, <1>2, LeaveChain
  <1>4. ASSUME NEW L \in 1..(Len(symTab) - k), NEW j \in 1..Len(visiting),
               IsBlock(visiting[j]), visiting[j].base <= L
        PROVE  j <= m
    <2>1. visiting[m + 1].base \in Nat /\ visiting[j].base \in Nat
      <3>1. m + 1 \in 1..Len(visiting) OBVIOUS
      <3>2. visiting[m + 1].base \in Nat BY <1>1, <3>1, FrameBase
      <3>3. visiting[j].base \in Nat BY <1>1, FrameBase
      <3> QED BY <3>2, <3>3
    <2>2. j # m + 1 BY <1>1, <1>4, <2>1
    <2> QED BY <2>2
  <1>5. Unshadowed(symTab) /\ ProtosIn(symTab, fns) /\ symTab[1] = FnTable
    BY DEF Good, TcGood, ProtoInv, ScopeInv, NoShadowing, Unshadowed, TrailInv
  <1>6. Unshadowed(LeaveScopes(symTab, k)) BY <1>1, <1>2, <1>5, LeaveUnshadowed
  <1>7. ProtosIn(LeaveScopes(symTab, k), fns) BY <1>1, <1>2, <1>5, ChainProtos
  <1>8. \A L \in 1..(Len(symTab) - k) : L <= Len(symTab) BY <1>1
  <1>9. Len(symTab) - k >= 1 => 1 \in 1..(Len(symTab) - k) BY <1>1
  <1> QED BY <1>1, <1>3, <1>4, <1>5, <1>6, <1>7, <1>8, <1>9

LEMMA CloseScopeGood ==
    ASSUME Good, phase = "typecheck", visiting # <<>>, IsBlock(Top), Top.k # "body",
           Record("end", NoName, Top.k, <<>>, "none", Below,
                  LeaveScopes(symTab, IF Top.k = "for" THEN 2 ELSE 1)),
           visiting' = Below, UNCHANGED <<phase, fns, fnIdx>>
    PROVE  Good' /\ Kind
  <1> PICK m \in 1..Len(visiting) :
              /\ m \in Nat /\ m >= 1 /\ Len(visiting) = m + 1 /\ visiting[m + 1] = Top
              /\ m + 1 \in 1..Len(visiting) /\ IsBlock(visiting[m])
              /\ Below \in Seq(Frames) /\ Len(Below) = m /\ Kept(m, Below)
              /\ VisitsGood(Below, ast, fns, phase)
              /\ visiting[m].base \in Nat /\ visiting[m].base >= 4
              /\ Top.base = visiting[m].base + (IF Top.k = "for" THEN 2 ELSE 1)
              /\ Len(symTab) = Top.base
    BY InnerBlock
  <1> DEFINE k  == IF Top.k = "for" THEN 2 ELSE 1
             st == LeaveScopes(symTab, k)
  <1>1. k \in 1..Len(symTab) /\ Len(symTab) - k = visiting[m].base
        /\ visiting[m].base < visiting[m + 1].base
    OBVIOUS
  <1> HIDE DEF k
  <1>2. /\ st \in Chains /\ Len(st) = visiting[m].base
        /\ \A L \in 1..Len(st) :
                 /\ st[L] = symTab[L] /\ L <= Len(symTab)
                 /\ \A j \in 1..Len(visiting) :
                       IsBlock(visiting[j]) /\ visiting[j].base <= L => j <= m
        /\ Unshadowed(st) /\ ProtosIn(st, fns) /\ st[1] = FnTable
    BY <1>1, LeftScopes
  <1>3. Record("end", NoName, Top.k, <<>>, "none", Below, st) BY DEF k
  <1> HIDE DEF st
  <1>4. /\ "none" \in ResultTokens \cup {"none"} /\ TcGood /\ fnIdx' \in 0..Len(fns)
        /\ Top.k \in Labels /\ <<>> \in Seq(Nat) /\ "end" \in NodeKinds
        /\ NoName \in Names \cup {NoName}
    BY EmptySeq DEF Good, TcGood, TcTyped, Labels, IsBlock, NodeKinds
  <1>5. /\ Len(ast') = Len(ast) + 1 /\ \A i \in 1..Len(ast) : ast'[i] = ast[i]
    BY <1>2, <1>3, <1>4, RecordType DEF TcGood
  <1>6. VisitsGood(Below, ast', fns, phase')
    BY <1>4, <1>5, MarksSelf, RecordKeepsGood
  <1>7. TcGood' BY <1>2, <1>3, <1>4, <1>6, RecordGood
  <1>8. symTab' = st BY <1>3 DEF Record
  <1>9. StackInv' /\ DepthInv'
    <2>1. visiting \in Seq(Frames) /\ StackInv /\ DepthInv
      BY DEF Good, TcGood, TcTyped, ScopeInv
    <2> QED BY <1>2, <1>8, <2>1, CloseStack
  <1>10. OldOnly(st, m) BY <1>2 DEF OldOnly
  <1>11. "end" \notin DeclKinds /\ SeesLive("end", Below) BY DEF DeclKinds, SeesLive, Lookups
  <1>12. m \in 0..Len(visiting) /\ m <= Len(Below) /\ Len(st) >= 1
         /\ phase' \in {"typecheck", "rejected"}
    BY <1>2
  <1>13. ScopeInv' /\ Kind
    BY <1>2, <1>3, <1>4, <1>9, <1>10, <1>11, <1>12, MoveScope
  <1> QED BY <1>7, <1>13 DEF Good
(* A variable is declared in the innermost block's scope.                  *)
LEMMA DeclareGood ==
    ASSUME Good, phase = "typecheck", visiting # <<>>,
           NEW k \in {"vardecl", "arraydecl"}, NEW x \in Names, NEW kids \in Seq(Nat),
           NEW res \in TypeTokens, k = "arraydecl" => res = "Type_array",
           ~Declares(symTab, x),
           NEW vs, NEW m, Base(vs, m), IsBlock(visiting[m]),
           Len(visiting) = m + 1 => visiting[m + 1].k # "forhdr",
           Record(k, x, "none", kids, res, vs,
                  Add(symTab, x, VarInfo(res, DeclAt(Len(ast) + 1)))),
           NEW V \in Seq(Frames), visiting' = V, Kept(m, V), Len(V) = m,
           VisitsGood(V, ast, fns, phase),
           UNCHANGED <<phase, fns, fnIdx>>
    PROVE  Good' /\ Kind
  <1> DEFINE info == VarInfo(res, DeclAt(Len(ast) + 1))
             st   == Add(symTab, x, info)
  <1>1. /\ symTab \in Chains /\ Len(symTab) \in Nat /\ Len(symTab) >= 1 /\ symTab[1] = FnTable
        /\ Unshadowed(symTab) /\ ProtosIn(symTab, fns) /\ trail # <<>> /\ TcGood /\ ScopeInv
        /\ visiting \in Seq(Frames) /\ Len(visiting) \in Nat /\ Len(ast) \in Nat
    BY LenProperties
    DEF Good, TcGood, TcTyped, Chains, ScopeInv, TrailInv, NoShadowing, Unshadowed, ProtoInv
  <1>2. info \in SymbolInfo /\ info.type # "Function"
    <2>1. DeclAt(Len(ast) + 1) \in Nat \X Nat BY <1>1 DEF DeclAt
    <2> QED BY <2>1, VarInfoType
  <1>3. info.decl = DeclAt(Len(ast) + 1) /\ info.decl[1] = Len(ast) + 1 BY DEF VarInfo, DeclAt
  <1>4. info = VarInfo(res, DeclAt(Len(ast) + 1)) OBVIOUS
  <1> HIDE DEF info
  <1>5. /\ st \in Chains /\ Len(st) = Len(symTab)
        /\ \A L \in 1..Len(symTab) : \A n \in Keys :
              st[L][n] = IF L = Len(symTab) /\ n = x THEN info ELSE symTab[L][n]
    BY <1>1, <1>2, AddChain
  <1>6. Unshadowed(st) /\ ProtosIn(st, fns)
    BY <1>1, <1>2, AddUnshadowed, ChainProtos
  <1>7. Record(k, x, "none", kids, res, vs, st) BY <1>4
  <1>8. st[1] = FnTable
    <2>1. m \in 1..Len(visiting) BY DEF Base
    <2>2. visiting[m].base >= 4 /\ Innermost(m) BY <1>1, <2>1 DEF ScopeInv, StackInv, Base, Innermost
    <2>3. Len(symTab) >= 4
      <3>1. visiting[m].base \in Nat BY <1>1, <2>1, FrameBase
      <3>2. Len(symTab) = visiting[m].base + (IF InHeader(m) THEN 1 ELSE 0)
        BY <1>1, <2>1, <2>2 DEF ScopeInv, DepthInv
      <3> QED BY <2>2, <3>1, <3>2
    <2>4. st[1] = symTab[1]
      <3>1. st = [symTab EXCEPT ![Len(symTab)] = [symTab[Len(symTab)] EXCEPT ![x] = info]] BY DEF Add
      <3>2. 1 # Len(symTab)
        <4> SUFFICES ASSUME 1 = Len(symTab) PROVE FALSE OBVIOUS
        <4>1. 1 >= 4 BY <2>3
        <4> QED BY <4>1
      <3> HIDE DEF st
      <3>3. 1 \in 1..Len(symTab) BY <1>1
      <3> QED BY <1>1, <3>1, <3>2, <3>3 DEF Chains
    <2> QED BY <1>1, <2>4
  <1> HIDE DEF st
  <1>9. /\ res \in ResultTokens \cup {"none"} /\ "none" \in Labels /\ k \in NodeKinds
        /\ x \in Names \cup {NoName} /\ "none" \in TypeTokens \cup {"none"}
    BY DEF ResultTokens, Labels, NodeKinds
  <1>10. /\ Len(ast') = Len(ast) + 1 /\ (\A i \in 1..Len(ast) : ast'[i] = ast[i])
    BY <1>1, <1>5, <1>7, <1>9, RecordType DEF TcGood
  <1>11. VisitsGood(V, ast', fns, phase')
    BY <1>1, <1>10, MarksSelf, RecordKeepsGood
  <1>12. TcGood'
    <2>1. fnIdx' \in 0..Len(fns) BY <1>1 DEF TcGood, TcTyped
    <2> QED BY <1>1, <1>5, <1>6, <1>7, <1>9, <1>11, <2>1, RecordGood
  <1>13. symTab' = st BY <1>7 DEF Record
  <1>14. StackInv' /\ DepthInv'
    BY <1>1, <1>5, <1>13, KeepStack DEF Base, ScopeInv
  <1>15. /\ TrailInv' /\ NoShadowing' /\ TrailUnshadowed'
         /\ LinkInv' /\ DeclaredInv' /\ LookupInv'
    <2>1. FromHere(st, k, x, kids, res)
      BY <1>1, <1>4, <1>5 DEF FromHere, Keys, DeclKinds
    <2>2. NewName(k, x, res) /\ AtTop(k, kids, vs) /\ SeesLive(k, vs)
      BY DEF NewName, AtTop, SeesLive, Lookups
    <2>3. phase' \notin {"declare"} OBVIOUS
    <2> QED BY <1>1, <1>5, <1>6, <1>7, <1>8, <1>9, <2>1, <2>2, <2>3, RecordScope
  <1>16. DeadInv'
    <2>1. m \in Nat /\ m \in 1..Len(visiting) /\ m \in 0..Len(visiting) BY <1>1 DEF Base
    <2>2. ast'[Len(ast) + 1].live = IsLive(vs)
      <3>1. Node(k, x, "none", kids, res, IsLive(vs)) \in Nodes BY <1>9, NodeType
      <3>2. ast'[Len(ast) + 1] = Node(k, x, "none", kids, res, IsLive(vs))
        BY <1>1, <1>7, <3>1, PushLemma DEF Record, TcGood, TcTyped
      <3> QED BY <3>2 DEF Node
    <2>3. \A i \in 1..m : IsBlock(visiting[i]) /\ visiting[i].base <= visiting[m].base
      BY <1>1, <2>1, AllBlocks DEF ScopeInv
    <2>4. visiting[m].base <= Len(symTab) /\ visiting[m].base \in Nat
      <3>1. visiting[m].base \in Nat BY <1>1, <2>1, FrameBase
      <3>2. Innermost(m) BY <2>1 DEF Base, Innermost
      <3>3. Len(symTab) = visiting[m].base + (IF InHeader(m) THEN 1 ELSE 0)
        BY <1>1, <2>1, <3>2 DEF ScopeInv, DepthInv
      <3> QED BY <3>1, <3>3
    <2>5. ASSUME ~IsLive(vs)
          PROVE  \E j \in 1..Len(V) : IsBlock(V[j]) /\ V[j].ret /\ V[j].base <= Len(symTab)
      <3>1. PICK j \in 1..m : vs[j].ret \/ vs[j].k \in Hidden BY <2>5 DEF IsLive, Base
      <3>2. visiting[j].ret
        <4>1. vs[j] = visiting[j] BY DEF Base
        <4>2. visiting[j].k \notin Hidden BY <2>3 DEF IsBlock, BlockKinds, Hidden
        <4> QED BY <3>1, <4>1, <4>2
      <3>3. V[j].ret /\ IsBlock(V[j]) /\ V[j].base = visiting[j].base
        BY <2>3, <3>2 DEF Kept, IsBlock
      <3>4. visiting[j].base <= Len(symTab)
        <4>1. j \in 1..Len(visiting) BY <2>1
        <4>2. visiting[j].base \in Nat BY <1>1, <4>1, FrameBase
        <4>3. visiting[j].base <= visiting[m].base BY <2>3
        <4>4. Len(symTab) \in Nat BY <1>1
        <4> QED BY <2>4, <4>2, <4>3, <4>4
      <3> QED BY <3>3, <3>4
    <2>6. ASSUME NEW L \in 1..Len(st), NEW y \in Names, IsVar(st[L][y])
          PROVE  \/ /\ L <= Len(symTab) /\ st[L][y] = symTab[L][y]
                    /\ \A j \in 1..Len(visiting) :
                         IsBlock(visiting[j]) /\ visiting[j].base <= L => j <= m
                 \/ ast'[st[L][y].decl[1]].live
                 \/ \E j \in 1..Len(V) : IsBlock(V[j]) /\ V[j].ret /\ V[j].base <= L
      <3>1. CASE L = Len(symTab) /\ y = x
        <4>1. st[L][y] = info BY <1>5, <2>6, <3>1 DEF Keys
        <4> QED BY <1>3, <2>2, <2>5, <3>1, <4>1
      <3>2. CASE ~(L = Len(symTab) /\ y = x)
        <4>1. st[L][y] = symTab[L][y] /\ L <= Len(symTab) BY <1>1, <1>5, <2>6, <3>2 DEF Keys
        <4>2. \A j \in 1..Len(visiting) : IsBlock(visiting[j]) => j <= m
          BY <1>1, <2>1 DEF Base
        <4> QED BY <4>1, <4>2
      <3> QED BY <3>1, <3>2
    <2>7. Len(V) \in Nat /\ m <= Len(V) BY <2>1
    <2> QED BY <1>1, <1>10, <1>13, <2>1, <2>6, <2>7, DeadKept
  <1> QED BY <1>12, <1>14, <1>15, <1>16 DEF Good, ScopeInv, Kind, Phases

(* The header of a `for' is visited above the block m.                     *)
LEMMA HeaderStack ==
    ASSUME StackInv, DepthInv, visiting \in Seq(Frames), Len(symTab) \in Nat,
           NEW m \in 1..Len(visiting), Len(visiting) = m, IsBlock(visiting[m]),
           NEW V \in Seq(Frames), visiting' = V, Kept(m, V), Len(V) = m + 1,
           V[m + 1].k = "forhdr", Len(symTab') = Len(symTab) + 1
    PROVE  StackInv' /\ DepthInv'
  <1>1. m \in Nat /\ m >= 1 /\ 1..m \subseteq 1..Len(visiting) BY LenProperties
  <1>2. \A j \in 1..Len(V) : j \in 1..m \/ j = m + 1 BY <1>1
  <1>3. ASSUME NEW j \in 1..Len(V)
        PROVE  StackAt(V, j)
    <2>1. CASE j \in 1..m BY <1>1, <2>1, StackKept
    <2>2. CASE j = m + 1
      <3>1. ~IsBlock(V[j]) /\ V[j].k # "body" /\ j # 1 BY <1>1, <2>2 DEF IsBlock, BlockKinds
      <3>2. \A i \in 1..m : IsBlock(visiting[i]) BY AllBlocks
      <3>3. \A i \in 1..(j - 1) : IsBlock(V[i]) BY <1>1, <2>2, <3>2 DEF Kept, IsBlock
      <3> QED BY <3>1, <3>3 DEF StackAt
    <2> QED BY <1>2, <2>1, <2>2
  <1>4. StackInv' BY <1>3 DEF StackInv, StackAt, IsBlock
  <1>5. ASSUME NEW j \in 1..Len(V), IsBlock(V[j]), j < Len(V) => ~IsBlock(V[j + 1])
        PROVE  Len(symTab) + 1 = V[j].base + (IF j < Len(V) /\ V[j + 1].k = "forhdr" THEN 1 ELSE 0)
    <2>1. j # m + 1 BY <1>5 DEF IsBlock, BlockKinds
    <2>2. j = m
      <3>1. SUFFICES ASSUME j < m PROVE FALSE BY <1>2, <2>1
      <3>2. j + 1 \in 1..m /\ j < Len(V) BY <1>1, <3>1
      <3>3. IsBlock(visiting[j + 1]) BY <3>2, AllBlocks
      <3> QED BY <1>5, <3>2, <3>3 DEF Kept, IsBlock
    <2>3. Innermost(m) /\ ~InHeader(m) BY DEF Innermost, InHeader
    <2>4. visiting[m].base \in Nat BY FrameBase
    <2>5. Len(symTab) = visiting[m].base BY <2>3, <2>4 DEF DepthInv
    <2>6. V[j].base = visiting[m].base /\ j < Len(V) /\ V[j + 1].k = "forhdr" BY <1>1, <2>2 DEF Kept
    <2> QED BY <2>5, <2>6
  <1>6. V # <<>> BY <1>1, EmptySeq
  <1> QED BY <1>4, <1>5, <1>6 DEF DepthInv, Innermost, InHeader

(* The scope of a `for' is entered and its identifier declared in it.      *)
LEMMA HeaderGood ==
    ASSUME Good, phase = "typecheck", visiting # <<>>, IsBlock(Top),
           NEW x \in Names, ~Declares(symTab, x),
           Record("forvar", x, "none", <<>>, "Type_int", visiting,
                  Add(EnterScope(symTab), x, VarInfo("Type_int", DeclAt(Len(ast) + 1)))),
           visiting' = Append(Noted(visiting, "for"),
                              [Frame("forhdr", x, "none", 0, 0) EXCEPT
                                 !.kids = <<Len(ast) + 1>>]),
           UNCHANGED <<phase, fns, fnIdx>>
    PROVE  Good' /\ Kind
  <1> DEFINE info == VarInfo("Type_int", DeclAt(Len(ast) + 1))
             c    == EnterScope(symTab)
             st   == Add(c, x, info)
             ws   == Noted(visiting, "for")
             f    == [Frame("forhdr", x, "none", 0, 0) EXCEPT !.kids = <<Len(ast) + 1>>]
  <1>1. /\ symTab \in Chains /\ Len(symTab) \in Nat /\ Len(symTab) >= 1 /\ symTab[1] = FnTable
        /\ Unshadowed(symTab) /\ ProtosIn(symTab, fns) /\ trail # <<>> /\ TcGood /\ ScopeInv
        /\ visiting \in Seq(Frames) /\ Len(visiting) \in Nat /\ Len(ast) \in Nat
        /\ fnIdx \in 0..Len(fns) /\ VisitsGood(visiting, ast, fns, phase)
    BY LenProperties
    DEF Good, TcGood, TcTyped, Chains, ScopeInv, TrailInv, NoShadowing, Unshadowed, ProtoInv,
        FrameInv
  <1> PICK m \in Nat : m = Len(visiting) BY <1>1
  <1>2. m \in 1..Len(visiting) /\ visiting[m] = Top /\ IsBlock(visiting[m])
    BY <1>1, LastLemma DEF Top
  <1>3. DeclAt(Len(ast) + 1) \in Nat \X Nat BY <1>1 DEF DeclAt
  <1>4. info \in SymbolInfo /\ info.type # "Function" BY <1>3, VarInfoType
  <1>5. info = VarInfo("Type_int", DeclAt(Len(ast) + 1)) /\ info.decl[1] = Len(ast) + 1
    BY DEF VarInfo, DeclAt
  <1> HIDE DEF info
  <1>6. /\ c \in Chains /\ Len(c) = Len(symTab) + 1
        /\ \A L \in 1..Len(symTab) : c[L] = symTab[L]
        /\ c[Len(symTab) + 1] = EmptyTable
    BY <1>1, EnterChain
  <1>7. ProtosIn(c, fns) /\ Unshadowed(c) BY <1>1, ChainProtos, EnterUnshadowed
  <1>8. ~Declares(c, x)
    <2>1. ~IsSym(EmptyTable[x]) BY EmptyTableType DEF IsSym, Keys
    <2>2. \A L \in 1..(Len(symTab) + 1) : L \in 1..Len(symTab) \/ L = Len(symTab) + 1 BY <1>1
    <2> QED BY <1>6, <2>1, <2>2 DEF Declares
  <1>9. st = [c EXCEPT ![Len(c)] = [c[Len(c)] EXCEPT ![x] = info]] BY DEF Add
  <1> HIDE DEF c
  <1>10. Len(c) >= 1 /\ 1 \in 1..Len(c) /\ c[1] = FnTable /\ Len(c) # 1 BY <1>1, <1>6
  <1>11. /\ st \in Chains /\ Len(st) = Len(c)
         /\ \A L \in 1..Len(c) : \A n \in Keys :
               st[L][n] = IF L = Len(c) /\ n = x THEN info ELSE c[L][n]
    BY <1>4, <1>6, <1>10, AddChain
  <1>12. Unshadowed(st) /\ ProtosIn(st, fns)
    BY <1>4, <1>6, <1>7, <1>8, <1>10, AddUnshadowed, ChainProtos
  <1>13. Record("forvar", x, "none", <<>>, "Type_int", visiting, st) BY DEF c, info
  <1>14. visiting' = Append(ws, f) OBVIOUS
  <1> HIDE DEF st
  <1>15. st[1] = FnTable BY <1>6, <1>9, <1>10 DEF Chains
  <1>16. /\ "Type_int" \in ResultTokens \cup {"none"} /\ "none" \in Labels
         /\ "forvar" \in NodeKinds /\ "for" \in NodeKinds \cup FrameKinds
         /\ x \in Names \cup {NoName} /\ <<>> \in Seq(Nat) /\ "forhdr" \in FrameKinds
         /\ "none" \in Labels \cup TypeTokens \cup {"Err"}
    BY EmptySeq DEF ResultTokens, TypeTokens, Labels, NodeKinds, FrameKinds, StmtKinds
  <1>17. /\ Len(ast') = Len(ast) + 1 /\ (\A i \in 1..Len(ast) : ast'[i] = ast[i])
    BY <1>1, <1>11, <1>13, <1>16, RecordType DEF TcGood
  <1>18. Marks(visiting, ws) /\ Keeps(visiting, ws) BY <1>1, <1>16, NotedMarks
  <1>19. VisitsGood(ws, ast', fns, phase')
    BY <1>1, <1>17, <1>18, RecordKeepsGood DEF Marks
  <1>20. ws \in Seq(Frames) /\ Len(ws) = m /\ Kept(m, ws) BY <1>18, MarksKept
  <1>21. f \in Frames /\ FrameGood(f, ast', fns, phase') /\ f.k = "forhdr"
    <2>1. Frame("forhdr", x, "none", 0, 0) \in Frames BY <1>16, FrameType
    <2>2. <<Len(ast) + 1>> \in Seq(1..Len(ast')) /\ <<Len(ast) + 1>> \in Seq(Nat)
      <3>1. Len(ast) + 1 \in 1..Len(ast') /\ Len(ast) + 1 \in Nat BY <1>1, <1>17
      <3> QED BY <3>1
    <2>3. f.k = "forhdr" /\ f.kids = <<Len(ast) + 1>> /\ f.op = "none" BY DEF Frame
    <2>4. f \in Frames BY <2>1, <2>2 DEF Frames
    <2> HIDE DEF f
    <2> QED BY <1>16, <2>2, <2>3, <2>4 DEF FrameGood
  <1> HIDE DEF f, ws
  <1> DEFINE V == Append(ws, f)
  <1>22. V \in Seq(Frames) /\ VisitsGood(V, ast', fns, phase')
    BY <1>19, <1>20, <1>21, PushGood
  <1>23. Len(V) = m + 1 /\ V[m + 1] = f /\ \A i \in 1..m : V[i] = ws[i]
    BY <1>20, <1>21, PushLemma
  <1>24. Kept(m, V) /\ visiting' = V BY <1>14, <1>20, <1>23 DEF Kept
  <1> HIDE DEF V
  <1>25. TcGood'
    <2>1. fnIdx' \in 0..Len(fns) BY <1>1
    <2> QED BY <1>1, <1>11, <1>12, <1>13, <1>16, <1>22, <1>24, <2>1, RecordGood
  <1>26. symTab' = st BY <1>13 DEF Record
  <1>27. StackInv' /\ DepthInv'
    BY <1>1, <1>2, <1>6, <1>11, <1>21, <1>22, <1>23, <1>24, <1>26, HeaderStack DEF ScopeInv
  <1>28. \A L \in 1..Len(st) : \A y \in Names :
            \/ L = Len(c) /\ y = x /\ st[L][y] = info
            \/ L <= Len(symTab) /\ st[L][y] = symTab[L][y]
            \/ ~IsVar(st[L][y])
    <2>1. \A L \in 1..(Len(symTab) + 1) : L \in 1..Len(symTab) \/ L = Len(symTab) + 1 BY <1>1
    <2>2. \A L \in 1..Len(symTab) : L <= Len(symTab) BY <1>1
    <2>3. \A y \in Names : ~IsVar(EmptyTable[y]) BY EmptyTableType DEF IsVar, IsSym, Keys
    <2> QED BY <1>6, <1>11, <2>1, <2>2, <2>3 DEF Keys
  <1>29. /\ TrailInv' /\ NoShadowing' /\ TrailUnshadowed'
         /\ LinkInv' /\ DeclaredInv' /\ LookupInv'
    <2>1. FromHere(st, "forvar", x, <<>>, "Type_int")
      BY <1>5, <1>28 DEF FromHere, DeclKinds
    <2>2. NewName("forvar", x, "Type_int") /\ AtTop("forvar", <<>>, visiting)
          /\ SeesLive("forvar", visiting)
      BY DEF NewName, AtTop, SeesLive, Lookups, TypeTokens
    <2>3. phase' \notin {"declare"} /\ Len(st) >= 1 BY <1>10, <1>11
    <2> QED BY <1>1, <1>11, <1>12, <1>13, <1>15, <1>16, <2>1, <2>2, <2>3, RecordScope
  <1>30. DeadInv'
    <2>1. ast'[Len(ast) + 1].live = IsLive(visiting)
      <3>1. Node("forvar", x, "none", <<>>, "Type_int", IsLive(visiting)) \in Nodes BY <1>16, NodeType
      <3>2. ast'[Len(ast) + 1] = Node("forvar", x, "none", <<>>, "Type_int", IsLive(visiting))
        BY <1>1, <1>13, <3>1, PushLemma DEF Record, TcGood, TcTyped
      <3> QED BY <3>2 DEF Node
    <2>2. \A i \in 1..m : IsBlock(visiting[i]) /\ visiting[i].base <= visiting[m].base
      BY <1>1, <1>2, AllBlocks DEF ScopeInv
    <2>3. visiting[m].base = Len(symTab) /\ visiting[m].base \in Nat
      <3>1. visiting[m].base \in Nat BY <1>1, <1>2, FrameBase
      <3>2. Innermost(m) /\ ~InHeader(m) BY <1>2 DEF Innermost, InHeader
      <3> QED BY <1>1, <1>2, <3>1, <3>2 DEF ScopeInv, DepthInv
    <2>4. ASSUME ~IsLive(visiting)
          PROVE  \E j \in 1..Len(V) : IsBlock(V[j]) /\ V[j].ret /\ V[j].base <= Len(c)
      <3>1. PICK j \in 1..m : visiting[j].ret
        BY <2>2, <2>4 DEF IsLive, IsBlock, BlockKinds, Hidden
      <3>2. V[j].ret /\ IsBlock(V[j]) /\ V[j].base = visiting[j].base /\ j \in 1..Len(V)
        BY <1>23, <1>24, <2>2, <3>1 DEF Kept, IsBlock
      <3>3. visiting[j].base <= Len(c)
        <4>1. visiting[j].base \in Nat BY <1>1, FrameBase
        <4> QED BY <1>1, <1>6, <2>2, <2>3, <4>1
      <3> QED BY <3>2, <3>3
    <2>5. ASSUME NEW L \in 1..Len(st), NEW y \in Names, IsVar(st[L][y])
          PROVE  \/ /\ L <= Len(symTab) /\ st[L][y] = symTab[L][y]
                    /\ \A j \in 1..Len(visiting) :
                         IsBlock(visiting[j]) /\ visiting[j].base <= L => j <= m
                 \/ ast'[st[L][y].decl[1]].live
                 \/ \E j \in 1..Len(V) : IsBlock(V[j]) /\ V[j].ret /\ V[j].base <= L
      <3>1. CASE L = Len(c) /\ st[L][y] = info BY <1>5, <2>1, <2>4, <3>1
      <3>2. CASE L <= Len(symTab) /\ st[L][y] = symTab[L][y] BY <3>2
      <3> QED BY <1>28, <2>5, <3>1, <3>2
    <2>6. Len(V) \in Nat /\ m <= Len(V) /\ m \in 0..Len(visiting) BY <1>23
    <2> QED BY <1>1, <1>17, <1>24, <1>26, <2>5, <2>6, DeadKept
  <1> QED BY <1>25, <1>27, <1>29, <1>30 DEF Good, ScopeInv, Kind, Phases

-----------------------------------------------------------------------------
(* The functions.                                                          *)

LEMMA FnTableType ==
    ASSUME fns \in Protos
    PROVE  /\ FnTable \in Tables
           /\ \A n \in Names : ~IsVar(FnTable[n])
           /\ \A n \in Keys : FnTable[n].type = "Function" => FnTable[n].proto \in 1..Len(fns)
           /\ ~IsSym(FnTable[FnMarker])
  <1>1. fns \in Seq(Prototype) BY ProtosAssumption
  <1>2. Len(fns) \in Nat /\ 1..Len(fns) \subseteq Nat BY <1>1, LenProperties
  <1>3. \A i \in 1..Len(fns) : fns[i].name \in Names
    <2>1. \A i \in 1..Len(fns) : fns[i] \in Prototype BY <1>1, ElementOfSeq
    <2> QED BY <2>1 DEF Prototype
  <1>4. ASSUME NEW n \in Keys
        PROVE  FnTable[n] = NoSym \/ \E i \in 1..Len(fns) : FnTable[n] = FnInfo(i) /\ n \in Names
    <2>1. CASE \E i \in 1..Len(fns) : fns[i].name = n
      <3>1. FnTable[n] = FnInfo(CHOOSE i \in 1..Len(fns) : fns[i].name = n)
        BY <2>1 DEF FnTable
      <3>2. (CHOOSE i \in 1..Len(fns) : fns[i].name = n) \in 1..Len(fns) BY <2>1
      <3>3. n \in Names BY <1>3, <2>1
      <3> QED BY <3>1, <3>2, <3>3
    <2>2. CASE ~(\E i \in 1..Len(fns) : fns[i].name = n)
      BY <2>2 DEF FnTable
    <2> QED BY <2>1, <2>2
  <1>5. FnTable \in Tables
    <2>1. \A n \in Keys : FnTable[n] \in SymbolInfo BY <1>2, <1>4, FnInfoType
    <2> QED BY <2>1 DEF FnTable, Tables
  <1>6. \A i : FnInfo(i).type = "Function" /\ FnInfo(i).proto = i BY DEF FnInfo
  <1>7. NoSym.type # "Function" BY DEF NoSym
  <1>8. FnMarker \in Keys /\ FnMarker \notin Names /\ Names \subseteq Keys
    BY NamesAssumption DEF Keys, FnMarker
  <1>9. ~IsSym(FnTable[FnMarker]) BY <1>4, <1>8 DEF IsSym
  <1> QED BY <1>4, <1>5, <1>6, <1>7, <1>8, <1>9 DEF IsVar, IsSym

LEMMA DeclareFunctionsGood ==
    ASSUME Good, DeclareFunctions
    PROVE  Good' /\ Kind
  <1>1. CASE Redefined \/ ~IsSym(FnTable[Main])
    <2>1. Stop("rejected") BY <1>1 DEF DeclareFunctions, Reject
    <2> QED BY <2>1, StopScope DEF Endings
  <1>2. CASE ~(Redefined \/ ~IsSym(FnTable[Main]))
    <2>1. /\ phase = "declare" /\ symTab' = <<FnTable>> /\ trail' = << <<FnTable>> >>
          /\ phase' = "typecheck" /\ fns' = fns /\ ast' = ast
          /\ visiting' = visiting /\ fnIdx' = fnIdx
      BY <1>2 DEF DeclareFunctions
    <2>2. /\ ast = <<>> /\ visiting = <<>> /\ fns \in Protos /\ fnIdx \in 0..Len(fns)
          /\ ast \in Seq(Nodes) /\ visiting \in Seq(Frames)
      BY <2>1 DEF Good, TcGood, TcTyped, ScopeInv, TrailInv
    <2>3. /\ FnTable \in Tables
          /\ \A n \in Names : ~IsVar(FnTable[n])
          /\ \A n \in Keys : FnTable[n].type = "Function" => FnTable[n].proto \in 1..Len(fns)
      BY <2>2, FnTableType
    <2>4. FnTable' = FnTable BY <2>1 DEF FnTable
    <2> DEFINE t == FnTable
    <2>5. /\ symTab' = <<t>> /\ trail' = << <<t>> >> /\ t \in Tables /\ t = FnTable
      BY <2>1, <2>3
    <2> HIDE DEF t
    <2>6. /\ Len(symTab') = 1 /\ symTab'[1] = t /\ symTab' \in Chains
          /\ Len(trail') = 1 /\ trail'[1] = symTab' /\ trail' \in Seq(Chains) /\ trail' # <<>>
      BY <2>5 DEF Chains, Tables
    <2>7. Len(ast') = 0 /\ Len(visiting') = 0 /\ visiting' = <<>> BY <2>1, <2>2
    <2>8. TcGood' BY <2>1, <2>2, <2>3, <2>5, <2>6, <2>7
      DEF TcGood, TcTyped, FrameInv, VisitsGood, ProtoInv, ProtosIn
    <2>9. \A L \in 1..1 : L = 1 OBVIOUS
    <2>10. StackInv' /\ DepthInv' BY <2>6, <2>7 DEF StackInv, DepthInv
    <2>11. TrailInv' BY <2>1, <2>4, <2>5, <2>6, <2>7 DEF TrailInv
    <2>12. NoShadowing' /\ TrailUnshadowed'
      BY <2>6, <2>9 DEF NoShadowing, TrailUnshadowed, Unshadowed
    <2>13. LinkInv' /\ LookupInv' BY <2>7 DEF LinkInv, LookupInv
    <2>14. DeclaredInv' /\ DeadInv' BY <2>3, <2>5, <2>6, <2>9 DEF DeclaredInv, DeadInv
    <2> QED BY <2>1, <2>8, <2>10, <2>11, <2>12, <2>13, <2>14 DEF Good, ScopeInv, Kind, Phases
  <1> QED BY <1>1, <1>2

LEMMA FinishTypecheckGood ==
    ASSUME Good, FinishTypecheck
    PROVE  Good' /\ phase' = "codegen"
  <1>1. /\ phase = "typecheck" /\ phase' = "codegen"
        /\ UNCHANGED <<fns, ast, trail, symTab, visiting, fnIdx>>
    BY DEF FinishTypecheck
  <1>2. Extends(ast, ast) /\ visiting \in Seq(Frames)
    BY LenProperties DEF Good, TcGood, TcTyped, Extends
  <1>3. VisitsGood(visiting, ast, fns, "codegen")
    BY <1>2, MarksSelf, VisitsStayGood DEF Good, TcGood, FrameInv
  <1>4. TcGood' BY <1>1, <1>3 DEF Good, TcGood, TcTyped, FrameInv, ProtoInv
  <1>5. TrailInv' BY <1>1 DEF Good, ScopeInv, TrailInv, FnTable
  <1>6. NoShadowing' /\ TrailUnshadowed' /\ LinkInv' /\ DeclaredInv' /\ LookupInv'
    BY <1>1, TrailSame DEF Good
  <1>7. StackInv' BY <1>1 DEF Good, ScopeInv, StackInv
  <1>8. DepthInv' BY <1>1 DEF Good, ScopeInv, DepthInv, Innermost, InHeader
  <1>9. DeadInv' BY <1>1 DEF Good, ScopeInv, DeadInv, LiveSym
  <1> QED BY <1>1, <1>4, <1>5, <1>6, <1>7, <1>8, <1>9 DEF Good, ScopeInv

LEMMA LeaveFunctionGood ==
    ASSUME Good, LeaveFunction
    PROVE  Good' /\ Kind
  <1>1. phase = "typecheck" /\ visiting # <<>> /\ Top.k = "body" BY DEF LeaveFunction
  <1>2. CASE \E how \in {"crash", "rejected"} : Stop(how)
    BY <1>2, StopScope DEF Endings
  <1>3. CASE /\ Record("end", NoName, "body", <<>>, "none", Below, LeaveScopes(symTab, 3))
             /\ visiting' = Below
             /\ UNCHANGED <<phase, fns, fnIdx>>
    <2>1. visiting \in Seq(Frames) /\ Len(visiting) \in Nat /\ Len(visiting) >= 1
          /\ StackInv /\ DepthInv /\ TcGood /\ fnIdx \in 0..Len(fns)
      BY <1>1, LenPositive DEF Good, TcGood, TcTyped, ScopeInv
    <2>2. Top = visiting[Len(visiting)] /\ Len(visiting) \in 1..Len(visiting)
      BY <1>1, <2>1, LastLemma DEF Top
    <2>3. Len(visiting) = 1 BY <1>1, <2>1, <2>2 DEF StackInv
    <2>4. Below \in Seq(Frames) /\ Len(Below) = 0
      BY <1>1, <2>1, <2>3, FrontLemma DEF Below
    <2>5. Below = <<>> BY <2>4, EmptySeq
    <2>6. IsBlock(visiting[1]) /\ visiting[1].base = 4 /\ Len(symTab) = 4
      <3>1. IsBlock(visiting[1]) BY <1>1, <2>2, <2>3 DEF IsBlock, BlockKinds
      <3>2. Innermost(1) /\ ~InHeader(1) BY <2>3, <3>1 DEF Innermost, InHeader
      <3> QED BY <2>1, <2>2, <2>3, <3>1, <3>2 DEF StackInv, DepthInv
    <2>7. 3 \in 1..Len(symTab) /\ Len(symTab) - 3 = 1 BY <2>6
    <2> DEFINE st == LeaveScopes(symTab, 3)
    <2>8. /\ st \in Chains /\ Len(st) = 1
          /\ \A L \in 1..Len(st) :
                 /\ st[L] = symTab[L] /\ L <= Len(symTab)
                 /\ \A j \in 1..Len(visiting) :
                       IsBlock(visiting[j]) /\ visiting[j].base <= L => j <= 0
          /\ Unshadowed(st) /\ ProtosIn(st, fns) /\ st[1] = FnTable
      <3>1. 0 \in Nat /\ Len(visiting) = 0 + 1 /\ IsBlock(visiting[0 + 1])
            /\ Len(symTab) - 3 < visiting[0 + 1].base
        BY <2>3, <2>6
      <3>2. /\ st \in Chains /\ Len(st) = Len(symTab) - 3
            /\ \A L \in 1..(Len(symTab) - 3) :
                 /\ st[L] = symTab[L] /\ L <= Len(symTab)
                 /\ \A j \in 1..Len(visiting) :
                       IsBlock(visiting[j]) /\ visiting[j].base <= L => j <= 0
            /\ Unshadowed(st) /\ ProtosIn(st, fns)
            /\ Len(symTab) - 3 >= 1 => st[1] = FnTable
        BY <1>1, <2>7, <3>1, LeftScopes
      <3> HIDE DEF st
      <3>3. Len(st) = 1 /\ 1..Len(st) = 1..(Len(symTab) - 3) BY <2>7, <3>2
      <3>4. st[1] = FnTable BY <2>7, <3>2
      <3> QED BY <3>2, <3>3, <3>4
    <2> HIDE DEF st
    <2>9. OldOnly(st, 0) BY <2>8 DEF OldOnly
    <2>10. /\ "none" \in ResultTokens \cup {"none"} /\ fnIdx' \in 0..Len(fns)
           /\ "body" \in Labels /\ <<>> \in Seq(Nat) /\ "end" \in NodeKinds
           /\ NoName \in Names \cup {NoName}
      BY <1>3, <2>1, EmptySeq DEF Labels, BlockKinds, NodeKinds
    <2>11. Record("end", NoName, "body", <<>>, "none", Below, st) BY <1>3 DEF st
    <2>12. VisitsGood(Below, ast', fns, phase') BY <2>4 DEF VisitsGood
    <2>13. TcGood' BY <1>3, <2>1, <2>4, <2>8, <2>10, <2>11, <2>12, RecordGood
    <2>14. symTab' = st /\ visiting' = <<>> BY <1>3, <2>5, <2>11 DEF Record
    <2>15. StackInv' /\ DepthInv' BY <2>8, <2>14, EmptySeq DEF StackInv, DepthInv
    <2>16. Kept(0, Below) /\ 0 \in 0..Len(visiting) /\ 0 <= Len(Below) BY <2>1, <2>4 DEF Kept
    <2>17. "end" \notin DeclKinds /\ SeesLive("end", Below) BY DEF DeclKinds, SeesLive, Lookups
    <2>18. phase' \in {"typecheck", "rejected"} /\ Len(st) >= 1 BY <1>1, <1>3, <2>8
    <2>19. ScopeInv' /\ Kind
      BY <1>1, <1>3, <2>4, <2>8, <2>9, <2>10, <2>11, <2>15, <2>16, <2>17, <2>18, MoveScope
    <2> QED BY <2>13, <2>19 DEF Good
  <1>4. Stop("crash") \/ Stop("rejected") \/
          /\ Record("end", NoName, "body", <<>>, "none", Below, LeaveScopes(symTab, 3))
          /\ visiting' = Below
          /\ UNCHANGED <<phase, fns, fnIdx>>
    BY DEF LeaveFunction, Reject
  <1> QED BY <1>2, <1>3, <1>4

LEMMA ParamTableType ==
    ASSUME NEW ps \in Seq(FnParam), ast \in Seq(Nodes)
    PROVE  /\ ParamTable(ps) \in Tables
           /\ \A n \in Keys :
                 \/ ParamTable(ps)[n] = NoSym
                 \/ /\ n \in Names /\ IsParam(ps, n) /\ ParamTable(ps)[n].type # "Function"
                    /\ ParamTable(ps)[n] = VarInfo(ps[ParamAt(ps, n)].type,
                                                   ParamDecl(Len(ast) + 1, ParamAt(ps, n)))
  <1>1. Len(ast) + 1 \in Nat /\ Len(ps) \in Nat BY LenProperties
  <1>2. ASSUME NEW n \in Keys, IsParam(ps, n)
        PROVE  /\ n \in Names /\ ParamTable(ps)[n].type # "Function"
               /\ ParamTable(ps)[n] \in SymbolInfo
               /\ ParamTable(ps)[n] = VarInfo(ps[ParamAt(ps, n)].type,
                                              ParamDecl(Len(ast) + 1, ParamAt(ps, n)))
    <2>1. PICK j \in 1..Len(ps) : ps[j].name = n BY <1>2 DEF IsParam
    <2>2. ps[j] \in FnParam BY ElementOfSeq
    <2>3. n \in Names BY <2>1, <2>2 DEF FnParam
    <2>4. ParamAt(ps, n) \in 1..Len(ps) BY <2>1 DEF ParamAt
    <2>5. ParamDecl(Len(ast) + 1, ParamAt(ps, n)) \in Nat \X Nat BY <1>1, <2>4 DEF ParamDecl
    <2>6. ParamTable(ps)[n] = VarInfo(ps[ParamAt(ps, n)].type,
                                      ParamDecl(Len(ast) + 1, ParamAt(ps, n)))
      BY <1>2 DEF ParamTable
    <2> QED BY <2>3, <2>5, <2>6, VarInfoType
  <1>3. \A n \in Keys : ~IsParam(ps, n) => ParamTable(ps)[n] = NoSym BY DEF ParamTable
  <1>4. NoSym \in SymbolInfo BY FnInfoType
  <1>5. \A n \in Keys : ParamTable(ps)[n] \in SymbolInfo BY <1>2, <1>3, <1>4
  <1>6. ParamTable(ps) \in Tables BY <1>5 DEF ParamTable, Tables
  <1> QED BY <1>2, <1>3, <1>6

LEMMA MarkerTableType ==
    ASSUME NEW i \in Nat
    PROVE  /\ MarkerTable(i) \in Tables
           /\ MarkerTable(i)[FnMarker] = FnInfo(i)
           /\ \A n \in Names : MarkerTable(i)[n] = NoSym
           /\ FnMarker \in Keys /\ FnMarker \notin Names
  <1>1. FnMarker \in Keys /\ FnMarker \notin Names /\ Names \subseteq Keys
    BY NamesAssumption DEF Keys, FnMarker
  <1>2. FnInfo(i) \in SymbolInfo /\ EmptyTable \in Tables /\ \A n \in Keys : EmptyTable[n] = NoSym
    BY FnInfoType, EmptyTableType
  <1> QED BY <1>1, <1>2 DEF MarkerTable, Tables

(* The three scopes of a function on top of the first.                     *)
LEMMA ThreeScopes ==
    ASSUME NEW c \in Chains, Len(c) = 1,
           NEW t2 \in Tables, NEW t3 \in Tables, NEW t4 \in Tables
    PROVE  LET st == c \o <<t2, t3, t4>>
           IN  /\ st \in Chains /\ Len(st) = 4
               /\ st[1] = c[1] /\ st[2] = t2 /\ st[3] = t3 /\ st[4] = t4
  <1> DEFINE s3 == <<t2, t3, t4>>
             st == c \o s3
  <1>1. s3 \in Seq(Tables) /\ Len(s3) = 3 /\ s3[1] = t2 /\ s3[2] = t3 /\ s3[3] = t4
    OBVIOUS
  <1>2. c \in Seq(Tables) /\ st = c \o s3 BY DEF Chains, Tables
  <1> HIDE DEF s3, st
  <1>3. /\ c \o s3 \in Seq(Tables)
        /\ Len(c \o s3) = Len(c) + Len(s3)
        /\ \A j \in 1..(Len(c) + Len(s3)) : (c \o s3)[j] =
              IF j <= Len(c) THEN c[j] ELSE s3[j - Len(c)]
    BY <1>1, <1>2, ConcatProperties
  <1>4. /\ st \in Seq(Tables) /\ Len(st) = 4
        /\ \A j \in 1..4 : st[j] = IF j <= 1 THEN c[j] ELSE s3[j - 1]
    BY <1>1, <1>2, <1>3
  <1>5. st[1] = c[1] /\ st[2] = s3[2 - 1] /\ st[3] = s3[3 - 1] /\ st[4] = s3[4 - 1]
    BY <1>4
  <1>6. 2 - 1 = 1 /\ 3 - 1 = 2 /\ 4 - 1 = 3 OBVIOUS
  <1>7. /\ st \in Chains /\ Len(st) = 4
        /\ st[1] = c[1] /\ st[2] = t2 /\ st[3] = t3 /\ st[4] = t4
    BY <1>1, <1>4, <1>5, <1>6 DEF Chains, Tables
  <1> QED BY <1>7 DEF st, s3

LEMMA EnterFunctionGood ==
    ASSUME Good, EnterFunction
    PROVE  Good' /\ Kind
  <1> DEFINE ps == fns[fnIdx + 1].params
  <1>1. CASE Repeated(ps) \/ \E j \in 1..Len(ps) : ~CanAdd(symTab, ps[j].name)
    <2>1. Stop("rejected") BY <1>1 DEF EnterFunction, Reject
    <2> QED BY <2>1, StopScope DEF Endings
  <1>2. CASE ~(Repeated(ps) \/ \E j \in 1..Len(ps) : ~CanAdd(symTab, ps[j].name))
    <2>1. /\ phase = "typecheck" /\ visiting = <<>> /\ fnIdx < Len(fns)
          /\ Record("fn", fns[fnIdx + 1].name, "none", <<fnIdx + 1>>, "none", <<>>,
                    symTab \o <<MarkerTable(fnIdx + 1), ParamTable(ps), EmptyTable>>)
          /\ visiting' = <<Frame("body", NoName, "none", fnIdx + 1, Len(symTab'))>>
          /\ fnIdx' = fnIdx + 1
          /\ phase' = phase /\ fns' = fns
      BY <1>2 DEF EnterFunction
    <2>2. /\ fns \in Protos /\ fnIdx \in 0..Len(fns) /\ ast \in Seq(Nodes) /\ symTab \in Chains
          /\ Len(symTab) = 1 /\ symTab[1] = FnTable /\ trail # <<>> /\ TcGood /\ ScopeInv
          /\ ProtosIn(symTab, fns)
      BY <2>1 DEF Good, TcGood, TcTyped, ScopeInv, DepthInv, TrailInv, ProtoInv
    <2> PICK i \in Nat : i = fnIdx + 1 BY <2>2
    <2>3. i \in 1..Len(fns) BY <2>1, <2>2
    <2>4. fns[i] \in Prototype /\ ps = fns[i].params
      <3>1. fns \in Seq(Prototype) BY <2>2, ProtosAssumption
      <3> QED BY <2>3, <3>1, ElementOfSeq
    <2>5. ps \in Seq(FnParam) /\ fns[i].name \in Names BY <2>4 DEF Prototype
    <2>6. \A n \in Names : IsParam(ps, n) => ~Declares(symTab, n)
      BY <1>2 DEF CanAdd, IsParam
    <2> DEFINE t1 == FnTable
               t2 == MarkerTable(i)
               t3 == ParamTable(ps)
               t4 == EmptyTable
               st == symTab \o <<t2, t3, t4>>
    <2>7. t1 \in Tables /\ t2 \in Tables /\ t3 \in Tables /\ t4 \in Tables
      BY <2>2, <2>5, FnTableType, MarkerTableType, ParamTableType, EmptyTableType
    <2>8. /\ t2[FnMarker] = FnInfo(i) /\ FnMarker \in Keys /\ FnMarker \notin Names
          /\ \A n \in Names : t2[n] = NoSym
      BY MarkerTableType
    <2>9. \A n \in Keys :
             \/ t3[n] = NoSym
             \/ /\ n \in Names /\ IsParam(ps, n) /\ t3[n].type # "Function"
                /\ t3[n] = VarInfo(ps[ParamAt(ps, n)].type,
                                   ParamDecl(Len(ast) + 1, ParamAt(ps, n)))
      BY <2>2, <2>5, ParamTableType
    <2>10. \A n \in Keys : t4[n] = NoSym BY EmptyTableType
    <2>11. (\A n \in Names : ~IsVar(t1[n])) /\ ~IsSym(t1[FnMarker]) BY <2>2, FnTableType
    <2>12. Record("fn", fns[i].name, "none", <<i>>, "none", <<>>, st) BY <2>1
    <2>13. symTab[1] = t1 BY <2>2
    <2> HIDE DEF ps, t1, t2, t3, t4
    <2>14. /\ st \in Chains /\ Len(st) = 4
           /\ st[1] = t1 /\ st[2] = t2 /\ st[3] = t3 /\ st[4] = t4
      BY <2>2, <2>7, <2>13, ThreeScopes
    <2> HIDE DEF st
    <2>15. \A L \in 1..4 : L = 1 \/ L = 2 \/ L = 3 \/ L = 4 OBVIOUS
    <2>16. Keys = Names \cup {FnMarker} BY DEF Keys
    <2>17. FnInfo(i).type = "Function" /\ FnInfo(i).proto = i /\ NoSym.type # "Function"
           /\ ~IsSym(NoSym)
      BY DEF FnInfo, NoSym, IsSym
    <2>18. \A n \in Keys : IsSym(t3[n]) => n \in Names /\ ~IsSym(t1[n])
      BY <2>2, <2>6, <2>9, <2>13 DEF Declares, IsSym
    <2>19. Unshadowed(st)
      <3>1. \A n \in Keys : ~IsSym(t4[n]) BY <2>10, <2>17
      <3>2. \A n \in Keys : IsSym(t2[n]) => ~IsSym(t1[n]) /\ ~IsSym(t3[n])
        BY <2>8, <2>11, <2>16, <2>17, <2>18
      <3> QED BY <2>14, <2>15, <2>18, <3>1, <3>2 DEF Unshadowed
    <2>20. ProtosIn(st, fns)
      <3>1. \A n \in Keys : t1[n].type = "Function" => t1[n].proto \in 1..Len(fns)
        BY <2>2, <2>13 DEF ProtosIn
      <3>2. \A n \in Keys : t2[n].type = "Function" => t2[n].proto \in 1..Len(fns)
        BY <2>3, <2>8, <2>16, <2>17
      <3>3. \A n \in Keys : t3[n].type # "Function" /\ t4[n].type # "Function"
        BY <2>9, <2>10, <2>17
      <3> QED BY <2>14, <2>15, <3>1, <3>2, <3>3 DEF ProtosIn
    <2>21. \A L \in 1..Len(st) : \A y \in Names :
              IsVar(st[L][y]) =>
                 /\ L = 3 /\ IsParam(ps, y)
                 /\ st[L][y] = VarInfo(ps[ParamAt(ps, y)].type,
                                       ParamDecl(Len(ast) + 1, ParamAt(ps, y)))
      BY <2>8, <2>9, <2>10, <2>11, <2>14, <2>15, <2>16, <2>17 DEF IsVar
    <2>22. FromHere(st, "fn", fns[i].name, <<i>>, "none")
      <3>1. <<i>>[1] = i OBVIOUS
      <3> QED BY <2>4, <2>21, <3>1 DEF FromHere
    <2>23. IsLive(<<>>) BY DEF IsLive
    <2>24. NewName("fn", fns[i].name, "none") /\ SeesLive("fn", <<>>)
           /\ AtTop("fn", <<i>>, <<>>)
      <3>1. <<i>>[1] = i OBVIOUS
      <3>2. \A L \in 1..Len(symTab) : symTab[L] = t1 BY <2>2, <2>13
      <3> QED BY <2>3, <2>11, <2>23, <3>1, <3>2
        DEF NewName, SeesLive, AtTop, DeclKinds, Lookups
    <2>25. /\ "fn" \in NodeKinds /\ "none" \in ResultTokens \cup {"none"} /\ "none" \in Labels
           /\ fns[i].name \in Names \cup {NoName} /\ <<i>> \in Seq(Nat)
           /\ "body" \in FrameKinds /\ NoName \in Names \cup {NoName}
           /\ "none" \in Labels \cup TypeTokens \cup {"Err"} /\ "body" # "call" /\ 4 \in Nat
      BY <2>5 DEF NodeKinds, Labels, FrameKinds, BlockKinds
    <2>26. /\ TrailInv' /\ NoShadowing' /\ TrailUnshadowed'
           /\ LinkInv' /\ DeclaredInv' /\ LookupInv'
      <3>1. phase' \notin {"declare"} /\ Len(st) >= 1 /\ st[1] = FnTable
        BY <2>1, <2>2, <2>13, <2>14
      <3> QED BY <2>1, <2>2, <2>12, <2>14, <2>19, <2>22, <2>24, <2>25, <3>1, RecordScope
    <2>27. symTab' = st BY <2>12 DEF Record
    <2> DEFINE f == Frame("body", NoName, "none", i, 4)
    <2>28. f \in Frames /\ FrameGood(f, ast', fns, phase') BY <2>25, NewFrameGood
    <2>29. f.k = "body" /\ f.base = 4 BY DEF Frame
    <2>30. visiting' = <<f>> BY <2>1, <2>14, <2>27
    <2> HIDE DEF f
    <2>31. visiting' \in Seq(Frames) /\ Len(visiting') = 1 /\ visiting'[1] = f /\ visiting' # <<>>
      BY <2>28, <2>30
    <2>32. VisitsGood(visiting', ast', fns, phase') BY <2>28, <2>31 DEF VisitsGood
    <2>33. TcGood'
      <3>1. fnIdx' \in 0..Len(fns) BY <2>1, <2>3
      <3> QED BY <2>1, <2>2, <2>12, <2>14, <2>20, <2>25, <2>31, <2>32, <3>1, RecordGood
    <2>34. StackInv' /\ DepthInv'
      <3>1. \A j \in 1..1 : j = 1 OBVIOUS
      <3> QED BY <2>14, <2>27, <2>29, <2>31, <3>1 DEF StackInv, DepthInv, InHeader
    <2>35. DeadInv'
      <3>1. ast'[Len(ast) + 1].live
        <4>1. Node("fn", fns[i].name, "none", <<i>>, "none", IsLive(<<>>)) \in Nodes
          BY <2>25, NodeType
        <4>2. ast'[Len(ast) + 1] = Node("fn", fns[i].name, "none", <<i>>, "none", IsLive(<<>>))
          BY <2>2, <2>12, <4>1, PushLemma DEF Record
        <4> QED BY <2>23, <4>2 DEF Node
      <3>2. \A L \in 1..Len(st) : \A y \in Names :
              IsVar(st[L][y]) => st[L][y].decl[1] = Len(ast) + 1
        <4>1. \A t, j : VarInfo(t, ParamDecl(Len(ast) + 1, j)).decl[1] = Len(ast) + 1
          BY DEF VarInfo, ParamDecl
        <4> QED BY <2>21, <4>1
      <3> QED BY <2>27, <3>1, <3>2 DEF DeadInv, LiveSym
    <2> QED BY <2>1, <2>26, <2>33, <2>34, <2>35 DEF Good, ScopeInv, Kind, Phases
  <1> QED BY <1>1, <1>2

-----------------------------------------------------------------------------
(* Statements and expressions: the forms of their steps.                   *)

LEMMA TopType ==
    ASSUME Good, visiting # <<>>
    PROVE  /\ Top \in Frames /\ FrameGood(Top, ast, fns, phase)
           /\ Top.x \in Names \cup {NoName} /\ Top.op \in Labels \cup TypeTokens \cup {"Err"}
           /\ Top.k \in FrameKinds /\ Top.proto \in Nat
           /\ Top.kids \in Seq(Nat) /\ Top.kids \in Seq(1..Len(ast)) /\ Len(ast) \in Nat
  <1>1. visiting \in Seq(Frames) /\ VisitsGood(visiting, ast, fns, phase) /\ Len(ast) \in Nat
    BY LenProperties DEF Good, TcGood, TcTyped, FrameInv
  <1>2. Top \in Frames /\ Top = visiting[Len(visiting)] /\ Len(visiting) \in 1..Len(visiting)
    BY <1>1, LastLemma DEF Top
  <1>3. FrameGood(Top, ast, fns, phase) BY <1>1, <1>2 DEF VisitsGood
  <1>4. Top.kids \in Seq(1..Len(ast)) BY <1>3 DEF FrameGood
  <1> QED BY <1>1, <1>2, <1>3, <1>4 DEF Frames

LEMMA TopBase ==
    ASSUME Good, visiting # <<>>
    PROVE  \E m \in Nat :
              /\ Len(visiting) = m /\ m \in 1..Len(visiting) /\ Base(visiting, m)
              /\ visiting[m] = Top /\ Kept(m, visiting)
              /\ visiting \in Seq(Frames) /\ VisitsGood(visiting, ast, fns, phase)
  <1>1. visiting \in Seq(Frames) /\ Len(visiting) \in Nat
        /\ VisitsGood(visiting, ast, fns, phase)
    BY LenProperties DEF Good, TcGood, TcTyped, FrameInv
  <1> PICK m \in Nat : m = Len(visiting) BY <1>1
  <1>2. m \in 1..Len(visiting) /\ visiting[m] = Top BY <1>1, LastLemma DEF Top
  <1> QED BY <1>1, <1>2 DEF Base, Kept

(* An expression's visit returns.                                          *)
LEMMA DeliverScope ==
    ASSUME Good, phase = "typecheck", visiting # <<>>,
           NEW vs \in Seq(Frames), vs # <<>>, VisitsGood(vs, ast, fns, phase),
           NEW m, Base(vs, m), Kept(m, vs),
           Len(visiting) = m + 1 => visiting[m + 1].k # "forhdr",
           NEW k \in NodeKinds, k \notin DeclKinds, k # "fn",
           NEW x \in Names \cup {NoName}, NEW op \in Labels,
           NEW kids \in Seq(Nat), NEW ty \in ResultTokens \cup {"none"},
           Deliver(vs, k, x, op, kids, ty)
    PROVE  Good' /\ Kind
  <1>1. TcGood' /\ Marks(vs, visiting') BY DeliverGood DEF Good
  <1>2. PICK V : V = visiting' OBVIOUS
  <1>3. V \in Seq(Frames) /\ Len(V) = m /\ Kept(m, V)
    BY <1>1, <1>2 DEF Marks, Base, Kept
  <1>4. /\ Record(k, x, op, kids, ty, vs, symTab) /\ fns' = fns
        /\ phase' \in {"typecheck", "rejected"}
    BY DEF Deliver
  <1>5. ScopeInv' /\ Kind BY <1>2, <1>3, <1>4, QuietScope
  <1> QED BY <1>1, <1>5 DEF Good

(* An expression with operands returns.                                    *)
LEMMA DeliverBelow ==
    ASSUME Good, phase = "typecheck", visiting # <<>>, ~IsBlock(Top), Top.k # "forhdr",
           NEW k \in NodeKinds, k \notin DeclKinds, k # "fn",
           NEW x \in Names \cup {NoName}, NEW op \in Labels,
           NEW kids \in Seq(Nat), NEW ty \in ResultTokens \cup {"none"},
           Deliver(Below, k, x, op, kids, ty)
    PROVE  Good' /\ Kind
  <1> PICK m \in Nat :
              /\ Base(Below, m) /\ m \in 1..Len(visiting) /\ Len(visiting) = m + 1
              /\ visiting[m + 1] = Top
              /\ Below \in Seq(Frames) /\ Below # <<>> /\ Len(Below) = m /\ Kept(m, Below)
              /\ VisitsGood(Below, ast, fns, phase) /\ Last(Below) = visiting[m]
              /\ Top.k \in StmtKinds => IsBlock(visiting[m])
    BY BelowBase
  <1> QED BY DeliverScope

(* One without.                                                            *)
LEMMA DeliverLeaf ==
    ASSUME Good, phase = "typecheck", visiting # <<>>,
           NEW k \in NodeKinds, k \notin DeclKinds, k # "fn",
           NEW x \in Names \cup {NoName}, NEW ty \in ResultTokens,
           Deliver(visiting, k, x, "none", <<>>, ty)
    PROVE  Good' /\ Kind
  <1> PICK m \in Nat :
              /\ Len(visiting) = m /\ m \in 1..Len(visiting) /\ Base(visiting, m)
              /\ visiting[m] = Top /\ Kept(m, visiting)
              /\ visiting \in Seq(Frames) /\ VisitsGood(visiting, ast, fns, phase)
    BY TopBase
  <1>1. Len(visiting) # m + 1 OBVIOUS
  <1>2. "none" \in Labels /\ <<>> \in Seq(Nat) /\ ty \in ResultTokens \cup {"none"}
    BY EmptySeq DEF Labels
  <1> QED BY <1>1, <1>2, DeliverScope

(* A node is recorded and neither the chain nor the blocks change.         *)
LEMMA QuietGood ==
    ASSUME Good, phase = "typecheck", visiting # <<>>,
           NEW k \in NodeKinds, k \notin DeclKinds, k # "fn",
           NEW x \in Names \cup {NoName}, NEW op \in Labels,
           NEW kids \in Seq(Nat), NEW res \in ResultTokens \cup {"none"},
           NEW vs, NEW m, Base(vs, m), Record(k, x, op, kids, res, vs, symTab),
           Len(visiting) = m + 1 => visiting[m + 1].k # "forhdr",
           NEW V \in Seq(Frames), VisitsGood(V, ast, fns, phase), visiting' = V, Kept(m, V),
           Len(V) = m \/ (/\ Len(V) = m + 1 /\ ~IsBlock(V[m + 1]) /\ V[m + 1].k # "forhdr"
                          /\ V[m + 1].k \in StmtKinds => IsBlock(visiting[m])),
           UNCHANGED <<phase, fns, fnIdx>>
    PROVE  Good' /\ Kind
  <1>1. TcGood /\ symTab \in Chains /\ ProtosIn(symTab, fns) /\ fnIdx' \in 0..Len(fns)
    BY DEF Good, TcGood, TcTyped, ProtoInv
  <1>2. /\ Len(ast') = Len(ast) + 1 /\ \A i \in 1..Len(ast) : ast'[i] = ast[i]
    BY <1>1, RecordType DEF TcGood
  <1>3. VisitsGood(V, ast', fns, phase') BY <1>1, <1>2, MarksSelf, RecordKeepsGood
  <1>4. TcGood' BY <1>1, <1>3, RecordGood
  <1>5. phase' \in {"typecheck", "rejected"} OBVIOUS
  <1>6. ScopeInv' /\ Kind BY <1>5, QuietScope
  <1> QED BY <1>4, <1>6 DEF Good

(* A statement ends.                                                       *)
LEMMA FinishGood ==
    ASSUME Good, phase = "typecheck", visiting # <<>>, ~IsBlock(Top), Top.k # "forhdr",
           NEW k \in NodeKinds, k \notin DeclKinds, k # "fn",
           NEW x \in Names \cup {NoName},
           Finish(k, x, "none", Top.kids, "none", symTab)
    PROVE  Good' /\ Kind
  <1> PICK m \in Nat :
              /\ Base(Below, m) /\ m \in 1..Len(visiting) /\ Len(visiting) = m + 1
              /\ visiting[m + 1] = Top
              /\ Below \in Seq(Frames) /\ Below # <<>> /\ Len(Below) = m /\ Kept(m, Below)
              /\ VisitsGood(Below, ast, fns, phase) /\ Last(Below) = visiting[m]
              /\ Top.k \in StmtKinds => IsBlock(visiting[m])
    BY BelowBase
  <1>1. Top.kids \in Seq(Nat) BY TopType
  <1>2. "none" \in Labels /\ "none" \in ResultTokens \cup {"none"} BY DEF Labels
  <1>3. Record(k, x, "none", Top.kids, "none", Below, symTab) /\ visiting' = Below
        /\ UNCHANGED <<phase, fns, fnIdx>>
    BY DEF Finish
  <1> QED BY <1>1, <1>2, <1>3, QuietGood

(* An operand's visit begins.                                              *)
LEMMA BeginGood ==
    ASSUME Good, phase = "typecheck", visiting # <<>>,
           NEW k \in FrameKinds \ BlockKinds, k # "forhdr", k # "call",
           k \in StmtKinds => IsBlock(Top),
           NEW x \in Names \cup {NoName}, NEW op \in Labels \cup TypeTokens \cup {"Err"},
           NEW proto \in Nat, k = "arraydecl" => x \in Names, k # "assign" => op \in Labels,
           Visit(k, x, op, proto)
    PROVE  Good' /\ Kind
  BY VisitScope

LEMMA RejectGood ==
    ASSUME Good, Reject
    PROVE  Good' /\ Kind
  BY StopScope DEF Reject, Endings

-----------------------------------------------------------------------------
(* Blocks.                                                                 *)

LEMMA ChainFacts ==
    ASSUME Good, phase = "typecheck"
    PROVE  /\ symTab \in Chains /\ Len(symTab) \in Nat /\ Len(symTab) >= 1
           /\ symTab[1] = FnTable /\ Unshadowed(symTab) /\ ProtosIn(symTab, fns)
  BY LenProperties
  DEF Good, TcGood, TcTyped, Chains, ScopeInv, TrailInv, NoShadowing, Unshadowed, ProtoInv

(* A block is entered in the scope its statement is in, the block on top   *)
(* being its own or the one around a condition just visited.               *)
LEMMA EnterBlockGood ==
    ASSUME Good, phase = "typecheck", visiting # <<>>,
           NEW n \in NodeKinds, NEW block \in BlockKinds \ {"body"},
           NEW x \in Names \cup {NoName}, NEW op \in Labels, NEW kids \in Seq(Nat),
           n \notin DeclKinds, n # "fn",
           NEW vs \in Seq(Frames), EnterBlock(vs, n, block, x, op, kids, symTab),
           VisitsGood(vs, ast, fns, phase), SeesLive(n, vs),
           NEW m \in 1..Len(visiting), IsBlock(visiting[m]), Len(vs) = m, Kept(m, vs),
           Len(visiting) = m \/ (Len(visiting) = m + 1 /\ ~IsBlock(visiting[m + 1])),
           block = "for" <=> (Len(visiting) = m + 1 /\ visiting[m + 1].k = "forhdr")
    PROVE  Good' /\ Kind
  <1>1. /\ visiting \in Seq(Frames) /\ Len(visiting) \in Nat /\ StackInv /\ DepthInv
    BY LenProperties DEF Good, TcGood, TcTyped, ScopeInv
  <1>2. visiting[m].base \in Nat BY <1>1, FrameBase
  <1>3. Innermost(m) BY <1>1 DEF Innermost
  <1>4. Len(symTab) + 1 = visiting[m].base + (IF block = "for" THEN 2 ELSE 1)
    <2>1. Len(symTab) = visiting[m].base + (IF InHeader(m) THEN 1 ELSE 0)
      BY <1>1, <1>3 DEF DepthInv
    <2>2. InHeader(m) <=> block = "for" BY <1>1 DEF InHeader
    <2> QED BY <1>2, <2>1, <2>2
  <1>5. /\ symTab \in Chains /\ Len(symTab) \in Nat /\ Len(symTab) >= 1
        /\ symTab[1] = FnTable /\ Unshadowed(symTab) /\ ProtosIn(symTab, fns)
    BY ChainFacts
  <1>6. \A L \in 1..Len(symTab) : L <= Len(symTab) BY <1>5
  <1>7. \A j \in 1..Len(visiting) : IsBlock(visiting[j]) => j <= m BY <1>1
  <1> QED BY <1>4, <1>5, <1>6, <1>7, OpenScopeGood

LEMMA VisitStmtBlockGood ==
    ASSUME Good, VisitStmtBlock
    PROVE  Good' /\ Kind
  <1>1. /\ phase = "typecheck" /\ visiting # <<>> /\ IsBlock(Top)
        /\ EnterBlock(Noted(visiting, "bare"), "bare", "bare", NoName, "none", <<>>, symTab)
    BY DEF VisitStmtBlock, AtStmt, IsBlock
  <1> PICK m \in Nat :
              /\ Len(visiting) = m /\ m \in 1..Len(visiting) /\ Base(visiting, m)
              /\ visiting[m] = Top /\ Kept(m, visiting)
              /\ visiting \in Seq(Frames) /\ VisitsGood(visiting, ast, fns, phase)
    BY <1>1, TopBase
  <1> DEFINE ws == Noted(visiting, "bare")
  <1>2. /\ "bare" \in NodeKinds /\ "bare" \in BlockKinds \ {"body"} /\ "bare" \notin DeclKinds
        /\ NoName \in Names \cup {NoName} /\ "none" \in Labels /\ <<>> \in Seq(Nat)
        /\ "bare" \in NodeKinds \cup FrameKinds /\ SeesLive("bare", ws)
    BY EmptySeq DEF NodeKinds, BlockKinds, DeclKinds, Labels, SeesLive, Lookups
  <1>3. Marks(visiting, ws) /\ Keeps(visiting, ws) BY <1>1, <1>2, NotedMarks
  <1>4. ws \in Seq(Frames) /\ Len(ws) = m /\ Kept(m, ws) BY <1>3, MarksKept
  <1>5. Extends(ast, ast) BY LenProperties DEF Good, TcGood, TcTyped, Extends
  <1>6. VisitsGood(ws, ast, fns, phase) BY <1>3, <1>4, <1>5, VisitsStayGood
  <1>7. Len(visiting) # m + 1 OBVIOUS
  <1> HIDE DEF ws
  <1>8. EnterBlock(ws, "bare", "bare", NoName, "none", <<>>, symTab) BY <1>1 DEF ws
  <1> QED BY <1>1, <1>2, <1>4, <1>6, <1>7, <1>8, EnterBlockGood

(* The block of an if, a while or a for.                                   *)
LEMMA EnterBelowGood ==
    ASSUME Good, phase = "typecheck", visiting # <<>>,
           Top.k \in {"ifcond", "whilecond", "forhdr"},
           NEW n \in {"if", "whilebody", "for"}, NEW block \in {"then", "while", "for"},
           NEW x \in Names \cup {NoName}, NEW op \in Labels,
           block = "for" <=> Top.k = "forhdr",
           EnterBlock(Below, n, block, x, op, Top.kids, symTab)
    PROVE  Good' /\ Kind
  <1>1. ~IsBlock(Top) /\ Top.k \in StmtKinds BY DEF IsBlock, BlockKinds, StmtKinds
  <1> PICK m \in Nat :
              /\ Base(Below, m) /\ m \in 1..Len(visiting) /\ Len(visiting) = m + 1
              /\ visiting[m + 1] = Top
              /\ Below \in Seq(Frames) /\ Below # <<>> /\ Len(Below) = m /\ Kept(m, Below)
              /\ VisitsGood(Below, ast, fns, phase) /\ Last(Below) = visiting[m]
              /\ Top.k \in StmtKinds => IsBlock(visiting[m])
    BY <1>1, BelowBase
  <1>2. Top.kids \in Seq(Nat) BY TopType
  <1>3. n \in NodeKinds /\ n \notin DeclKinds /\ n # "fn" /\ block \in BlockKinds \ {"body"}
    BY DEF NodeKinds, DeclKinds, BlockKinds
  <1>4. SeesLive(n, Below) BY LookupLive DEF SeesLive
  <1> QED BY <1>1, <1>2, <1>3, <1>4, EnterBlockGood

LEMMA LeaveStmtBlockGood ==
    ASSUME Good, LeaveStmtBlock
    PROVE  Good' /\ Kind
  <1>1. phase = "typecheck" /\ visiting # <<>> BY DEF LeaveStmtBlock
  <1>2. CASE /\ Top.k \in BlockKinds \ {"body"} /\ Top.op # "else"
             /\ Record("end", NoName, Top.k, <<>>, "none", Below,
                       LeaveScopes(symTab, IF Top.k = "for" THEN 2 ELSE 1))
             /\ visiting' = Below
             /\ UNCHANGED <<phase, fns, fnIdx>>
    <2>1. IsBlock(Top) /\ Top.k # "body" BY <1>2 DEF IsBlock
    <2> QED BY <1>1, <1>2, <2>1, CloseScopeGood
  <1>3. CASE /\ Top.k = "then" /\ Top.op = "else"
             /\ EnterBlock(Below, "else", "else", NoName, "none", <<>>, LeaveScope(symTab))
    <2>1. IsBlock(Top) /\ Top.k # "body" /\ Top.k # "for" BY <1>3 DEF IsBlock, BlockKinds
    <2> PICK m \in 1..Len(visiting) :
              /\ m \in Nat /\ m >= 1 /\ Len(visiting) = m + 1 /\ visiting[m + 1] = Top
              /\ m + 1 \in 1..Len(visiting) /\ IsBlock(visiting[m])
              /\ Below \in Seq(Frames) /\ Len(Below) = m /\ Kept(m, Below)
              /\ VisitsGood(Below, ast, fns, phase)
              /\ visiting[m].base \in Nat /\ visiting[m].base >= 4
              /\ Top.base = visiting[m].base + (IF Top.k = "for" THEN 2 ELSE 1)
              /\ Len(symTab) = Top.base
      BY <1>1, <2>1, InnerBlock
    <2>2. 1 \in 1..Len(symTab) /\ Len(symTab) - 1 = visiting[m].base
          /\ Len(symTab) - 1 < visiting[m + 1].base
      BY <2>1
    <2> DEFINE st == LeaveScopes(symTab, 1)
    <2>3. LeaveScope(symTab) = st BY DEF LeaveScope, LeaveScopes
    <2>4. /\ st \in Chains /\ Len(st) = Len(symTab) - 1
          /\ \A L \in 1..(Len(symTab) - 1) :
                 /\ st[L] = symTab[L] /\ L <= Len(symTab)
                 /\ \A j \in 1..Len(visiting) :
                       IsBlock(visiting[j]) /\ visiting[j].base <= L => j <= m
          /\ Unshadowed(st) /\ ProtosIn(st, fns)
          /\ Len(symTab) - 1 >= 1 => st[1] = FnTable
      BY <1>1, <2>1, <2>2, LeftScopes
    <2> HIDE DEF st
    <2>5. Len(st) >= 1 /\ Len(st) = visiting[m].base /\ st[1] = FnTable
      BY <2>2, <2>4
    <2>6. /\ "else" \in NodeKinds /\ "else" \in BlockKinds \ {"body"} /\ "else" \notin DeclKinds
          /\ NoName \in Names \cup {NoName} /\ "none" \in Labels /\ <<>> \in Seq(Nat)
          /\ SeesLive("else", Below)
      BY EmptySeq DEF NodeKinds, BlockKinds, DeclKinds, Labels, SeesLive, Lookups
    <2>7. EnterBlock(Below, "else", "else", NoName, "none", <<>>, st) BY <1>3, <2>3
    <2>8. \A L \in 1..Len(st) : /\ L <= Len(symTab) /\ st[L] = symTab[L]
                                /\ \A j \in 1..Len(visiting) :
                                       IsBlock(visiting[j]) /\ visiting[j].base <= L => j <= m
      BY <2>4
    <2>9. Len(st) + 1 = visiting[m].base + (IF "else" = "for" THEN 2 ELSE 1) BY <2>5
    <2> QED BY <1>1, <2>4, <2>5, <2>6, <2>7, <2>8, <2>9, OpenScopeGood
  <1> QED BY <1>2, <1>3 DEF LeaveStmtBlock

LEMMA BlockGood ==
    ASSUME Good, TypecheckBlock
    PROVE  Good' /\ Kind
  <1>1. CASE VisitStmtBlock BY <1>1, VisitStmtBlockGood
  <1>2. CASE LeaveStmtBlock BY <1>2, LeaveStmtBlockGood
  <1>3. CASE VisitIf
    <2>1. PICK op \in {"else", "none"} : Visit("ifcond", NoName, op, 0) BY <1>3 DEF VisitIf
    <2>2. phase = "typecheck" /\ visiting # <<>> /\ IsBlock(Top)
      BY <1>3 DEF VisitIf, AtStmt, IsBlock
    <2>3. /\ "ifcond" \in FrameKinds \ BlockKinds /\ op \in Labels
          /\ op \in Labels \cup TypeTokens \cup {"Err"}
      BY DEF FrameKinds, BlockKinds, StmtKinds, Labels
    <2> QED BY <2>1, <2>2, <2>3, BeginGood
  <1>4. CASE EnterThen
    <2>1. phase = "typecheck" /\ visiting # <<>> /\ Top.k = "ifcond"
          /\ EnterBlock(Below, "if", "then", NoName, Top.op, Top.kids, symTab)
      BY <1>4 DEF EnterThen, Visited
    <2>2. Top.op \in Labels BY <2>1, TopType DEF FrameGood
    <2> QED BY <2>1, <2>2, EnterBelowGood
  <1>5. CASE VisitWhile
    <2>1. phase = "typecheck" /\ visiting # <<>> /\ IsBlock(Top)
          /\ Record("while", NoName, "none", <<>>, "none", visiting, symTab)
          /\ visiting' = Append(Noted(visiting, "while"), Frame("whilecond", NoName, "none", 0, 0))
          /\ UNCHANGED <<phase, fns, fnIdx>>
      BY <1>5 DEF VisitWhile, AtStmt, IsBlock
    <2> PICK m \in Nat :
              /\ Len(visiting) = m /\ m \in 1..Len(visiting) /\ Base(visiting, m)
              /\ visiting[m] = Top /\ Kept(m, visiting)
              /\ visiting \in Seq(Frames) /\ VisitsGood(visiting, ast, fns, phase)
      BY <2>1, TopBase
    <2> DEFINE ws == Noted(visiting, "while")
               f  == Frame("whilecond", NoName, "none", 0, 0)
               V  == Append(ws, f)
    <2>2. /\ "while" \in NodeKinds /\ "while" \notin DeclKinds
          /\ "while" \in NodeKinds \cup FrameKinds /\ "whilecond" \in FrameKinds
          /\ NoName \in Names \cup {NoName} /\ "none" \in Labels /\ <<>> \in Seq(Nat)
          /\ "none" \in Labels \cup TypeTokens \cup {"Err"}
          /\ "none" \in ResultTokens \cup {"none"}
      BY EmptySeq DEF NodeKinds, DeclKinds, Labels, FrameKinds, StmtKinds
    <2>3. Marks(visiting, ws) /\ Keeps(visiting, ws) BY <2>1, <2>2, NotedMarks
    <2>4. ws \in Seq(Frames) /\ Len(ws) = m /\ Kept(m, ws) BY <2>3, MarksKept
    <2>5. Extends(ast, ast) BY LenProperties DEF Good, TcGood, TcTyped, Extends
    <2>6. VisitsGood(ws, ast, fns, phase) BY <2>3, <2>4, <2>5, VisitsStayGood
    <2>7. f \in Frames /\ FrameGood(f, ast, fns, phase) BY <2>2, NewFrameGood
    <2>8. f.k = "whilecond" BY DEF Frame
    <2> HIDE DEF ws, f
    <2>9. V \in Seq(Frames) /\ VisitsGood(V, ast, fns, phase) BY <2>4, <2>6, <2>7, PushGood
    <2>10. Len(V) = m + 1 /\ V[m + 1] = f /\ \A i \in 1..m : V[i] = ws[i]
      BY <2>4, <2>7, PushLemma
    <2>11. visiting' = V BY <2>1 DEF ws, f
    <2> HIDE DEF V
    <2>12. Kept(m, V) BY <2>4, <2>10 DEF Kept
    <2>13. ~IsBlock(V[m + 1]) /\ V[m + 1].k # "forhdr" /\ Len(visiting) # m + 1
      BY <2>8, <2>10 DEF IsBlock, BlockKinds
    <2> QED BY <2>1, <2>2, <2>9, <2>10, <2>11, <2>12, <2>13, QuietGood
  <1>6. CASE EnterWhileBody
    <2>1. phase = "typecheck" /\ visiting # <<>> /\ Top.k = "whilecond"
          /\ EnterBlock(Below, "whilebody", "while", NoName, "none", Top.kids, symTab)
      BY <1>6 DEF EnterWhileBody, Visited
    <2> QED BY <2>1, EnterBelowGood DEF Labels
  <1>7. CASE VisitFor
    <2>1. PICK x \in Names \cup {NoName} :
         IF x = NoName \/ ~CanAdd(symTab, x) THEN Reject
         ELSE /\ Record("forvar", x, "none", <<>>, "Type_int", visiting,
                        Add(EnterScope(symTab), x, VarInfo("Type_int", DeclAt(Len(ast) + 1))))
              /\ visiting' = Append(Noted(visiting, "for"),
                                    [Frame("forhdr", x, "none", 0, 0) EXCEPT
                                       !.kids = <<Len(ast) + 1>>])
              /\ UNCHANGED <<phase, fns, fnIdx>>
      BY <1>7 DEF VisitFor
    <2>2. CASE x = NoName \/ ~CanAdd(symTab, x) BY <2>1, <2>2, RejectGood
    <2>3. CASE ~(x = NoName \/ ~CanAdd(symTab, x))
      <3>1. phase = "typecheck" /\ visiting # <<>> /\ IsBlock(Top)
        BY <1>7 DEF VisitFor, AtStmt, IsBlock
      <3>2. x \in Names /\ ~Declares(symTab, x) BY <2>3 DEF CanAdd
      <3> QED BY <2>1, <2>3, <3>1, <3>2, HeaderGood
    <2> QED BY <2>2, <2>3
  <1>8. CASE EnterForBody
    <2>1. phase = "typecheck" /\ visiting # <<>> /\ Top.k = "forhdr" /\ Len(Top.kids) = Arity(Top)
          /\ EnterBlock(Below, "for", "for", IdName(Top.kids[2]), "none", Top.kids, symTab)
      BY <1>8 DEF EnterForBody, Visited
    <2>2. IdName(Top.kids[2]) \in Names \cup {NoName}
      <3>1. Len(Top.kids) = 2 BY <2>1 DEF Arity
      <3>2. Top.kids \in Seq(1..Len(ast)) BY <2>1, TopType
      <3>3. Top.kids[2] \in 1..Len(ast) BY <3>1, <3>2, ElementOfSeq
      <3>4. ast[Top.kids[2]] \in Nodes BY <3>3, ElementOfSeq DEF Good, TcGood, TcTyped
      <3> QED BY <3>4 DEF IdName, Nodes
    <2> QED BY <2>1, <2>2, EnterBelowGood DEF Labels
  <1> QED BY <1>1, <1>2, <1>3, <1>4, <1>5, <1>6, <1>7, <1>8 DEF TypecheckBlock

-----------------------------------------------------------------------------
(* Simple statements.                                                      *)

(* What getEnclosingFnProto returns is a number, found or not.             *)
LEMMA EnclosingProto ==
    ASSUME NEW c \in Chains
    PROVE  getEnclosingFnProto(c) \in Nat
  <1> DEFINE L == CHOOSE L \in FnScopes(c) : \A M \in FnScopes(c) : M <= L
             n == CHOOSE n \in LilfnNames \cup {FnMarker} : OnlyKey(c[L], n)
  <1>1. CASE FnScopes(c) = {} BY <1>1 DEF getEnclosingFnProto
  <1>2. CASE FnScopes(c) # {}
    <2>1. Len(c) \in Nat BY LenProperties DEF Chains
    <2>2. FnScopes(c) \subseteq 0..Len(c) /\ FnScopes(c) \subseteq 1..Len(c)
      BY <2>1 DEF FnScopes
    <2>3. \E M \in FnScopes(c) : \A N \in FnScopes(c) : N <= M BY <1>2, <2>1, <2>2, LargestOf
    <2>4. L \in FnScopes(c) BY <2>3
    <2>5. IsFnScope(c[L]) /\ L \in 1..Len(c) BY <2>2, <2>4 DEF FnScopes
    <2> HIDE DEF L
    <2>6. n \in LilfnNames \cup {FnMarker} BY <2>5 DEF IsFnScope
    <2>7. n \in Keys BY <2>6, NamesAssumption DEF Keys
    <2> HIDE DEF n
    <2>8. c[L] \in Tables BY <2>5, ElementOfSeq DEF Chains, Tables
    <2>9. c[L][n] \in SymbolInfo BY <2>7, <2>8 DEF Tables
    <2>10. c[L][n].proto \in Nat BY <2>9 DEF SymbolInfo
    <2> QED BY <1>2, <2>10 DEF getEnclosingFnProto, L, n
  <1> QED BY <1>1, <1>2

LEMMA VarDeclGood ==
    ASSUME Good, VisitVarDecl
    PROVE  Good' /\ Kind
  <1>1. phase = "typecheck" /\ visiting # <<>> /\ IsBlock(Top)
    BY DEF VisitVarDecl, AtStmt, IsBlock
  <1>2. PICK x \in Names, type \in VarTypes :
         IF ~CanAdd(symTab, x) THEN Reject
         ELSE /\ Record("vardecl", x, "none", <<>>, type, visiting,
                        Add(symTab, x, VarInfo(type, DeclAt(Len(ast) + 1))))
              /\ visiting' = Noted(visiting, "vardecl")
              /\ UNCHANGED <<phase, fns, fnIdx>>
    BY DEF VisitVarDecl
  <1>3. CASE ~CanAdd(symTab, x) BY <1>2, <1>3, RejectGood
  <1>4. CASE CanAdd(symTab, x)
    <2> PICK m \in Nat :
              /\ Len(visiting) = m /\ m \in 1..Len(visiting) /\ Base(visiting, m)
              /\ visiting[m] = Top /\ Kept(m, visiting)
              /\ visiting \in Seq(Frames) /\ VisitsGood(visiting, ast, fns, phase)
      BY <1>1, TopBase
    <2> DEFINE ws == Noted(visiting, "vardecl")
    <2>1. /\ "vardecl" \in NodeKinds \cup FrameKinds /\ <<>> \in Seq(Nat)
          /\ type \in TypeTokens
      BY EmptySeq, VarTypesAssumption DEF NodeKinds, VarTokens
    <2>2. Marks(visiting, ws) /\ Keeps(visiting, ws) BY <1>1, <2>1, NotedMarks
    <2>3. ws \in Seq(Frames) /\ Len(ws) = m /\ Kept(m, ws) BY <2>2, MarksKept
    <2>4. Extends(ast, ast) BY LenProperties DEF Good, TcGood, TcTyped, Extends
    <2>5. VisitsGood(ws, ast, fns, phase) BY <2>2, <2>3, <2>4, VisitsStayGood
    <2>6. Len(visiting) # m + 1 /\ ~Declares(symTab, x) BY <1>4 DEF CanAdd
    <2>7. Record("vardecl", x, "none", <<>>, type, visiting,
                 Add(symTab, x, VarInfo(type, DeclAt(Len(ast) + 1))))
          /\ visiting' = ws /\ UNCHANGED <<phase, fns, fnIdx>>
      BY <1>2, <1>4
    <2> HIDE DEF ws
    <2> QED BY <1>1, <2>1, <2>3, <2>5, <2>6, <2>7, DeclareGood
  <1> QED BY <1>3, <1>4

LEMMA ArrayDeclGood ==
    ASSUME Good, FinishArrayDecl
    PROVE  Good' /\ Kind
  <1>1. phase = "typecheck" /\ visiting # <<>> /\ Top.k = "arraydecl"
    BY DEF FinishArrayDecl, Visited
  <1>2. CASE ~CanAdd(symTab, Top.x) BY <1>2, RejectGood DEF FinishArrayDecl
  <1>3. CASE CanAdd(symTab, Top.x)
    <2>1. ~IsBlock(Top) /\ Top.k # "forhdr" /\ Top.k \in StmtKinds
      BY <1>1 DEF IsBlock, BlockKinds, StmtKinds
    <2> PICK m \in Nat :
              /\ Base(Below, m) /\ m \in 1..Len(visiting) /\ Len(visiting) = m + 1
              /\ visiting[m + 1] = Top
              /\ Below \in Seq(Frames) /\ Below # <<>> /\ Len(Below) = m /\ Kept(m, Below)
              /\ VisitsGood(Below, ast, fns, phase) /\ Last(Below) = visiting[m]
              /\ Top.k \in StmtKinds => IsBlock(visiting[m])
      BY <1>1, <2>1, BelowBase
    <2>2. Top.kids \in Seq(Nat) /\ Top.x \in Names BY <1>1, TopType DEF FrameGood
    <2>3. Record("arraydecl", Top.x, "none", Top.kids, "Type_array", Below,
                 Add(symTab, Top.x, VarInfo("Type_array", DeclAt(Len(ast) + 1))))
          /\ visiting' = Below /\ UNCHANGED <<phase, fns, fnIdx>>
      BY <1>3 DEF FinishArrayDecl, Finish
    <2>4. "Type_array" \in TypeTokens /\ ~Declares(symTab, Top.x)
      BY <1>3 DEF TypeTokens, CanAdd
    <2> QED BY <1>1, <2>1, <2>2, <2>3, <2>4, DeclareGood
  <1> QED BY <1>2, <1>3

LEMMA ReturnGood ==
    ASSUME Good, VisitReturn
    PROVE  Good' /\ Kind
  <1> DEFINE p == getEnclosingFnProto(symTab)
  <1>1. phase = "typecheck" /\ visiting # <<>> /\ IsBlock(Top)
    BY DEF VisitReturn, AtStmt, IsBlock
  <1>2. p \in Nat BY <1>1, ChainFacts, EnclosingProto
  <1>3. CASE Stop("assertFnProto") BY <1>3, StopScope DEF Endings
  <1>4. CASE Visit("return", NoName, "none", p)
    <2>1. /\ "return" \in FrameKinds \ BlockKinds /\ "none" \in Labels
          /\ "none" \in Labels \cup TypeTokens \cup {"Err"} /\ NoName \in Names \cup {NoName}
      BY DEF FrameKinds, BlockKinds, StmtKinds, Labels
    <2> HIDE DEF p
    <2> QED BY <1>1, <1>2, <1>4, <2>1, BeginGood
  <1>5. CASE Reject BY <1>5, RejectGood
  <1>6. CASE /\ Record("return", NoName, "none", <<>>, "none", visiting, symTab)
             /\ visiting' = Returned(Noted(visiting, "return"))
             /\ UNCHANGED <<phase, fns, fnIdx>>
    <2> PICK m \in Nat :
              /\ Len(visiting) = m /\ m \in 1..Len(visiting) /\ Base(visiting, m)
              /\ visiting[m] = Top /\ Kept(m, visiting)
              /\ visiting \in Seq(Frames) /\ VisitsGood(visiting, ast, fns, phase)
      BY <1>1, TopBase
    <2> DEFINE ws == Noted(visiting, "return")
               V  == Returned(ws)
    <2>1. /\ "return" \in NodeKinds \cup FrameKinds /\ <<>> \in Seq(Nat) /\ "return" \in NodeKinds
          /\ "return" \notin DeclKinds /\ "none" \in Labels /\ "none" \in ResultTokens \cup {"none"}
          /\ NoName \in Names \cup {NoName}
      BY EmptySeq DEF NodeKinds, DeclKinds, Labels
    <2>2. Marks(visiting, ws) /\ Keeps(visiting, ws) BY <1>1, <2>1, NotedMarks
    <2>3. ws \in Seq(Frames) /\ Len(ws) = m /\ ws # <<>>
      BY <2>2, EmptySeq DEF Marks
    <2> HIDE DEF ws
    <2>4. Marks(ws, V) /\ Keeps(ws, V) BY <2>3, ReturnedMarks
    <2>5. V \in Seq(Frames) /\ Len(V) = m /\ Kept(m, V)
      BY <2>2, <2>3, <2>4 DEF Marks, Kept
    <2>6. Extends(ast, ast) BY LenProperties DEF Good, TcGood, TcTyped, Extends
    <2>7. VisitsGood(ws, ast, fns, phase) BY <2>2, <2>3, <2>6, VisitsStayGood
    <2>8. VisitsGood(V, ast, fns, phase) BY <2>3, <2>4, <2>5, <2>6, <2>7, VisitsStayGood
    <2>9. visiting' = V /\ Len(visiting) # m + 1 BY <1>6 DEF ws
    <2> HIDE DEF V
    <2> QED BY <1>1, <1>6, <2>1, <2>5, <2>8, <2>9, QuietGood
  <1> QED BY <1>3, <1>4, <1>5, <1>6 DEF VisitReturn

LEMMA FinishReturnGood ==
    ASSUME Good, FinishReturn
    PROVE  Good' /\ Kind
  <1>1. /\ phase = "typecheck" /\ visiting # <<>> /\ Top.k = "return"
        /\ Record("return", NoName, "none", Top.kids, "none", Below, symTab)
        /\ visiting' = Returned(Below)
        /\ UNCHANGED <<phase, fns, fnIdx>>
    BY DEF FinishReturn, Visited
  <1>2. ~IsBlock(Top) /\ Top.k # "forhdr" /\ Top.k \in StmtKinds
    BY <1>1 DEF IsBlock, BlockKinds, StmtKinds
  <1> PICK m \in Nat :
              /\ Base(Below, m) /\ m \in 1..Len(visiting) /\ Len(visiting) = m + 1
              /\ visiting[m + 1] = Top
              /\ Below \in Seq(Frames) /\ Below # <<>> /\ Len(Below) = m /\ Kept(m, Below)
              /\ VisitsGood(Below, ast, fns, phase) /\ Last(Below) = visiting[m]
              /\ Top.k \in StmtKinds => IsBlock(visiting[m])
    BY <1>1, <1>2, BelowBase
  <1> DEFINE V == Returned(Below)
  <1>3. Marks(Below, V) /\ Keeps(Below, V) BY ReturnedMarks
  <1>4. V \in Seq(Frames) /\ Len(V) = m /\ Kept(m, V) BY <1>3 DEF Marks, Kept
  <1>5. Extends(ast, ast) BY LenProperties DEF Good, TcGood, TcTyped, Extends
  <1>6. VisitsGood(V, ast, fns, phase) BY <1>3, <1>4, <1>5, VisitsStayGood
  <1>7. /\ "return" \in NodeKinds /\ "return" \notin DeclKinds /\ "none" \in Labels
        /\ "none" \in ResultTokens \cup {"none"} /\ NoName \in Names \cup {NoName}
        /\ Top.kids \in Seq(Nat)
    BY <1>1, TopType DEF NodeKinds, DeclKinds, Labels
  <1>8. visiting' = V /\ visiting[m + 1].k # "forhdr" BY <1>1, <1>2
  <1> HIDE DEF V
  <1> QED BY <1>1, <1>4, <1>6, <1>7, <1>8, QuietGood

(* The assignment x[idx] := e goes from its index to its value.            *)
LEMMA ArrayAssignmentRhsGood ==
    ASSUME Good, VisitArrayAssignmentRhs
    PROVE  Good' /\ Kind
  <1>1. /\ phase = "typecheck" /\ visiting # <<>> /\ Top.k = "elemaddr"
        /\ Record("elemaddr", Top.x, "none", Top.kids, "none", Below, symTab)
        /\ visiting' = Append(Below, [Top EXCEPT !.k = "elemassign"])
        /\ UNCHANGED <<phase, fns, fnIdx>>
    BY DEF VisitArrayAssignmentRhs, Visited
  <1>2. ~IsBlock(Top) /\ Top.k # "forhdr" /\ Top.k \in StmtKinds
    BY <1>1 DEF IsBlock, BlockKinds, StmtKinds
  <1> PICK m \in Nat :
              /\ Base(Below, m) /\ m \in 1..Len(visiting) /\ Len(visiting) = m + 1
              /\ visiting[m + 1] = Top
              /\ Below \in Seq(Frames) /\ Below # <<>> /\ Len(Below) = m /\ Kept(m, Below)
              /\ VisitsGood(Below, ast, fns, phase) /\ Last(Below) = visiting[m]
              /\ Top.k \in StmtKinds => IsBlock(visiting[m])
    BY <1>1, <1>2, BelowBase
  <1> DEFINE f == [Top EXCEPT !.k = "elemassign"]
             V == Append(Below, f)
  <1>3. /\ Top \in Frames /\ FrameGood(Top, ast, fns, phase)
        /\ Top.x \in Names \cup {NoName} /\ Top.kids \in Seq(Nat)
    BY <1>1, TopType
  <1>4. "elemassign" \in FrameKinds BY DEF FrameKinds, StmtKinds
  <1>5. f \in Frames /\ f.k = "elemassign" /\ f.kids = Top.kids /\ f.op = Top.op
    BY <1>3, <1>4 DEF Frames
  <1> HIDE DEF f
  <1>6. FrameGood(f, ast, fns, phase) BY <1>1, <1>3, <1>5 DEF FrameGood
  <1>7. V \in Seq(Frames) /\ VisitsGood(V, ast, fns, phase) BY <1>5, <1>6, PushGood
  <1>8. Len(V) = m + 1 /\ V[m + 1] = f /\ \A i \in 1..m : V[i] = Below[i]
    BY <1>5, PushLemma
  <1>9. visiting' = V BY <1>1 DEF f
  <1> HIDE DEF V
  <1>10. Kept(m, V) BY <1>8 DEF Kept
  <1>11. ~IsBlock(V[m + 1]) /\ V[m + 1].k # "forhdr" /\ IsBlock(visiting[m])
    BY <1>2, <1>5, <1>8 DEF IsBlock, BlockKinds
  <1>12. /\ "elemaddr" \in NodeKinds /\ "elemaddr" \notin DeclKinds /\ "none" \in Labels
         /\ "none" \in ResultTokens \cup {"none"}
    BY DEF NodeKinds, DeclKinds, Labels
  <1> QED BY <1>1, <1>2, <1>3, <1>7, <1>8, <1>9, <1>10, <1>11, <1>12, QuietGood

(* A statement that has operands begins.                                   *)
LEMMA BeginStmtGood ==
    ASSUME Good, NEW kind, AtStmt(kind),
           NEW k \in {"arraydecl", "print", "abort", "assign", "elemaddr"},
           NEW x \in Names \cup {NoName}, k = "arraydecl" => x \in Names,
           NEW op \in Labels \cup TypeTokens \cup {"Err"}, k # "assign" => op \in Labels,
           Visit(k, x, op, 0)
    PROVE  Good' /\ Kind
  <1>1. phase = "typecheck" /\ visiting # <<>> /\ IsBlock(Top) BY DEF AtStmt, IsBlock
  <1>2. k \in FrameKinds \ BlockKinds /\ k # "forhdr" /\ k # "call"
    BY DEF FrameKinds, BlockKinds, StmtKinds
  <1> QED BY <1>1, <1>2, BeginGood

(* A statement that leaves the chain as it is ends.                        *)
LEMMA FinishStmtGood ==
    ASSUME Good, phase = "typecheck", visiting # <<>>,
           NEW k \in {"print", "abort", "assign", "elemassign"}, Top.k = k,
           NEW x \in Names \cup {NoName}, Finish(k, x, "none", Top.kids, "none", symTab)
    PROVE  Good' /\ Kind
  <1>1. ~IsBlock(Top) /\ Top.k # "forhdr" BY DEF IsBlock, BlockKinds
  <1>2. k \in NodeKinds /\ k \notin DeclKinds /\ k # "fn" BY DEF NodeKinds, DeclKinds
  <1> QED BY <1>1, <1>2, FinishGood

LEMMA StmtGood ==
    ASSUME Good, TypecheckStmt
    PROVE  Good' /\ Kind
  <1>0. "none" \in Labels /\ "none" \in Labels \cup TypeTokens \cup {"Err"}
        /\ NoName \in Names \cup {NoName}
    BY DEF Labels
  <1>1. CASE VisitVarDecl BY <1>1, VarDeclGood
  <1>2. CASE VisitArrayDecl BY <1>0, <1>2, BeginStmtGood DEF VisitArrayDecl
  <1>3. CASE FinishArrayDecl BY <1>3, ArrayDeclGood
  <1>4. CASE VisitPrint BY <1>0, <1>4, BeginStmtGood DEF VisitPrint
  <1>5. CASE FinishPrint BY <1>0, <1>5, FinishStmtGood DEF FinishPrint, Visited
  <1>6. CASE VisitAbort BY <1>0, <1>6, BeginStmtGood DEF VisitAbort
  <1>7. CASE FinishAbort BY <1>0, <1>7, FinishStmtGood DEF FinishAbort
  <1>8. CASE VisitReturn BY <1>8, ReturnGood
  <1>9. CASE FinishReturn BY <1>9, FinishReturnGood
  <1>10. CASE VisitVarAssignment
    <2>1. PICK x \in Names :
             IF ~Declares(symTab, x) THEN Reject
             ELSE Visit("assign", x, SymbolToTokenType(hasSymbol(symTab, x).type), 0)
      BY <1>10 DEF VisitVarAssignment
    <2>2. SymbolToTokenType(hasSymbol(symTab, x).type) \in Labels \cup TypeTokens \cup {"Err"}
      BY DEF SymbolToTokenType, TypeTokens
    <2>3. AtStmt("assign") BY <1>10 DEF VisitVarAssignment
    <2> QED BY <2>1, <2>2, <2>3, RejectGood, BeginStmtGood
  <1>11. CASE FinishVarAssignment
    <2>1. phase = "typecheck" /\ visiting # <<>> /\ Top.k = "assign"
          /\ Finish("assign", Top.x, "none", Top.kids, "none", symTab)
      BY <1>11 DEF FinishVarAssignment, Visited
    <2> QED BY <2>1, TopType, FinishStmtGood
  <1>12. CASE VisitArrayAssignment
    BY <1>0, <1>12, RejectGood, BeginStmtGood DEF VisitArrayAssignment
  <1>13. CASE VisitArrayAssignmentRhs BY <1>13, ArrayAssignmentRhsGood
  <1>14. CASE FinishArrayAssignment
    <2>1. phase = "typecheck" /\ visiting # <<>> /\ Top.k = "elemassign"
          /\ Finish("elemassign", Top.x, "none", Top.kids, "none", symTab)
      BY <1>14 DEF FinishArrayAssignment, Visited
    <2> QED BY <2>1, TopType, FinishStmtGood
  <1> QED BY <1>1, <1>2, <1>3, <1>4, <1>5, <1>6, <1>7, <1>8, <1>9, <1>10, <1>11, <1>12,
             <1>13, <1>14
          DEF TypecheckStmt

-----------------------------------------------------------------------------
(* Expressions.                                                            *)

LEMMA LeafGood ==
    ASSUME Good, TypecheckLeaf
    PROVE  Good' /\ Kind
  <1>1. ASSUME NEW k \in {"bool", "num", "input", "string"}, NEW ty \in ResultTokens,
               Leaf(k, NoName, ty)
        PROVE  Good' /\ Kind
    <2>1. phase = "typecheck" /\ visiting # <<>>
          /\ Deliver(visiting, k, NoName, "none", <<>>, ty)
      BY <1>1 DEF Leaf, AtExpr
    <2>2. k \in NodeKinds /\ k \notin DeclKinds /\ k # "fn"
      BY DEF NodeKinds, ExprKinds, DeclKinds
    <2> QED BY <2>1, <2>2, DeliverLeaf
  <1>2. CASE VisitTrueFalse BY <1>1, <1>2 DEF VisitTrueFalse, ResultTokens, TypeTokens
  <1>3. CASE VisitNum BY <1>1, <1>3 DEF VisitNum, ResultTokens, TypeTokens
  <1>4. CASE VisitInput BY <1>1, <1>4 DEF VisitInput, ResultTokens, TypeTokens
  <1>5. CASE VisitStringLiteral BY <1>1, <1>5 DEF VisitStringLiteral, ResultTokens
  <1>6. CASE VisitId
    <2>1. phase = "typecheck" /\ visiting # <<>> BY <1>6 DEF VisitId, AtExpr
    <2>2. PICK x \in Names :
            LET type == SymbolToTokenType(hasSymbol(symTab, x).type) IN
            IF ~Declares(symTab, x) THEN Reject
            ELSE IF ~CreatableValue(type) THEN Stop("assertValue")
            ELSE Deliver(visiting, "id", x, "none", <<>>, type)
      BY <1>6 DEF VisitId
    <2> DEFINE type == SymbolToTokenType(hasSymbol(symTab, x).type)
    <2>3. CASE ~Declares(symTab, x) BY <2>2, <2>3, RejectGood
    <2>4. CASE Declares(symTab, x) /\ ~CreatableValue(type)
      BY <2>2, <2>4, StopScope DEF Endings
    <2>5. CASE Declares(symTab, x) /\ CreatableValue(type)
      <3>1. Deliver(visiting, "id", x, "none", <<>>, type) BY <2>2, <2>5
      <3>2. type \in ResultTokens BY <2>5 DEF CreatableValue
      <3>3. "id" \in NodeKinds /\ "id" \notin DeclKinds BY DEF NodeKinds, ExprKinds, DeclKinds
      <3> HIDE DEF type
      <3> QED BY <2>1, <3>1, <3>2, <3>3, DeliverLeaf
    <2> QED BY <2>3, <2>4, <2>5
  <1> QED BY <1>2, <1>3, <1>4, <1>5, <1>6 DEF TypecheckLeaf

(* An expression that has operands begins.                                 *)
LEMMA BeginExprGood ==
    ASSUME Good, NEW kind, AtExpr(kind),
           NEW k \in {"ternary", "binop", "unary", "sizeof", "elem"},
           NEW x \in Names \cup {NoName}, NEW op \in Labels, Visit(k, x, op, 0)
    PROVE  Good' /\ Kind
  <1>1. phase = "typecheck" /\ visiting # <<>> BY DEF AtExpr
  <1>2. /\ k \in FrameKinds \ BlockKinds /\ k # "forhdr" /\ k # "call" /\ k \notin StmtKinds
        /\ op \in Labels \cup TypeTokens \cup {"Err"}
    BY DEF FrameKinds, BlockKinds, StmtKinds
  <1> QED BY <1>1, <1>2, BeginGood

(* It ends with a result ty, once it has all its operands.                 *)
LEMMA FinishExprGood ==
    ASSUME Good, NEW k \in {"ternary", "binop", "unary", "sizeof", "elem", "call"}, Visited(k),
           NEW x \in Names \cup {NoName}, NEW op \in Labels,
           NEW ty \in ResultTokens \cup {"none"}, Deliver(Below, k, x, op, Top.kids, ty)
    PROVE  Good' /\ Kind
  <1>1. phase = "typecheck" /\ visiting # <<>> /\ Top.k = k BY DEF Visited
  <1>2. ~IsBlock(Top) /\ Top.k # "forhdr" BY <1>1 DEF IsBlock, BlockKinds
  <1>3. k \in NodeKinds /\ k \notin DeclKinds /\ k # "fn" BY DEF NodeKinds, ExprKinds, DeclKinds
  <1>4. Top.kids \in Seq(Nat) BY <1>1, TopType
  <1> QED BY <1>1, <1>2, <1>3, <1>4, DeliverBelow

(* An operand has the type of some expression.                             *)
LEMMA OperandType ==
    ASSUME Good, visiting # <<>>, NEW i \in 1..Len(Top.kids)
    PROVE  Res(Top.kids[i]) \in ResultTokens \cup {"none"} /\ IdName(Top.kids[i]) \in Names \cup {NoName}
  <1>1. Top.kids \in Seq(1..Len(ast)) BY TopType
  <1>2. Top.kids[i] \in 1..Len(ast) BY <1>1, ElementOfSeq
  <1>3. ast[Top.kids[i]] \in Nodes BY <1>2, ElementOfSeq DEF Good, TcGood, TcTyped
  <1> QED BY <1>3 DEF Nodes, Res, IdName

LEMMA CompoundGood ==
    ASSUME Good, TypecheckCompound
    PROVE  Good' /\ Kind
  <1>0. "none" \in Labels /\ NoName \in Names \cup {NoName} BY DEF Labels
  <1>1. CASE VisitTernary BY <1>0, <1>1, BeginExprGood DEF VisitTernary
  <1>2. CASE FinishTernary
    <2>1. visiting # <<>> /\ Visited("ternary") /\ Len(Top.kids) = 3
          /\ Deliver(Below, "ternary", NoName, "none", Top.kids, Res(Top.kids[2]))
      BY <1>2 DEF FinishTernary, Visited, Arity
    <2>2. 2 \in 1..Len(Top.kids) BY <2>1
    <2> QED BY <1>0, <2>1, <2>2, OperandType, FinishExprGood
  <1>3. CASE VisitBinop
    <2>1. PICK op \in Ops : AtExpr("binop") /\ isBinOp(op) /\ Visit("binop", NoName, op, 0)
      BY <1>3 DEF VisitBinop
    <2>2. op \in Labels BY <2>1 DEF isBinOp, Labels
    <2> QED BY <1>0, <2>1, <2>2, BeginExprGood
  <1>4. CASE FinishBinop
    <2>1. phase = "typecheck" /\ visiting # <<>> /\ Visited("binop") /\ Len(Top.kids) = 2
          /\ Top.k = "binop"
          /\ Deliver(Below, "binop", NoName, Top.op, Top.kids,
                     BinopResult(Top.op, Res(Top.kids[1]), Res(Top.kids[2])))
      BY <1>4 DEF FinishBinop, Visited, Arity
    <2>2. FrameGood(Top, ast, fns, phase) BY <2>1, TopType
    <2>3. /\ Top.op \in Labels
          /\ BinopResult(Top.op, Res(Top.kids[1]), Res(Top.kids[2])) # "Err"
      BY <2>1, <2>2 DEF FrameGood, Res
    <2>4. BinopResult(Top.op, Res(Top.kids[1]), Res(Top.kids[2])) \in ResultTokens \cup {"none"}
      BY <2>3 DEF BinopResult, ResultTokens, TypeTokens
    <2> QED BY <1>0, <2>1, <2>3, <2>4, FinishExprGood
  <1>5. CASE VisitUnary
    <2>1. PICK op \in Ops : AtExpr("unary") /\ isUnaryOp(op) /\ Visit("unary", NoName, op, 0)
      BY <1>5 DEF VisitUnary
    <2>2. op \in Labels BY <2>1 DEF isUnaryOp, Labels
    <2> QED BY <1>0, <2>1, <2>2, BeginExprGood
  <1>6. CASE FinishUnary
    <2>1. visiting # <<>> /\ Visited("unary") /\ Len(Top.kids) = 1 /\ Top.k = "unary"
          /\ Deliver(Below, "unary", NoName, Top.op, Top.kids, Res(Top.kids[1]))
      BY <1>6 DEF FinishUnary, Visited, Arity
    <2>2. 1 \in 1..Len(Top.kids) /\ Top.op \in Labels BY <2>1, TopType DEF FrameGood
    <2> QED BY <1>0, <2>1, <2>2, OperandType, FinishExprGood
  <1>7. CASE VisitSizeof BY <1>0, <1>7, BeginExprGood DEF VisitSizeof
  <1>8. CASE FinishSizeof
    <2>1. visiting # <<>> /\ Visited("sizeof") /\ Len(Top.kids) = 1
          /\ Deliver(Below, "sizeof", IdName(Top.kids[1]), "none", Top.kids, "Type_int")
      BY <1>8 DEF FinishSizeof, Visited, Arity
    <2>2. 1 \in 1..Len(Top.kids) BY <2>1
    <2>3. "Type_int" \in ResultTokens \cup {"none"} BY DEF ResultTokens, TypeTokens
    <2> QED BY <1>0, <2>1, <2>2, <2>3, OperandType, FinishExprGood
  <1>9. CASE VisitArrayExpr BY <1>0, <1>9, BeginExprGood DEF VisitArrayExpr
  <1>10. CASE FinishArrayExpr
    <2>1. visiting # <<>> /\ Visited("elem")
          /\ Deliver(Below, "elem", Top.x, "none", Top.kids, "Type_int")
      BY <1>10 DEF FinishArrayExpr, Visited
    <2>2. "Type_int" \in ResultTokens \cup {"none"} BY DEF ResultTokens, TypeTokens
    <2> QED BY <1>0, <2>1, <2>2, TopType, FinishExprGood
  <1>11. CASE VisitFnCall
    <2>1. phase = "typecheck" /\ visiting # <<>> BY <1>11 DEF VisitFnCall, AtExpr
    <2>2. PICK x \in Names :
            \/ Reject
            \/ getFnProto(symTab, x) # 0 /\ Visit("call", x, "none", getFnProto(symTab, x))
      BY <1>11 DEF VisitFnCall
    <2>3. CASE Reject BY <2>3, RejectGood
    <2>4. CASE getFnProto(symTab, x) # 0 /\ Visit("call", x, "none", getFnProto(symTab, x))
      <3>1. /\ symTab \in Chains /\ Len(symTab) \in Nat /\ Len(symTab) >= 1
            /\ ProtosIn(symTab, fns)
        BY <2>1, ChainFacts
      <3>2. 1 \in 1..Len(symTab) /\ x \in Keys BY <3>1 DEF Keys
      <3>3. getFnProto(symTab, x) \in 1..Len(fns) BY <2>4, <3>1, <3>2 DEF getFnProto, ProtosIn
      <3>4. /\ "call" \in FrameKinds \ BlockKinds /\ "call" \notin StmtKinds
            /\ "none" \in Labels \cup TypeTokens \cup {"Err"}
        BY DEF FrameKinds, BlockKinds, StmtKinds, Labels
      <3>5. getFnProto(symTab, x) \in Nat
        <4>1. Len(fns) \in Nat BY LenProperties, ProtosAssumption DEF Good, TcGood, TcTyped
        <4> QED BY <3>3, <4>1
      <3> QED BY <1>0, <2>1, <2>4, <3>3, <3>4, <3>5, VisitScope
    <2> QED BY <2>2, <2>3, <2>4
  <1>12. CASE FinishFnCall
    <2>1. visiting # <<>> /\ Visited("call") /\ Top.k = "call"
          /\ Deliver(Below, "call", Top.x, "none", Top.kids, fns[Top.proto].type)
      BY <1>12 DEF FinishFnCall, Visited
    <2>2. FrameGood(Top, ast, fns, phase) /\ Top.x \in Names \cup {NoName} BY <2>1, TopType
    <2>3. Top.proto \in 1..Len(fns) BY <2>1, <2>2 DEF FrameGood
    <2>4. fns[Top.proto] \in Prototype
      BY <2>3, ProtosAssumption, ElementOfSeq DEF Good, TcGood, TcTyped
    <2>5. fns[Top.proto].type \in ResultTokens \cup {"none"}
      BY <2>4 DEF Prototype, ResultTokens
    <2> QED BY <1>0, <2>1, <2>2, <2>5, FinishExprGood
  <1> QED BY <1>1, <1>2, <1>3, <1>4, <1>5, <1>6, <1>7, <1>8, <1>9, <1>10, <1>11, <1>12
          DEF TypecheckCompound

-----------------------------------------------------------------------------
(* What any step of the typechecker does to the tree and the visits.       *)

LEMMA TypecheckInside ==
    ASSUME TypecheckBlock \/ TypecheckStmt \/ TypecheckLeaf \/ TypecheckCompound
    PROVE  visiting # <<>>
  <1>1. CASE TypecheckBlock
    BY <1>1 DEF TypecheckBlock, VisitStmtBlock, LeaveStmtBlock, VisitIf, EnterThen,
                VisitWhile, EnterWhileBody, VisitFor, EnterForBody, AtStmt, Visited
  <1>2. CASE TypecheckStmt
    BY <1>2 DEF TypecheckStmt, VisitVarDecl, VisitArrayDecl, FinishArrayDecl, VisitPrint,
                FinishPrint, VisitAbort, FinishAbort, VisitReturn, FinishReturn,
                VisitVarAssignment, FinishVarAssignment, VisitArrayAssignment,
                VisitArrayAssignmentRhs, FinishArrayAssignment, AtStmt, Visited
  <1>3. CASE TypecheckLeaf
    BY <1>3 DEF TypecheckLeaf, VisitTrueFalse, VisitNum, VisitInput, VisitStringLiteral,
                VisitId, Leaf, AtExpr
  <1>4. CASE TypecheckCompound
    BY <1>4 DEF TypecheckCompound, VisitTernary, FinishTernary, VisitBinop, FinishBinop,
                VisitUnary, FinishUnary, VisitSizeof, FinishSizeof, VisitArrayExpr,
                FinishArrayExpr, VisitFnCall, FinishFnCall, AtExpr, Visited
  <1> QED BY <1>1, <1>2, <1>3, <1>4

LEMMA Growth ==
    ASSUME Good, Good', NEW k, NEW x, NEW op, NEW kids, NEW res, NEW vs, NEW st,
           Record(k, x, op, kids, res, vs, st)
    PROVE  /\ Extends(ast, ast') /\ Len(ast) \in Nat /\ Len(ast') = Len(ast) + 1
           /\ ast'[Len(ast) + 1] = Node(k, x, op, kids, res, IsLive(vs))
           /\ \A i \in 1..Len(trail) : trail'[i] = trail[i]
  <1> DEFINE n == Node(k, x, op, kids, res, IsLive(vs))
             S == Nodes \cup {n}
  <1>1. ast' = Append(ast, n) /\ trail' = Append(trail, st) /\ symTab' = st BY DEF Record
  <1>2. ast \in Seq(Nodes) /\ trail \in Seq(Chains) /\ st \in Chains
    BY <1>1 DEF Good, TcGood, TcTyped
  <1> HIDE DEF n
  <1>3. Nodes \subseteq S /\ n \in S OBVIOUS
  <1> HIDE DEF S
  <1>4. ast \in Seq(S) BY <1>2, <1>3, SeqMonotonic
  <1>5. /\ Len(ast) \in Nat /\ Len(ast') = Len(ast) + 1
        /\ \A i \in 1..Len(ast) : ast'[i] = ast[i]
        /\ ast'[Len(ast) + 1] = n
    BY <1>1, <1>3, <1>4, PushLemma
  <1>6. \A i \in 1..Len(trail) : trail'[i] = trail[i] BY <1>1, <1>2, PushLemma
  <1>7. Extends(ast, ast') BY <1>5 DEF Extends
  <1> QED BY <1>5, <1>6, <1>7 DEF n

-----------------------------------------------------------------------------
(* The blocks open: what the typechecker's visits do to them.              *)

AreBlocks(vs) == \A j \in 1..Len(vs) : IsBlock(vs[j])

LEMMA StateType ==
    ASSUME NEW f
    PROVE  StateOf(f) \in BlockStates
  BY DEF StateOf, BlockStates, Block, FormOf, Forms

LEMMA BlockType ==
    ASSUME NEW form \in Forms, NEW state \in {"open", "header", "returned"}
    PROVE  /\ Block(form, state) \in BlockStates
           /\ Block(form, state).form = form /\ Block(form, state).state = state
  BY DEF BlockStates, Block

(* Nothing but notes and operands are left in the visits.                  *)
LEMMA MatchAlike ==
    ASSUME NEW s, NEW vs \in Seq(Frames), Matches(s, vs), NEW ws, Len(ws) = Len(vs),
           \A j \in 1..Len(vs) : ws[j].k = vs[j].k /\ ws[j].ret = vs[j].ret /\ ws[j].op = vs[j].op
    PROVE  Matches(s, ws)
  <1>1. Len(s) \in Nat /\ Len(vs) \in Nat /\ Len(s) <= Len(vs) BY LenProperties DEF Matches
  <1>2. ASSUME NEW j \in 1..Len(vs)
        PROVE  /\ Operates(ws[j]) /\ (Opens(ws[j]) <=> j <= Len(s))
               /\ StateOf(ws[j]) = StateOf(vs[j])
    <2>1. ws[j].k = vs[j].k /\ ws[j].ret = vs[j].ret /\ ws[j].op = vs[j].op OBVIOUS
    <2>2. Operates(vs[j]) /\ (Opens(vs[j]) <=> j <= Len(s)) BY DEF Matches
    <2>3. Operates(ws[j]) BY <2>1, <2>2 DEF Operates
    <2>4. Opens(ws[j]) <=> Opens(vs[j]) BY <2>1 DEF Opens, IsBlock
    <2>5. StateOf(ws[j]) = StateOf(vs[j]) BY <2>1 DEF StateOf
    <2> QED BY <2>2, <2>3, <2>4, <2>5
  <1>3. ASSUME NEW j \in 1..Len(s) PROVE s[j] = StateOf(ws[j])
    <2>1. j \in 1..Len(vs) BY <1>1
    <2> QED BY <1>2, <2>1 DEF Matches
  <1> QED BY <1>1, <1>2, <1>3 DEF Matches

LEMMA NotedStates ==
    ASSUME NEW vs \in Seq(Frames), vs # <<>>, NEW k \in NodeKinds \cup FrameKinds
    PROVE  /\ Noted(vs, k) \in Seq(Frames) /\ Len(Noted(vs, k)) = Len(vs)
           /\ \A j \in 1..Len(vs) : /\ Noted(vs, k)[j].k = vs[j].k
                                    /\ Noted(vs, k)[j].ret = vs[j].ret
                                    /\ Noted(vs, k)[j].op = vs[j].op
  <1> DEFINE n == Len(vs)
             f == [vs[n] EXCEPT !.last = k]
  <1>1. n \in 1..Len(vs) /\ vs[n] \in Frames BY LastLemma
  <1>2. f \in Frames /\ f.k = vs[n].k /\ f.ret = vs[n].ret /\ f.op = vs[n].op BY <1>1 DEF Frames
  <1>3. [vs EXCEPT ![n].last = k] = [vs EXCEPT ![n] = f] OBVIOUS
  <1> HIDE DEF f, n
  <1>4. /\ [vs EXCEPT ![n] = f] \in Seq(Frames) /\ Len([vs EXCEPT ![n] = f]) = Len(vs)
        /\ \A j \in 1..Len(vs) : [vs EXCEPT ![n] = f][j] = IF j = n THEN f ELSE vs[j]
    BY <1>1, <1>2, ExceptSeq
  <1>5. Noted(vs, k) = vs \/ Noted(vs, k) = [vs EXCEPT ![n] = f] BY <1>3 DEF Noted, n
  <1> QED BY <1>2, <1>4, <1>5

LEMMA MatchNoted ==
    ASSUME NEW vs \in Seq(Frames), vs # <<>>, NEW k \in NodeKinds \cup FrameKinds,
           NEW s, Matches(s, vs)
    PROVE  /\ Noted(vs, k) \in Seq(Frames) /\ Matches(s, Noted(vs, k))
           /\ Len(Noted(vs, k)) = Len(vs) /\ (AreBlocks(vs) => AreBlocks(Noted(vs, k)))
  <1>1. /\ Noted(vs, k) \in Seq(Frames) /\ Len(Noted(vs, k)) = Len(vs)
        /\ \A j \in 1..Len(vs) : /\ Noted(vs, k)[j].k = vs[j].k
                                 /\ Noted(vs, k)[j].ret = vs[j].ret
                                 /\ Noted(vs, k)[j].op = vs[j].op
    BY NotedStates
  <1> DEFINE ws == Noted(vs, k)
  <1> HIDE DEF ws
  <1>2. Matches(s, ws) BY <1>1, MatchAlike DEF ws
  <1> QED BY <1>1, <1>2 DEF ws, AreBlocks, IsBlock

(* A visit begins: of an expression, a simple statement, a condition, ...  *)
LEMMA MatchPush ==
    ASSUME NEW vs \in Seq(Frames), NEW s, Matches(s, vs), NEW f, Operates(f)
    PROVE  /\ ~Opens(f) => Matches(s, Append(vs, f))
           /\ Opens(f) /\ Len(s) = Len(vs) => Matches(Append(s, StateOf(f)), Append(vs, f))
  <1> DEFINE S == Frames \cup {f}
             ws == Append(vs, f)
             t == Append(s, StateOf(f))
  <1>1. vs \in Seq(S) /\ f \in S BY SeqMonotonic
  <1> HIDE DEF S
  <1>2. /\ Len(vs) \in Nat /\ Len(ws) = Len(vs) + 1 /\ ws[Len(vs) + 1] = f
        /\ \A j \in 1..Len(vs) : ws[j] = vs[j]
    BY <1>1, PushLemma
  <1>3. s \in Seq(BlockStates) /\ Len(s) <= Len(vs) /\ StateOf(f) \in BlockStates
    BY StateType DEF Matches
  <1>4. /\ t \in Seq(BlockStates) /\ Len(s) \in Nat /\ Len(t) = Len(s) + 1
        /\ t[Len(s) + 1] = StateOf(f) /\ \A j \in 1..Len(s) : t[j] = s[j]
    BY <1>3, PushLemma
  <1> HIDE DEF ws, t
  <1>5. \A N \in Nat : \A d \in 1..N + 1 : d \in 1..N \/ d = N + 1 OBVIOUS
  <1>6. \A j \in 1..Len(ws) : j \in 1..Len(vs) \/ j = Len(vs) + 1 BY <1>2, <1>5
  <1>7. \A j \in 1..Len(t) : j \in 1..Len(s) \/ j = Len(s) + 1 BY <1>4, <1>5
  <1>8. 1..Len(s) \subseteq 1..Len(vs) BY <1>2, <1>3, <1>4
  <1>9. ASSUME ~Opens(f) PROVE Matches(s, ws)
    <2>1. ASSUME NEW j \in 1..Len(ws) PROVE Operates(ws[j]) /\ (Opens(ws[j]) <=> j <= Len(s))
      <3>1. CASE j \in 1..Len(vs) BY <1>2, <3>1 DEF Matches
      <3>2. CASE j = Len(vs) + 1 BY <1>2, <1>3, <1>4, <1>9, <3>2
      <3> QED BY <1>6, <3>1, <3>2
    <2>2. \A j \in 1..Len(s) : s[j] = StateOf(ws[j]) BY <1>2, <1>8 DEF Matches
    <2>3. Len(s) <= Len(ws) BY <1>2, <1>3, <1>4
    <2> QED BY <1>3, <2>1, <2>2, <2>3 DEF Matches
  <1>10. ASSUME Opens(f), Len(s) = Len(vs) PROVE Matches(t, ws)
    <2>1. ASSUME NEW j \in 1..Len(ws) PROVE Operates(ws[j]) /\ Opens(ws[j]) /\ j <= Len(t)
      <3>1. CASE j \in 1..Len(vs)
        <4>1. j <= Len(s) /\ j <= Len(t) BY <1>2, <1>4, <1>10, <3>1
        <4> QED BY <1>2, <3>1, <4>1 DEF Matches
      <3>2. CASE j = Len(vs) + 1 BY <1>2, <1>3, <1>4, <1>10, <3>2
      <3> QED BY <1>6, <3>1, <3>2
    <2>2. ASSUME NEW j \in 1..Len(t) PROVE t[j] = StateOf(ws[j])
      <3>1. CASE j \in 1..Len(s) BY <1>2, <1>4, <1>8, <3>1 DEF Matches
      <3>2. CASE j = Len(s) + 1 BY <1>2, <1>4, <1>10, <3>2
      <3> QED BY <1>7, <3>1, <3>2
    <2>3. Len(t) <= Len(ws) BY <1>2, <1>4, <1>10
    <2> QED BY <1>4, <2>1, <2>2, <2>3 DEF Matches
  <1> QED BY <1>9, <1>10 DEF ws, t

(* A visit ends.                                                           *)
LEMMA MatchFront ==
    ASSUME NEW vs \in Seq(Frames), vs # <<>>, NEW s, Matches(s, vs)
    PROVE  /\ Front(vs) \in Seq(Frames)
           /\ ~Opens(Last(vs)) => Matches(s, Front(vs))
           /\ Opens(Last(vs)) => /\ s # <<>> /\ Len(s) = Len(vs)
                                 /\ s[Len(s)] = StateOf(Last(vs))
                                 /\ Matches(Front(s), Front(vs))
                                 /\ Len(Front(s)) = Len(Front(vs))
  <1> DEFINE ws == Front(vs)
             t == Front(s)
  <1>1. /\ ws \in Seq(Frames) /\ Len(ws) = Len(vs) - 1
        /\ \A j \in 1..Len(vs) - 1 : ws[j] = vs[j]
        /\ Len(vs) \in Nat /\ Len(vs) >= 1 /\ Len(vs) \in 1..Len(vs) /\ Last(vs) = vs[Len(vs)]
    BY FrontLemma, LenPositive, LastLemma
  <1>2. s \in Seq(BlockStates) /\ Len(s) \in Nat /\ Len(s) <= Len(vs)
    BY LenProperties DEF Matches
  <1>3. Opens(Last(vs)) <=> Len(vs) <= Len(s) BY <1>1 DEF Matches
  <1> HIDE DEF ws
  <1>4. 1..Len(vs) - 1 \subseteq 1..Len(vs) BY <1>1
  <1>5. ASSUME ~Opens(Last(vs)) PROVE Matches(s, ws)
    <2>1. Len(s) <= Len(ws) BY <1>1, <1>2, <1>3, <1>5
    <2>2. 1..Len(s) \subseteq 1..Len(vs) - 1 BY <1>1, <1>2, <2>1
    <2>3. \A j \in 1..Len(ws) : Operates(ws[j]) /\ (Opens(ws[j]) <=> j <= Len(s))
      BY <1>1, <1>4 DEF Matches
    <2>4. \A j \in 1..Len(s) : s[j] = StateOf(ws[j]) BY <1>1, <2>2 DEF Matches
    <2> QED BY <1>2, <2>1, <2>3, <2>4 DEF Matches
  <1>6. ASSUME Opens(Last(vs))
        PROVE  /\ s # <<>> /\ Len(s) = Len(vs) /\ s[Len(s)] = StateOf(Last(vs))
               /\ Matches(t, ws) /\ Len(t) = Len(ws)
    <2>1. Len(s) = Len(vs) BY <1>1, <1>2, <1>3, <1>6
    <2>2. s # <<>> BY <1>1, <2>1, EmptySeq
    <2>3. s[Len(s)] = StateOf(Last(vs)) BY <1>1, <2>1 DEF Matches
    <2>4. /\ t \in Seq(BlockStates) /\ Len(t) = Len(s) - 1
          /\ \A j \in 1..Len(s) - 1 : t[j] = s[j]
      BY <1>2, <2>2, FrontLemma
    <2> HIDE DEF t
    <2>5. \A j \in 1..Len(ws) : Operates(ws[j]) /\ Opens(ws[j]) /\ j <= Len(t)
      <3>1. \A j \in 1..Len(vs) - 1 : j <= Len(s) /\ j <= Len(t) BY <1>1, <2>1, <2>4
      <3> QED BY <1>1, <1>4, <3>1 DEF Matches
    <2>6. \A j \in 1..Len(t) : t[j] = StateOf(ws[j])
      BY <1>1, <1>4, <2>1, <2>4 DEF Matches
    <2>7. Len(t) = Len(ws) /\ Len(t) <= Len(ws) BY <1>1, <2>1, <2>4
    <2> QED BY <2>1, <2>2, <2>3, <2>4, <2>5, <2>6, <2>7 DEF Matches
  <1> QED BY <1>1, <1>5, <1>6 DEF ws, t

(* A return of the innermost block is done.                                *)
LEMMA MatchReturned ==
    ASSUME NEW vs \in Seq(Frames), vs # <<>>, IsBlock(vs[Len(vs)]), NEW s, Matches(s, vs)
    PROVE  Matches(Instead(s, Block(Last(s).form, "returned")), Returned(vs))
  <1> DEFINE n == Len(vs)
             b == Block(Last(s).form, "returned")
             f == [vs[n] EXCEPT !.ret = TRUE]
             ws == [vs EXCEPT ![n] = f]
             t == Append(Front(s), b)
  <1>1. n \in 1..Len(vs) /\ vs[n] \in Frames /\ Last(vs) = vs[n] /\ n \in Nat /\ n >= 1
    BY LastLemma, LenPositive
  <1>2. f \in Frames /\ f.k = vs[n].k /\ f.ret /\ f.op = vs[n].op BY <1>1 DEF Frames
  <1>3. Returned(vs) = ws BY DEF Returned
  <1> HIDE DEF f
  <1>4. Len(ws) = n /\ \A j \in 1..n : ws[j] = IF j = n THEN f ELSE vs[j]
    BY <1>1, <1>2, ExceptSeq
  <1> HIDE DEF ws
  <1>5. Opens(f) /\ Opens(vs[n]) /\ StateOf(f) = Block(FormOf(vs[n].k, vs[n].op), "returned")
    BY <1>2 DEF Opens, IsBlock, StateOf, BlockKinds
  <1>6. s # <<>> /\ Len(s) = n /\ s[n] = StateOf(vs[n]) BY <1>1, <1>5, MatchFront
  <1>7. s \in Seq(BlockStates) /\ b \in BlockStates /\ b = StateOf(f)
    <2>1. s \in Seq(BlockStates) BY DEF Matches
    <2>2. Last(s) = s[n] /\ s[n].form = FormOf(vs[n].k, vs[n].op)
      BY <1>6, <2>1, LastLemma DEF StateOf, Block
    <2>3. b = StateOf(f) BY <1>5, <2>2
    <2> QED BY <2>1, <2>3, StateType
  <1> HIDE DEF b
  <1>8. /\ Front(s) \in Seq(BlockStates) /\ Len(Front(s)) = n - 1
        /\ \A j \in 1..n - 1 : Front(s)[j] = s[j]
    BY <1>6, <1>7, FrontLemma
  <1>9. /\ t \in Seq(BlockStates) /\ Len(t) = n
        /\ \A j \in 1..n - 1 : t[j] = s[j]
        /\ t[n] = b
    <2>1. /\ t \in Seq(BlockStates) /\ Len(t) = Len(Front(s)) + 1
          /\ \A j \in 1..Len(Front(s)) : t[j] = Front(s)[j]
          /\ t[Len(Front(s)) + 1] = b
      BY <1>7, <1>8, PushLemma
    <2>2. (n - 1) + 1 = n BY <1>1
    <2> QED BY <1>8, <2>1, <2>2
  <1>10. Instead(s, Block(Last(s).form, "returned")) = t BY DEF Instead, b
  <1> HIDE DEF t
  <1>11. \A j \in 1..n : j \in 1..n - 1 \/ j = n BY <1>1
  <1>12. \A j \in 1..n - 1 : j \in 1..n /\ j # n BY <1>1
  <1>13. ASSUME NEW j \in 1..n PROVE Operates(ws[j]) /\ Opens(ws[j]) /\ t[j] = StateOf(ws[j])
    <2>1. CASE j = n
      <3>1. Operates(f) BY <1>1, <1>2 DEF Matches, Operates
      <3> QED BY <1>4, <1>5, <1>7, <1>9, <2>1, <3>1
    <2>2. CASE j # n
      <3>1. j \in 1..n - 1 /\ j <= n /\ j \in 1..Len(vs) BY <1>1, <1>11, <2>2
      <3>2. ws[j] = vs[j] /\ t[j] = s[j] BY <1>4, <1>9, <2>2, <3>1
      <3> QED BY <1>6, <3>1, <3>2 DEF Matches
    <2> QED BY <2>1, <2>2
  <1>14. \A j \in 1..n : j <= n BY <1>1
  <1> QED BY <1>1, <1>3, <1>4, <1>9, <1>10, <1>13, <1>14 DEF Matches

(* Where every visit is a block's, the code generator gets there if none   *)
(* of them has returned.                                                   *)
LEMMA LiveBlocks ==
    ASSUME NEW vs \in Seq(Frames), AreBlocks(vs), NEW s, Matches(s, vs)
    PROVE  /\ s \in Seq(BlockStates) /\ Len(s) = Len(vs)
           /\ IsLive(vs) <=> Unreturned(s)
           /\ \A j \in 1..Len(s) : s[j].state # "header"
  <1>1. Len(vs) \in Nat /\ Len(s) \in Nat /\ Len(s) <= Len(vs) /\ s \in Seq(BlockStates)
    BY LenProperties DEF Matches
  <1>2. Len(s) = Len(vs)
    <2>1. CASE Len(vs) = 0 BY <1>1, <2>1
    <2>2. CASE Len(vs) # 0
      <3>1. Len(vs) \in 1..Len(vs) BY <1>1, <2>2
      <3>2. Len(vs) <= Len(s) BY <3>1 DEF AreBlocks, Opens, Matches
      <3> QED BY <1>1, <3>2
    <2> QED BY <2>1, <2>2
  <1>3. ASSUME NEW j \in 1..Len(vs)
        PROVE  /\ s[j].state = IF vs[j].ret THEN "returned" ELSE "open"
               /\ vs[j].k \notin Hidden
    <2>1. s[j] = StateOf(vs[j]) BY <1>2 DEF Matches
    <2>2. vs[j].k \in BlockKinds BY DEF AreBlocks, IsBlock
    <2>3. vs[j].k # "whilecond" /\ vs[j].k \notin Hidden BY <2>2 DEF BlockKinds, Hidden
    <2>4. StateOf(vs[j]).state = IF vs[j].ret THEN "returned" ELSE "open"
      BY <2>3 DEF StateOf, Block
    <2> QED BY <2>1, <2>3, <2>4
  <1> QED BY <1>1, <1>2, <1>3 DEF IsLive, Unreturned

-----------------------------------------------------------------------------
(* The typechecker's half: a history of the open blocks.                   *)

Nested == \E h : History(h)

LEMMA HistoryNow ==
    ASSUME Good, NEW h, History(h)
    PROVE  /\ Len(ast) \in Nat /\ visiting \in Seq(Frames)
           /\ h[Len(ast) + 1] \in Seq(BlockStates) /\ Matches(h[Len(ast) + 1], visiting)
  BY LenProperties DEF Good, TcGood, TcTyped, History, Matches

(* Nothing is recorded.                                                    *)
LEMMA SameNests ==
    ASSUME NEW h, History(h), ast' = ast, Matches(h[Len(ast) + 1], visiting')
    PROVE  Nested'
  BY DEF Nested, History

LEMMA UnchangedNests ==
    ASSUME Nested, UNCHANGED <<ast, visiting>>
    PROVE  Nested'
  BY DEF Nested, History

(* A node is recorded.                                                     *)
LEMMA RecordNests ==
    ASSUME Good, Good', NEW h, History(h),
           NEW k, NEW x, NEW op, NEW kids, NEW res, NEW us, NEW st,
           Record(k, x, op, kids, res, us, st),
           Placed(h[Len(ast) + 1], Node(k, x, op, kids, res, IsLive(us))),
           Operates(Node(k, x, op, kids, res, IsLive(us))),
           Matches(Through(h[Len(ast) + 1], Node(k, x, op, kids, res, IsLive(us))), visiting')
    PROVE  Nested'
  <1> DEFINE n == Node(k, x, op, kids, res, IsLive(us))
             N == Len(ast)
  <1>1. N \in Nat /\ h[N + 1] \in Seq(BlockStates) BY HistoryNow
  <1>2. /\ Len(ast') = N + 1 /\ ast'[N + 1] = n
        /\ \A i \in 1..N : ast'[i] = ast[i]
    BY Growth DEF Extends
  <1>3. Placed(h[N + 1], n) /\ Operates(n) /\ Matches(Through(h[N + 1], n), visiting') OBVIOUS
  <1> HIDE DEF n
  <1>4. PICK g : g[N + 2] = Through(h[N + 1], n) /\ \A i \in 1..(N + 1) : g[i] = h[i]
    <2> DEFINE f == [i \in 1..(N + 2) |-> IF i = N + 2 THEN Through(h[N + 1], n) ELSE h[i]]
    <2>1. f[N + 2] = Through(h[N + 1], n) /\ \A i \in 1..(N + 1) : f[i] = h[i] BY <1>1
    <2> QED BY <2>1
  <1>5. /\ h[1] = <<>>
        /\ \A i \in 1..N : /\ h[i] \in Seq(BlockStates)
                           /\ Placed(h[i], ast[i]) /\ Operates(ast[i])
                           /\ h[i + 1] = Through(h[i], ast[i])
    BY DEF History
  <1> HIDE DEF N
  <1>6. g[1] = <<>>
    <2>1. 1 \in 1..(N + 1) BY <1>1
    <2> QED BY <1>4, <1>5, <2>1
  <1>7. ASSUME NEW i \in 1..(N + 1)
        PROVE  /\ g[i] \in Seq(BlockStates) /\ Placed(g[i], ast'[i]) /\ Operates(ast'[i])
               /\ g[i + 1] = Through(g[i], ast'[i])
    <2>1. CASE i = N + 1
      <3>1. i + 1 = N + 2 BY <1>1, <2>1
      <3> QED BY <1>1, <1>2, <1>3, <1>4, <2>1, <3>1
    <2>2. CASE i # N + 1
      <3>1. i \in 1..N /\ i + 1 \in 1..(N + 1) BY <1>1, <2>2
      <3>2. g[i] = h[i] /\ g[i + 1] = h[i + 1] /\ ast'[i] = ast[i] BY <1>2, <1>4, <3>1
      <3> QED BY <1>5, <3>1, <3>2
    <2> QED BY <2>1, <2>2
  <1>8. Matches(g[Len(ast') + 1], visiting')
    <2>1. Len(ast') + 1 = N + 2 BY <1>1, <1>2
    <2> QED BY <1>3, <1>4, <2>1
  <1>9. \A i \in 1..Len(ast') : /\ g[i] \in Seq(BlockStates)
                                 /\ Placed(g[i], ast'[i]) /\ Operates(ast'[i])
                                 /\ g[i + 1] = Through(g[i], ast'[i])
    BY <1>2, <1>7
  <1>10. History(g)' BY <1>6, <1>8, <1>9 DEF History
  <1> QED BY <1>10 DEF Nested

(* A node that opens and ends nothing.                                     *)
LEMMA PlainNests ==
    ASSUME Good, Good', NEW h, History(h),
           NEW k, k \notin BlockPart \cup {"fn"},
           NEW x, NEW op, k = "binop" => isBinOp(op), NEW kids, NEW res, NEW us, NEW st,
           Record(k, x, op, kids, res, us, st), Matches(h[Len(ast) + 1], visiting')
    PROVE  Nested'
  <1> DEFINE n == Node(k, x, op, kids, res, IsLive(us))
             s == h[Len(ast) + 1]
  <1>1. n.k = k /\ Operates(n) BY DEF Node, Operates
  <1> HIDE DEF n
  <1>2. Placed(s, n) BY <1>1 DEF Placed, BlockPart, Ends
  <1>3. Through(s, n) = s BY <1>1 DEF Through, BlockPart, Ends
  <1>4. Matches(Through(s, n), visiting') BY <1>3
  <1> QED BY <1>1, <1>2, <1>4, RecordNests DEF n

(* A node within the blocks us: it opens one or it leaves things as        *)
(* they are, and the visits go on as vs.                                   *)
LEMMA WithinNests ==
    ASSUME Good, Good', NEW h, History(h),
           NEW k \in {"bare", "if", "while", "for", "return", "arraydecl"},
           NEW x, NEW op, NEW kids, NEW res, NEW us, NEW st,
           Record(k, x, op, kids, res, us, st),
           us \in Seq(Frames), us # <<>>, AreBlocks(us), Matches(h[Len(ast) + 1], us),
           Matches(Through(h[Len(ast) + 1], Node(k, x, op, kids, res, IsLive(us))), visiting')
    PROVE  Nested'
  <1> DEFINE n == Node(k, x, op, kids, res, IsLive(us))
             s == h[Len(ast) + 1]
  <1>1. n.k = k /\ n.live = IsLive(us) /\ Operates(n) BY DEF Node, Operates
  <1>2. /\ s \in Seq(BlockStates) /\ Len(s) = Len(us) /\ (IsLive(us) <=> Unreturned(s))
        /\ \A j \in 1..Len(s) : s[j].state # "header"
    BY LiveBlocks
  <1>3. Len(us) \in Nat /\ Len(us) >= 1 BY LenPositive
  <1>4. s # <<>> /\ Len(s) \in 1..Len(s) BY <1>2, <1>3, EmptySeq
  <1>5. Matches(Through(s, n), visiting') OBVIOUS
  <1> HIDE DEF n, s
  <1>6. Placed(s, n) BY <1>1, <1>2, <1>4 DEF Placed, BlockPart, Ends
  <1> QED BY <1>1, <1>5, <1>6, RecordNests DEF n, s

(* The blocks of a block's or a statement's visit.                         *)
LEMMA BlocksAround ==
    ASSUME Good, visiting # <<>>, Top.k \in BlockKinds \cup StmtKinds
    PROVE  /\ Below \in Seq(Frames) /\ AreBlocks(Below)
           /\ Top = Last(visiting) /\ Top = visiting[Len(visiting)]
           /\ Len(Below) = Len(visiting) - 1
           /\ Top.k \in BlockKinds => AreBlocks(visiting)
           /\ Top.k \in StmtKinds => Below # <<>>
           /\ Top.k = "body" => Below = <<>> /\ Len(visiting) = 1
  <1>1. visiting \in Seq(Frames) /\ Len(visiting) \in Nat /\ Len(visiting) >= 1 /\ StackInv
    BY LenPositive DEF Good, TcGood, TcTyped, ScopeInv
  <1>2. Top = Last(visiting) /\ Top = visiting[Len(visiting)]
        /\ Len(visiting) \in 1..Len(visiting)
    BY <1>1, LastLemma DEF Top
  <1>3. /\ Below \in Seq(Frames) /\ Len(Below) = Len(visiting) - 1
        /\ \A i \in 1..Len(visiting) - 1 : Below[i] = visiting[i]
    BY <1>1, FrontLemma DEF Below
  <1>4. \A i \in 1..Len(visiting) - 1 : IsBlock(visiting[i]) BY <1>1, <1>2 DEF StackInv
  <1>5. AreBlocks(Below) BY <1>3, <1>4 DEF AreBlocks
  <1>6. \A i \in 1..Len(visiting) : i \in 1..Len(visiting) - 1 \/ i = Len(visiting) BY <1>1
  <1>7. Top.k \in BlockKinds => AreBlocks(visiting)
    BY <1>2, <1>4, <1>6 DEF AreBlocks, IsBlock
  <1>8. Top.k \in StmtKinds => Below # <<>>
    <2>1. Top.k \in StmtKinds => ~IsBlock(Top) BY DEF StmtKinds, IsBlock, BlockKinds
    <2> QED BY <2>1, BelowBase
  <1>9. ASSUME Top.k = "body" PROVE Below = <<>> /\ Len(visiting) = 1
    <2>1. Len(visiting) = 1 BY <1>1, <1>2, <1>9 DEF StackInv
    <2>2. Len(Below) = 0 BY <1>3, <2>1
    <2> QED BY <1>3, <2>1, <2>2, EmptySeq
  <1> QED BY <1>2, <1>3, <1>5, <1>7, <1>8, <1>9

(* What the history says when a visit of a block, or of a statement that   *)
(* opens none yet, is about to end.                                        *)
LEMMA EndedNests ==
    ASSUME Good, NEW h, History(h), visiting # <<>>, Top.k \in BlockKinds \cup StmtKinds,
           NEW s, s = h[Len(ast) + 1]
    PROVE  /\ Opens(Top) =>
                 /\ s \in Seq(BlockStates) /\ s # <<>> /\ Len(s) = Len(visiting)
                 /\ s[Len(s)] = StateOf(Top)
                 /\ Matches(Front(s), Below) /\ Len(Front(s)) = Len(Below)
                 /\ IsLive(Below) <=> Unreturned(Front(s))
           /\ ~Opens(Top) => Matches(s, Below) /\ Len(s) = Len(Below)
  <1>1. visiting \in Seq(Frames) /\ s \in Seq(BlockStates) /\ Matches(s, visiting)
    BY HistoryNow
  <1>2. Below \in Seq(Frames) /\ AreBlocks(Below) /\ Top = Last(visiting) BY BlocksAround
  <1>3. Opens(Top) => /\ s # <<>> /\ Len(s) = Len(visiting) /\ s[Len(s)] = StateOf(Top)
                      /\ Matches(Front(s), Below) /\ Len(Front(s)) = Len(Below)
    BY <1>1, <1>2, MatchFront DEF Below
  <1>4. ~Opens(Top) => Matches(s, Below) BY <1>1, <1>2, MatchFront DEF Below
  <1>5. Opens(Top) => (IsLive(Below) <=> Unreturned(Front(s))) BY <1>2, <1>3, LiveBlocks
  <1>6. ~Opens(Top) => Len(s) = Len(Below) BY <1>2, <1>4, LiveBlocks
  <1> QED BY <1>1, <1>3, <1>4, <1>5, <1>6

-----------------------------------------------------------------------------
(* The forms of a step.                                                    *)

LEMMA VisitNests ==
    ASSUME Good, Nested, visiting # <<>>,
           NEW k \in FrameKinds, k \notin BlockKinds \cup {"whilecond"},
           NEW x, NEW op, k = "binop" => isBinOp(op), NEW proto, Visit(k, x, op, proto)
    PROVE  Nested'
  <1> PICK h : History(h) BY DEF Nested
  <1> DEFINE f == Frame(k, x, op, proto, 0)
             vs == Noted(visiting, k)
  <1>1. visiting \in Seq(Frames) /\ Matches(h[Len(ast) + 1], visiting) BY HistoryNow
  <1>2. vs \in Seq(Frames) /\ Matches(h[Len(ast) + 1], vs) BY <1>1, MatchNoted
  <1>3. ~Opens(f) /\ Operates(f) BY DEF Frame, Opens, IsBlock, Operates
  <1>4. ast' = ast /\ visiting' = Append(vs, f) BY DEF Visit
  <1> HIDE DEF f, vs
  <1> QED BY <1>2, <1>3, <1>4, MatchPush, SameNests

(* A visit ends that has opened nothing.                                   *)
LEMMA LeftMatches ==
    ASSUME Good, NEW h, History(h), visiting # <<>>,
           Top.k \notin BlockKinds \cup {"whilecond"}
    PROVE  Below \in Seq(Frames) /\ Below # <<>> /\ Matches(h[Len(ast) + 1], Below)
  <1>1. visiting \in Seq(Frames) /\ Matches(h[Len(ast) + 1], visiting) BY HistoryNow
  <1>2. ~IsBlock(Top) /\ ~Opens(Top) BY DEF Opens, IsBlock
  <1>3. Below # <<>> BY <1>2, BelowBase
  <1> QED BY <1>1, <1>2, <1>3, MatchFront DEF Top, Below

LEMMA FinishNests ==
    ASSUME Good, Good', Nested, visiting # <<>>,
           Top.k \in StmtKinds \ {"whilecond"},
           NEW k, k \notin (BlockPart \ {"arraydecl"}) \cup {"fn", "binop"},
           NEW x, NEW op, NEW kids, NEW res, NEW st, Finish(k, x, op, kids, res, st)
    PROVE  Nested'
  <1> PICK h : History(h) BY DEF Nested
  <1>1. Record(k, x, op, kids, res, Below, st) /\ visiting' = Below BY DEF Finish
  <1>2. Below \in Seq(Frames) /\ Below # <<>> /\ Matches(h[Len(ast) + 1], Below)
    <2>1. Top.k \notin BlockKinds \cup {"whilecond"} BY DEF StmtKinds, BlockKinds
    <2> QED BY <2>1, LeftMatches
  <1>3. CASE k # "arraydecl" BY <1>1, <1>2, <1>3, PlainNests
  <1>4. CASE k = "arraydecl"
    <2> DEFINE n == Node(k, x, op, kids, res, IsLive(Below))
    <2>1. Through(h[Len(ast) + 1], n) = h[Len(ast) + 1] BY <1>4 DEF Through, Node
    <2>2. Matches(Through(h[Len(ast) + 1], n), visiting') BY <1>1, <1>2, <2>1
    <2>3. AreBlocks(Below) BY BlocksAround
    <2> HIDE DEF Below
    <2> QED BY <1>1, <1>2, <1>4, <2>2, <2>3, WithinNests
  <1> QED BY <1>3, <1>4

LEMMA MatchMore ==
    ASSUME NEW vs \in Seq(Frames), vs # <<>>, NEW i \in Nat, NEW s, Matches(s, vs)
    PROVE  Matches(s, [vs EXCEPT ![Len(vs)].kids = Append(@, i)])
  <1> DEFINE m == Len(vs)
             f == [vs[m] EXCEPT !.kids = Append(vs[m].kids, i)]
             ws == [vs EXCEPT ![m] = f]
  <1>1. m \in 1..Len(vs) /\ vs[m] \in Frames BY LastLemma
  <1>2. vs[m].kids \in Seq(Nat) BY <1>1 DEF Frames
  <1>3. Append(vs[m].kids, i) \in Seq(Nat) BY <1>2, PushLemma
  <1>4. f \in Frames /\ f.k = vs[m].k /\ f.ret = vs[m].ret /\ f.op = vs[m].op
    BY <1>1, <1>3 DEF Frames
  <1>5. [vs EXCEPT ![Len(vs)].kids = Append(@, i)] = ws OBVIOUS
  <1> HIDE DEF f
  <1>6. Len(ws) = Len(vs) /\ \A j \in 1..Len(vs) : ws[j] = IF j = m THEN f ELSE vs[j]
    BY <1>1, <1>4, ExceptSeq
  <1> HIDE DEF ws, m
  <1>7. \A j \in 1..Len(vs) : /\ ws[j].k = vs[j].k /\ ws[j].ret = vs[j].ret
                            /\ ws[j].op = vs[j].op
    BY <1>4, <1>6
  <1> QED BY <1>5, <1>6, <1>7, MatchAlike

LEMMA DeliverNests ==
    ASSUME Good, Good', NEW h, History(h), NEW k \in ExprKinds,
           NEW x, NEW op, k = "binop" => isBinOp(op), NEW kids, NEW ty,
           NEW vs \in Seq(Frames), vs # <<>>, Matches(h[Len(ast) + 1], vs),
           Deliver(vs, k, x, op, kids, ty)
    PROVE  Nested'
  <1>1. Record(k, x, op, kids, ty, vs, symTab) BY DEF Deliver
  <1>2. Matches(h[Len(ast) + 1], visiting')
    <2>1. CASE Last(vs).k \in BlockKinds
      <3>1. k \in NodeKinds \cup FrameKinds BY DEF NodeKinds
      <3>2. visiting' = Noted(vs, k) BY <2>1 DEF Deliver
      <3> QED BY <3>1, <3>2, MatchNoted
    <2>2. CASE Last(vs).k \notin BlockKinds
      <3> DEFINE i == Len(ast) + 1
      <3>1. visiting' = [vs EXCEPT ![Len(vs)].kids = Append(@, i)] BY <2>2 DEF Deliver
      <3>2. i \in Nat BY HistoryNow
      <3> HIDE DEF i
      <3> QED BY <3>1, <3>2, MatchMore DEF i
    <2> QED BY <2>1, <2>2
  <1>3. k \notin BlockPart \cup {"fn"} BY DEF ExprKinds, BlockPart, Ends
  <1> QED BY <1>1, <1>2, <1>3, PlainNests

(* A block is entered, in the blocks of the visits vs.                     *)
LEMMA EnterNests ==
    ASSUME Good, Good', NEW h, History(h),
           NEW k \in {"bare", "if", "for"}, NEW block \in BlockKinds,
           NEW x, NEW op, NEW kids, NEW st,
           FormOf(block, op) = FormAt(Node(k, x, op, kids, "none", TRUE)),
           NEW vs \in Seq(Frames), vs # <<>>, AreBlocks(vs), Matches(h[Len(ast) + 1], vs),
           EnterBlock(vs, k, block, x, op, kids, st)
    PROVE  Nested'
  <1> DEFINE f == Frame(block, x, op, 0, Len(st) + 1)
             s == h[Len(ast) + 1]
             n == Node(k, x, op, kids, "none", IsLive(vs))
  <1>1. Record(k, x, op, kids, "none", vs, EnterScope(st)) /\ visiting' = Append(vs, f)
    BY DEF EnterBlock
  <1>2. Opens(f) /\ Operates(f) /\ StateOf(f) = Block(FormAt(n), "open")
    <2>1. f.k = block /\ f.op = op /\ ~f.ret BY DEF Frame
    <2>2. FormAt(n) = FormOf(block, op) BY DEF FormAt, Node
    <2> HIDE DEF f, n
    <2> QED BY <2>1, <2>2 DEF Opens, IsBlock, StateOf, BlockKinds, Operates
  <1>3. Through(s, n) = Append(s, Block(FormAt(n), "open")) BY DEF Through, Node
  <1> HIDE DEF f, n
  <1>4. Len(s) = Len(vs) BY LiveBlocks
  <1> HIDE DEF s
  <1>5. Matches(Append(s, StateOf(f)), Append(vs, f)) BY <1>2, <1>4, MatchPush DEF s
  <1>6. Matches(Through(s, n), visiting') BY <1>1, <1>2, <1>3, <1>5
  <1> QED BY <1>1, <1>6, WithinNests DEF s, n

(* The last block's return.                                                *)
LEMMA UnreturnedFront ==
    ASSUME NEW s \in Seq(BlockStates), s # <<>>
    PROVE  Unreturned(s) <=> Unreturned(Front(s)) /\ s[Len(s)].state # "returned"
  <1>1. /\ Len(s) \in Nat /\ Len(s) >= 1 /\ Len(Front(s)) = Len(s) - 1
        /\ \A i \in 1..Len(s) - 1 : Front(s)[i] = s[i]
    BY FrontLemma, LenPositive
  <1>2. \A i \in 1..Len(s) : i \in 1..Len(s) - 1 \/ i = Len(s) BY <1>1
  <1>3. 1..Len(s) - 1 \subseteq 1..Len(s) /\ Len(s) \in 1..Len(s) BY <1>1
  <1> QED BY <1>1, <1>2, <1>3 DEF Unreturned

(* A block takes the place of a condition, or of the true part of an if.   *)
LEMMA ReplaceNests ==
    ASSUME Good, Good', Nested, visiting # <<>>,
           NEW k \in {"else", "whilebody"}, NEW block \in BlockKinds,
           NEW x, NEW op, NEW kids, NEW st,
           Top.k \in BlockKinds \cup {"whilecond"}, Top.k = "whilecond" <=> k = "whilebody",
           k = "else" => Top.k = "then" /\ Top.op = "else",
           block = IF k = "else" THEN "else" ELSE "while",
           EnterBlock(Below, k, block, x, op, kids, st)
    PROVE  Nested'
  <1> PICK h : History(h) BY DEF Nested
  <1> DEFINE f == Frame(block, x, op, 0, Len(st) + 1)
             s == h[Len(ast) + 1]
             n == Node(k, x, op, kids, "none", IsLive(Below))
  <1>1. Record(k, x, op, kids, "none", Below, EnterScope(st)) /\ visiting' = Append(Below, f)
    BY DEF EnterBlock
  <1>2. Opens(f) /\ Operates(f) /\ StateOf(f) = Block(FormAt(n), "open")
    <2>1. f.k = block /\ f.op = op /\ ~f.ret BY DEF Frame
    <2>2. FormAt(n) = FormOf(block, op) BY DEF FormAt, Node, FormOf
    <2> HIDE DEF f, n
    <2> QED BY <2>1, <2>2 DEF Opens, IsBlock, StateOf, BlockKinds, Operates
  <1>3. Through(s, n) = Append(Front(s), Block(FormAt(n), "open")) BY DEF Through, Node, Instead
  <1>4. n.k = k /\ n.live = IsLive(Below) /\ Operates(n) BY DEF Node, Operates
  <1>5. Top.k \in BlockKinds \cup StmtKinds /\ Opens(Top)
        /\ (StateOf(Top).state = "header" <=> k = "whilebody")
        /\ (k = "else" => StateOf(Top).form = "fork")
        /\ (k = "whilebody" => StateOf(Top).form = "loop")
    <2>1. Top.k \in BlockKinds \cup StmtKinds /\ Opens(Top)
      BY DEF StmtKinds, Opens, IsBlock, BlockKinds
    <2>2. StateOf(Top).state = "header" <=> k = "whilebody"
      BY DEF StateOf, Block
    <2>3. StateOf(Top).form = FormOf(Top.k, Top.op) BY DEF StateOf, Block
    <2>4. k = "else" => FormOf(Top.k, Top.op) = "fork"
      <3>1. FormOf("then", "else") = "fork" BY DEF FormOf
      <3> QED BY <3>1
    <2>5. k = "whilebody" => FormOf(Top.k, Top.op) = "loop" BY DEF FormOf
    <2> QED BY <2>1, <2>2, <2>3, <2>4, <2>5
  <1> HIDE DEF f, n, s
  <1>6. /\ s \in Seq(BlockStates) /\ s # <<>> /\ s[Len(s)] = StateOf(Top)
        /\ Matches(Front(s), Below) /\ Len(Front(s)) = Len(Below)
        /\ IsLive(Below) <=> Unreturned(Front(s))
    BY <1>5, EndedNests DEF s
  <1>7. Below \in Seq(Frames) BY <1>5, BlocksAround
  <1>8. Matches(Through(s, n), visiting')
    BY <1>1, <1>2, <1>3, <1>6, <1>7, MatchPush
  <1>9. k = "whilebody" => (Unreturned(s) <=> Unreturned(Front(s)))
    BY <1>5, <1>6, UnreturnedFront
  <1>10. Placed(s, n) BY <1>4, <1>5, <1>6, <1>9 DEF Placed, BlockPart, Ends
  <1> QED BY <1>1, <1>4, <1>8, <1>10, RecordNests DEF s, n

(* A block ends.                                                           *)
LEMMA EndNests ==
    ASSUME Good, Good', Nested, visiting # <<>>, Top.k \in BlockKinds,
           NEW x, NEW op, op = Top.k, op = "then" => Top.op # "else", NEW kids, NEW res, NEW st,
           Record("end", x, op, kids, res, Below, st), visiting' = Below
    PROVE  Nested'
  <1> PICK h : History(h) BY DEF Nested
  <1> DEFINE s == h[Len(ast) + 1]
             n == Node("end", x, op, kids, res, IsLive(Below))
  <1>1. n.k = "end" /\ n.op = op /\ n.live = IsLive(Below) /\ Operates(n)
    BY DEF Node, Operates
  <1>2. /\ Opens(Top) /\ StateOf(Top).state # "header"
        /\ StateOf(Top).form = FormOf(op, "none")
    BY DEF Opens, IsBlock, StateOf, Block, FormOf, BlockKinds
  <1> HIDE DEF n, s
  <1>3. /\ s \in Seq(BlockStates) /\ s # <<>> /\ s[Len(s)] = StateOf(Top)
        /\ Len(s) = Len(visiting)
        /\ Matches(Front(s), Below) /\ (IsLive(Below) <=> Unreturned(Front(s)))
    BY <1>2, EndedNests DEF s
  <1>4. Through(s, n) = Front(s) BY <1>1 DEF Through
  <1>5. op = "body" => Len(s) = 1 BY <1>3, BlocksAround
  <1>6. Placed(s, n) BY <1>1, <1>2, <1>3, <1>5 DEF Placed, BlockPart, Ends
  <1>7. Matches(Through(s, n), visiting') BY <1>3, <1>4
  <1> QED BY <1>1, <1>6, <1>7, RecordNests DEF s, n

-----------------------------------------------------------------------------
(* Action by action.                                                       *)

LEMMA ProgramNests ==
    ASSUME Good, Good', Nested, TypecheckProgram
    PROVE  Nested'
  <1>1. CASE DeclareFunctions
    <2>1. UNCHANGED <<ast, visiting>> BY <1>1 DEF DeclareFunctions, Reject, Stop
    <2> QED BY <2>1, UnchangedNests
  <1>2. CASE EnterFunction
    <2>1. CASE UNCHANGED <<ast, visiting>> BY <2>1, UnchangedNests
    <2>2. CASE ~UNCHANGED <<ast, visiting>>
      <3> DEFINE f == Frame("body", NoName, "none", fnIdx + 1, Len(symTab'))
                 n == Node("fn", fns[fnIdx + 1].name, "none", <<fnIdx + 1>>, "none", IsLive(<<>>))
      <3>1. PICK st :
              /\ visiting = <<>> /\ visiting' = <<f>>
              /\ Record("fn", fns[fnIdx + 1].name, "none", <<fnIdx + 1>>, "none", <<>>, st)
        BY <1>2, <2>2 DEF EnterFunction, Reject, Stop
      <3> PICK h : History(h) BY DEF Nested
      <3> DEFINE s == h[Len(ast) + 1]
      <3>2. Opens(f) /\ Operates(f) /\ StateOf(f) = Block(FormAt(n), "open")
        <4>1. f.k = "body" /\ f.op = "none" /\ ~f.ret BY DEF Frame
        <4>2. FormAt(n) = "plain" BY DEF FormAt, Node
        <4> HIDE DEF f, n
        <4> QED BY <4>1, <4>2 DEF Opens, IsBlock, StateOf, FormOf, BlockKinds, Operates
      <3>3. n.k = "fn" /\ n.live /\ Operates(n)
        <4>1. IsLive(<<>>) BY DEF IsLive
        <4> QED BY <4>1 DEF Node, Operates
      <3> HIDE DEF f, n, s
      <3>4. s \in Seq(BlockStates) /\ Matches(s, <<>>) /\ <<>> \in Seq(Frames)
        BY <3>1, HistoryNow DEF s
      <3>5. Len(s) = 0 /\ s = <<>>
        <4>1. Len(s) <= 0 /\ Len(s) \in Nat BY <3>4, LenProperties DEF Matches
        <4> QED BY <3>4, <4>1, EmptySeq
      <3>6. Placed(s, n) BY <3>3, <3>5 DEF Placed, BlockPart, Ends
      <3>7. Through(s, n) = Append(s, StateOf(f)) BY <3>2, <3>3 DEF Through
      <3>8. Matches(Append(s, StateOf(f)), Append(<<>>, f))
        BY <3>2, <3>4, <3>5, MatchPush
      <3>9. Matches(Through(s, n), visiting') BY <3>1, <3>7, <3>8
      <3> QED BY <3>1, <3>3, <3>6, <3>9, RecordNests DEF s, n
    <2> QED BY <2>1, <2>2
  <1>3. CASE LeaveFunction
    <2>1. CASE UNCHANGED <<ast, visiting>> BY <2>1, UnchangedNests
    <2>2. CASE ~UNCHANGED <<ast, visiting>>
      <3>1. /\ visiting # <<>> /\ Top.k = "body" /\ visiting' = Below
            /\ Record("end", NoName, "body", <<>>, "none", Below, LeaveScopes(symTab, 3))
        BY <1>3, <2>2 DEF LeaveFunction, Reject, Stop
      <3>2. Top.k \in BlockKinds BY <3>1 DEF BlockKinds
      <3> QED BY <3>1, <3>2, EndNests
    <2> QED BY <2>1, <2>2
  <1>4. CASE FinishTypecheck BY <1>4, UnchangedNests DEF FinishTypecheck
  <1> QED BY <1>1, <1>2, <1>3, <1>4 DEF TypecheckProgram

(* Where a statement may begin.                                            *)
LEMMA StatementPlace ==
    ASSUME Good, NEW h, History(h), NEW k \in NodeKinds, AtStmt(k)
    PROVE  /\ visiting \in Seq(Frames) /\ visiting # <<>> /\ AreBlocks(visiting)
           /\ Matches(h[Len(ast) + 1], visiting)
           /\ Noted(visiting, k) \in Seq(Frames) /\ Noted(visiting, k) # <<>>
           /\ AreBlocks(Noted(visiting, k)) /\ Matches(h[Len(ast) + 1], Noted(visiting, k))
  <1>1. visiting \in Seq(Frames) /\ Matches(h[Len(ast) + 1], visiting) BY HistoryNow
  <1>2. visiting # <<>> /\ Top.k \in BlockKinds BY DEF AtStmt
  <1>3. AreBlocks(visiting) BY <1>2, BlocksAround
  <1>4. /\ Noted(visiting, k) \in Seq(Frames) /\ Len(Noted(visiting, k)) = Len(visiting)
        /\ AreBlocks(Noted(visiting, k)) /\ Matches(h[Len(ast) + 1], Noted(visiting, k))
    BY <1>1, <1>2, <1>3, MatchNoted
  <1>5. Noted(visiting, k) # <<>>
    <2>1. Len(visiting) # 0 BY <1>1, <1>2, EmptySeq
    <2> QED BY <1>4, <2>1, EmptySeq
  <1> QED BY <1>1, <1>2, <1>3, <1>4, <1>5

LEMMA WhileNests ==
    ASSUME Good, Good', Nested, VisitWhile
    PROVE  Nested'
  <1> PICK h : History(h) BY DEF Nested
  <1> DEFINE f == Frame("whilecond", NoName, "none", 0, 0)
             vs == Noted(visiting, "while")
             s == h[Len(ast) + 1]
             n == Node("while", NoName, "none", <<>>, "none", IsLive(visiting))
  <1>1. /\ Record("while", NoName, "none", <<>>, "none", visiting, symTab)
        /\ visiting' = Append(vs, f) /\ AtStmt("while")
    BY DEF VisitWhile
  <1>2. Opens(f) /\ Operates(f) /\ StateOf(f) = Block("loop", "header")
    <2>1. f.k = "whilecond" /\ f.op = "none" BY DEF Frame
    <2> HIDE DEF f
    <2> QED BY <2>1 DEF Opens, StateOf, FormOf, Operates
  <1>3. Through(s, n) = Append(s, StateOf(f)) BY <1>2 DEF Through, Node
  <1> HIDE DEF f, n
  <1>4. /\ visiting \in Seq(Frames) /\ visiting # <<>> /\ AreBlocks(visiting)
        /\ Matches(s, visiting) /\ vs \in Seq(Frames) /\ AreBlocks(vs) /\ Matches(s, vs)
    BY <1>1, StatementPlace DEF NodeKinds
  <1> HIDE DEF vs, s
  <1>5. Len(s) = Len(vs) BY <1>4, LiveBlocks
  <1>6. Matches(Through(s, n), visiting') BY <1>1, <1>2, <1>3, <1>4, <1>5, MatchPush
  <1> QED BY <1>1, <1>4, <1>6, WithinNests DEF s, n

LEMMA BlockNests ==
    ASSUME Good, Good', Nested, TypecheckBlock
    PROVE  Nested'
  <1>1. visiting # <<>> BY TypecheckInside
  <1> PICK h : History(h) BY DEF Nested
  <1>2. CASE VisitStmtBlock
    <2>1. /\ AtStmt("bare")
          /\ EnterBlock(Noted(visiting, "bare"), "bare", "bare", NoName, "none", <<>>, symTab)
      BY <1>2 DEF VisitStmtBlock
    <2> DEFINE vs == Noted(visiting, "bare")
    <2>2. /\ vs \in Seq(Frames) /\ vs # <<>> /\ AreBlocks(vs) /\ Matches(h[Len(ast) + 1], vs)
      BY <2>1, StatementPlace DEF NodeKinds
    <2>3. /\ "bare" \in BlockKinds
          /\ FormOf("bare", "none") = FormAt(Node("bare", NoName, "none", <<>>, "none", TRUE))
      BY DEF BlockKinds, FormOf, FormAt, Node
    <2> HIDE DEF vs
    <2> QED BY <2>1, <2>2, <2>3, EnterNests DEF vs
  <1>3. CASE LeaveStmtBlock
    <2>1. CASE Top.k = "then" /\ Top.op = "else"
               /\ EnterBlock(Below, "else", "else", NoName, "none", <<>>, LeaveScope(symTab))
      BY <1>1, <2>1, ReplaceNests DEF BlockKinds
    <2>2. CASE /\ Top.k \in BlockKinds \ {"body"} /\ Top.op # "else"
               /\ \E st : Record("end", NoName, Top.k, <<>>, "none", Below, st)
               /\ visiting' = Below
      BY <1>1, <2>2, EndNests
    <2> QED BY <1>3, <2>1, <2>2 DEF LeaveStmtBlock
  <1>4. CASE VisitIf
    <2>1. PICK op : Visit("ifcond", NoName, op, 0) BY <1>4 DEF VisitIf
    <2>2. "ifcond" \in FrameKinds /\ "ifcond" \notin BlockKinds \cup {"whilecond"}
      BY DEF FrameKinds, StmtKinds, BlockKinds
    <2> QED BY <1>1, <2>1, <2>2, VisitNests
  <1>5. CASE EnterThen \/ EnterForBody
    <2>1. PICK k, block, x, op :
            /\ (k = "if" /\ block = "then") \/ (k = "for" /\ block = "for")
            /\ Top.k \in {"ifcond", "forhdr"}
            /\ EnterBlock(Below, k, block, x, op, Top.kids, symTab)
      BY <1>5 DEF EnterThen, EnterForBody, Visited
    <2>2. /\ Top.k \in StmtKinds /\ Top.k \notin BlockKinds \cup {"whilecond"}
          /\ block \in BlockKinds /\ k \in {"bare", "if", "for"}
          /\ FormOf(block, op) = FormAt(Node(k, x, op, Top.kids, "none", TRUE))
      BY <2>1 DEF StmtKinds, BlockKinds, FormOf, FormAt, Node
    <2>3. /\ Below \in Seq(Frames) /\ Below # <<>> /\ Matches(h[Len(ast) + 1], Below)
          /\ AreBlocks(Below)
      BY <1>1, <2>2, LeftMatches, BlocksAround
    <2> HIDE DEF Below
    <2> QED BY <2>1, <2>2, <2>3, EnterNests
  <1>6. CASE VisitWhile BY <1>6, WhileNests
  <1>7. CASE EnterWhileBody
    <2>1. /\ Top.k = "whilecond"
          /\ EnterBlock(Below, "whilebody", "while", NoName, "none", Top.kids, symTab)
      BY <1>7 DEF EnterWhileBody, Visited
    <2> QED BY <1>1, <2>1, ReplaceNests DEF BlockKinds
  <1>8. CASE VisitFor
    <2>1. CASE Reject BY <2>1, UnchangedNests DEF Reject, Stop
    <2>2. CASE ~Reject
      <3> DEFINE vs == Noted(visiting, "for")
      <3>1. PICK x, st, f :
              /\ Record("forvar", x, "none", <<>>, "Type_int", visiting, st)
              /\ f = [Frame("forhdr", x, "none", 0, 0) EXCEPT !.kids = <<Len(ast) + 1>>]
              /\ visiting' = Append(vs, f) /\ AtStmt("for")
        BY <1>8, <2>2 DEF VisitFor
      <3>2. ~Opens(f) /\ Operates(f) BY <3>1 DEF Frame, Opens, IsBlock, BlockKinds, Operates
      <3>3. vs \in Seq(Frames) /\ Matches(h[Len(ast) + 1], vs)
        BY <3>1, StatementPlace DEF NodeKinds
      <3> HIDE DEF vs
      <3>4. Matches(h[Len(ast) + 1], visiting') BY <3>1, <3>2, <3>3, MatchPush
      <3> QED BY <3>1, <3>4, PlainNests DEF BlockPart, Ends
    <2> QED BY <2>1, <2>2
  <1> QED BY <1>2, <1>3, <1>4, <1>5, <1>6, <1>7, <1>8 DEF TypecheckBlock

(* A return is done in the blocks vs, which are those of us but for what   *)
(* has been noted of them.                                                 *)
LEMMA ReturnedNests ==
    ASSUME Good, Good', NEW h, History(h), NEW kids,
           NEW us \in Seq(Frames), us # <<>>, AreBlocks(us), Matches(h[Len(ast) + 1], us),
           NEW vs \in Seq(Frames), vs # <<>>, AreBlocks(vs), Matches(h[Len(ast) + 1], vs),
           Record("return", NoName, "none", kids, "none", us, symTab),
           visiting' = Returned(vs)
    PROVE  Nested'
  <1> DEFINE s == h[Len(ast) + 1]
             n == Node("return", NoName, "none", kids, "none", IsLive(us))
  <1>1. Through(s, n) = Instead(s, Block(Last(s).form, "returned")) BY DEF Through, Node
  <1> HIDE DEF n, s
  <1>2. IsBlock(vs[Len(vs)]) BY LastLemma DEF AreBlocks
  <1>3. Matches(Instead(s, Block(Last(s).form, "returned")), Returned(vs))
    BY <1>2, MatchReturned DEF s
  <1>4. Matches(Through(s, n), visiting') BY <1>1, <1>3
  <1> QED BY <1>4, WithinNests DEF s, n

LEMMA ReturnNests ==
    ASSUME Good, Good', Nested, visiting # <<>>, VisitReturn \/ FinishReturn
    PROVE  Nested'
  <1> PICK h : History(h) BY DEF Nested
  <1>1. CASE VisitReturn
    <2>1. CASE \E how : Stop(how) BY <2>1, UnchangedNests DEF Stop
    <2>2. CASE \E m : Visit("return", NoName, "none", m)
      BY <2>2, VisitNests DEF FrameKinds, StmtKinds, BlockKinds
    <2>3. CASE /\ Record("return", NoName, "none", <<>>, "none", visiting, symTab)
               /\ visiting' = Returned(Noted(visiting, "return"))
      <3> DEFINE vs == Noted(visiting, "return")
      <3>1. AtStmt("return") BY <1>1 DEF VisitReturn
      <3>2. /\ visiting \in Seq(Frames) /\ AreBlocks(visiting)
            /\ Matches(h[Len(ast) + 1], visiting)
            /\ vs \in Seq(Frames) /\ vs # <<>> /\ AreBlocks(vs) /\ Matches(h[Len(ast) + 1], vs)
        BY <3>1, StatementPlace DEF NodeKinds
      <3> HIDE DEF vs
      <3> QED BY <2>3, <3>2, ReturnedNests DEF vs
    <2> QED BY <1>1, <2>1, <2>2, <2>3 DEF VisitReturn, Reject
  <1>2. CASE FinishReturn
    <2>1. /\ Record("return", NoName, "none", Top.kids, "none", Below, symTab)
          /\ visiting' = Returned(Below) /\ Top.k = "return"
      BY <1>2 DEF FinishReturn, Visited
    <2>2. Top.k \in StmtKinds /\ Top.k \notin BlockKinds \cup {"whilecond"}
      BY <2>1 DEF StmtKinds, BlockKinds
    <2>3. /\ Below \in Seq(Frames) /\ Below # <<>> /\ Matches(h[Len(ast) + 1], Below)
          /\ AreBlocks(Below)
      BY <2>2, LeftMatches, BlocksAround
    <2> HIDE DEF Below
    <2> QED BY <2>1, <2>3, ReturnedNests
  <1> QED BY <1>1, <1>2

LEMMA StmtNests ==
    ASSUME Good, Good', Nested, TypecheckStmt
    PROVE  Nested'
  <1>1. visiting # <<>> BY TypecheckInside
  <1> PICK h : History(h) BY DEF Nested
  <1>2. CASE VisitVarDecl
    <2>1. CASE Reject BY <2>1, UnchangedNests DEF Reject, Stop
    <2>2. CASE ~Reject
      <3> DEFINE V == Noted(visiting, "vardecl")
      <3>1. PICK x, type, st :
              /\ Record("vardecl", x, "none", <<>>, type, visiting, st)
              /\ visiting' = V /\ AtStmt("vardecl")
        BY <1>2, <2>2 DEF VisitVarDecl
      <3>2. Matches(h[Len(ast) + 1], V) BY <3>1, StatementPlace DEF NodeKinds
      <3> HIDE DEF V
      <3> QED BY <3>1, <3>2, PlainNests DEF BlockPart, Ends
    <2> QED BY <2>1, <2>2
  <1>3. CASE VisitArrayDecl \/ VisitPrint \/ VisitAbort \/ VisitVarAssignment
             \/ VisitArrayAssignment
    <2>1. CASE Reject BY <2>1, UnchangedNests DEF Reject, Stop
    <2>2. CASE ~Reject
      <3>1. \E k \in {"arraydecl", "print", "abort", "assign", "elemaddr"} :
               \E x, op : Visit(k, x, op, 0)
        BY <1>3, <2>2 DEF VisitArrayDecl, VisitPrint, VisitAbort, VisitVarAssignment,
                          VisitArrayAssignment
      <3>2. \A k \in {"arraydecl", "print", "abort", "assign", "elemaddr"} :
               k \in FrameKinds /\ k \notin BlockKinds \cup {"whilecond"}
        BY DEF FrameKinds, StmtKinds, BlockKinds
      <3> QED BY <1>1, <3>1, <3>2, VisitNests
    <2> QED BY <2>1, <2>2
  <1>4. CASE FinishArrayDecl \/ FinishPrint \/ FinishAbort \/ FinishVarAssignment
             \/ FinishArrayAssignment
    <2>1. CASE Reject BY <2>1, UnchangedNests DEF Reject, Stop
    <2>2. CASE ~Reject
      <3>1. PICK k, x, kids, res, st :
               /\ k \in {"arraydecl", "print", "abort", "assign", "elemassign"}
               /\ Top.k = k /\ Finish(k, x, "none", kids, res, st)
        BY <1>4, <2>2 DEF FinishArrayDecl, FinishPrint, FinishAbort, FinishVarAssignment,
                          FinishArrayAssignment, Visited
      <3>2. Top.k \in StmtKinds \ {"whilecond"} BY <3>1 DEF StmtKinds
      <3>3. k \notin (BlockPart \ {"arraydecl"}) \cup {"fn", "binop"}
        BY <3>1 DEF BlockPart, Ends
      <3> QED BY <1>1, <3>1, <3>2, <3>3, FinishNests
    <2> QED BY <2>1, <2>2
  <1>5. CASE VisitReturn \/ FinishReturn BY <1>1, <1>5, ReturnNests
  <1>6. CASE VisitArrayAssignmentRhs
    <2> DEFINE f == [Top EXCEPT !.k = "elemassign"]
    <2>1. /\ Record("elemaddr", Top.x, "none", Top.kids, "none", Below, symTab)
          /\ visiting' = Append(Below, f) /\ Top.k = "elemaddr"
      BY <1>6 DEF VisitArrayAssignmentRhs, Visited
    <2>2. ~Opens(f) /\ Operates(f)
      <3>1. Top \in Frames BY <1>1, TopType
      <3> QED BY <3>1 DEF Frames, Opens, IsBlock, BlockKinds, Operates
    <2>3. Below \in Seq(Frames) /\ Matches(h[Len(ast) + 1], Below)
      BY <1>1, <2>1, LeftMatches DEF BlockKinds
    <2> HIDE DEF f
    <2>4. Matches(h[Len(ast) + 1], visiting') BY <2>1, <2>2, <2>3, MatchPush
    <2> QED BY <2>1, <2>4, PlainNests DEF BlockPart, Ends
  <1> QED BY <1>2, <1>3, <1>4, <1>5, <1>6 DEF TypecheckStmt

LEMMA ExprNests ==
    ASSUME Good, Good', Nested, TypecheckLeaf \/ TypecheckCompound
    PROVE  Nested'
  <1>1. visiting # <<>> BY TypecheckInside
  <1> PICK h : History(h) BY DEF Nested
  <1>2. CASE \E how : Stop(how) BY <1>2, UnchangedNests DEF Stop
  <1>3. CASE \E k \in ExprKinds \ {"binop"} :
               \E x, ty : Deliver(visiting, k, x, "none", <<>>, ty)
    <2>1. visiting \in Seq(Frames) /\ Matches(h[Len(ast) + 1], visiting) BY HistoryNow
    <2> QED BY <1>1, <1>3, <2>1, DeliverNests
  <1> DEFINE Compounds == {"ternary", "binop", "unary", "sizeof", "elem", "call"}
  <1>4. CASE \E k \in Compounds : \E x, op, proto :
               (k = "binop" => isBinOp(op)) /\ Visit(k, x, op, proto)
    <2>1. \A k \in Compounds : k \in FrameKinds /\ k \notin BlockKinds \cup {"whilecond"}
      BY DEF FrameKinds, BlockKinds
    <2> QED BY <1>1, <1>4, <2>1, VisitNests
  <1>5. CASE \E k \in Compounds :
                Top.k = k /\ \E x, op, kids, ty : /\ k = "binop" => op = Top.op
                                                 /\ Deliver(Below, k, x, op, kids, ty)
    <2>1. PICK k, x, op, kids, ty :
                /\ k \in Compounds /\ Top.k = k /\ (k = "binop" => op = Top.op)
                /\ Deliver(Below, k, x, op, kids, ty)
      BY <1>5
    <2>2. k \in ExprKinds /\ k \notin BlockKinds \cup {"whilecond"}
      BY <2>1 DEF ExprKinds, BlockKinds
    <2>3. Below \in Seq(Frames) /\ Below # <<>> /\ Matches(h[Len(ast) + 1], Below)
      BY <1>1, <2>1, <2>2, LeftMatches
    <2>4. k = "binop" => isBinOp(op)
      <3>1. visiting \in Seq(Frames) /\ Matches(h[Len(ast) + 1], visiting) BY HistoryNow
      <3>2. Top = visiting[Len(visiting)] /\ Len(visiting) \in 1..Len(visiting)
        BY <1>1, <3>1, LastLemma DEF Top
      <3>3. Operates(Top) BY <3>1, <3>2 DEF Matches
      <3> QED BY <2>1, <3>3 DEF Operates
    <2> HIDE DEF Compounds, Below
    <2> QED BY <2>1, <2>2, <2>3, <2>4, DeliverNests
  <1>6. CASE TypecheckLeaf
    BY <1>2, <1>3, <1>6
    DEF TypecheckLeaf, VisitTrueFalse, VisitNum, VisitInput, VisitStringLiteral, Leaf,
        VisitId, Reject, ExprKinds
  <1>7. CASE TypecheckCompound
    <2>1. CASE VisitTernary \/ VisitBinop \/ VisitUnary \/ VisitSizeof \/ VisitArrayExpr
               \/ VisitFnCall
      BY <1>2, <1>4, <2>1
      DEF VisitTernary, VisitBinop, VisitUnary, VisitSizeof, VisitArrayExpr, VisitFnCall, Reject
    <2>2. CASE FinishTernary \/ FinishBinop \/ FinishUnary \/ FinishSizeof
               \/ FinishArrayExpr \/ FinishFnCall
      BY <1>5, <2>2, Zenon
      DEF FinishTernary, FinishBinop, FinishUnary, FinishSizeof, FinishArrayExpr,
          FinishFnCall, Visited
    <2> QED BY <1>7, <2>1, <2>2 DEF TypecheckCompound
  <1> QED BY <1>6, <1>7
=============================================================================
