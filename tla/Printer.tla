------------------------------ MODULE Printer ------------------------------
(***************************************************************************)
(* PrintASTVisitor (printvisitor.cpp), which --print-ast runs over a       *)
(* parsed program.  It keeps one thing, the depth its lines are indented   *)
(* by, which the visits raise and lower by hand around what they accept.   *)
(* The wording of the lines is left out; the tree is chosen as the visitor *)
(* gets there, so the behaviours range over every tree of the classes      *)
(* tried.                                                                  *)
(***************************************************************************)
EXTENDS Integers, SequencesExt, FiniteSetsExt

CONSTANTS Classes,      \* the classes of statements and expressions tried
          MaxNodes      \* no node beyond these but where one has to be

ASSUME MaxNodesAssumption == MaxNodes \in Nat

VARIABLES depth,        \* _depth
          visits,       \* the visits in progress, the innermost last
          printed,      \* the lines printed
          nodes         \* the number of nodes visited

vars == <<depth, visits, printed, nodes>>

-----------------------------------------------------------------------------
(* A visit goes through a row of items: it prints a line, raises or lowers *)
(* the depth (_depth++, _depth--), or accepts its children of a sort, one  *)
(* or as many as there are.                                                *)

Item(sort, by, min, max) == [sort |-> sort, by |-> by, min |-> min, max |-> max]
Many == 1000

Line            == Item("line", 0, 0, 0)
Header          == Item("header", 0, 0, 0)
Raise           == Item("depth", 1, 0, 0)
Lower           == Item("depth", -1, 0, 0)
One(sort)       == Item(sort, 0, 1, 1)
Optional(sort)  == Item(sort, 0, 0, 1)
Each(sort)      == Item(sort, 0, 0, Many)

Program            == <<Each("function")>>
FunctionDefinition == <<Header, One("block")>>

(* Mutated form of StmtBlockStmt: the statements at the depth of the block.*)
StmtBlockFlat      == <<Each("stmt")>>

StmtBlockStmt      == <<Raise, Each("stmt"), Lower>>
VarDeclStmt        == <<Line, Raise, Each("vardecl"), Lower>>
ArrayDeclStmt      == <<Line, Raise, Each("arraydecl"), Lower>>
PrintStmt          == <<Line, Raise, Each("argument"), Lower>>
IfStmt             == <<Line, Line, Raise, One("expr"), Lower,
                        Line, Raise, One("block"), Lower, Optional("else")>>
Else               == <<Line, Lower, One("block"), Raise>>
WhileStmt          == <<Line, Line, Raise, One("expr"), Lower,
                        Line, Raise, One("block"), Lower>>
ForStmt            == <<Line, Line, Raise, One("ident"), Lower,
                        Line, Raise, One("expr"), Lower,
                        Line, Raise, One("block"), Lower>>
ReturnStmt         == <<Line, Optional("result")>>
AbortStmt          == <<Line, Raise, Each("argument"), Lower>>
ArrayAssignment    == <<Line, Line, Line, Raise, One("expr"), Lower,
                        Line, Line, Raise, One("expr"), Lower>>
VarAssignment      == <<Line, Line, Line, Raise, One("expr"), Lower>>

Leaf               == <<Line>>
TernaryExpr        == <<Line, Line, Raise, One("expr"), Lower,
                        Line, Raise, One("expr"), Lower,
                        Line, Raise, One("expr"), Lower>>
BinopExpr          == <<Line, Line, Raise, One("expr"), Lower,
                        Line, Line, Raise, One("expr"), Lower>>
UnaryExpr          == <<Line, Line, Raise, One("expr"), Lower>>

(* Mutated form of SizeofExpr: the depth is neither raised nor lowered.    *)
SizeofFlat         == <<Line, Line, One("expr")>>

SizeofExpr         == <<Line, Line, Raise, One("expr"), Lower>>
ArrayExpr          == <<Line, Line, Line, Raise, One("expr"), Lower>>
FnCallExpr         == <<Line, Line, Line, Each("fnarg")>>

(* The bodies of the loops that are more than an accept, and the parts     *)
(* that may be missing, are visits here.                                   *)
VarDecl            == <<Line>>
ArrayDecl          == <<Line, Raise, One("expr"), Lower>>

(* Mutated form of FnArg: one _depth-- is missing, that after an argument. *)
FnArgDeeper        == <<Line, Raise, One("expr")>>

FnArg              == <<Line, Raise, One("expr"), Lower>>
Result             == <<Line, Raise, One("expr"), Lower>>

Leaves == {"NumExpr", "TrueExpr", "FalseExpr", "IdExpr", "StringLiteralExpr", "InputExpr"}

Exprs == {"NumExpr", "TrueExpr", "FalseExpr", "IdExpr", "InputExpr", "TernaryExpr",
          "BinopExpr", "UnaryExpr", "SizeofExpr", "ArrayExpr", "FnCallExpr"} \cap Classes
Stmts == {"StmtBlockStmt", "VarDeclStmt", "ArrayDeclStmt", "PrintStmt", "IfStmt",
          "WhileStmt", "ForStmt", "ReturnStmt", "AbortStmt", "ArrayAssignment",
          "VarAssignment"} \cap Classes

Row(c) ==
    CASE c \in Leaves             -> Leaf
      [] c = "Program"            -> Program
      [] c = "FunctionDefinition" -> FunctionDefinition
      [] c = "StmtBlockStmt"      -> StmtBlockStmt
      [] c = "VarDeclStmt"        -> VarDeclStmt
      [] c = "VarDecl"            -> VarDecl
      [] c = "ArrayDeclStmt"      -> ArrayDeclStmt
      [] c = "ArrayDecl"          -> ArrayDecl
      [] c = "PrintStmt"          -> PrintStmt
      [] c = "IfStmt"             -> IfStmt
      [] c = "Else"               -> Else
      [] c = "WhileStmt"          -> WhileStmt
      [] c = "ForStmt"            -> ForStmt
      [] c = "ReturnStmt"         -> ReturnStmt
      [] c = "Result"             -> Result
      [] c = "AbortStmt"          -> AbortStmt
      [] c = "ArrayAssignment"    -> ArrayAssignment
      [] c = "VarAssignment"      -> VarAssignment
      [] c = "TernaryExpr"        -> TernaryExpr
      [] c = "BinopExpr"          -> BinopExpr
      [] c = "UnaryExpr"          -> UnaryExpr
      [] c = "SizeofExpr"         -> SizeofExpr
      [] c = "ArrayExpr"          -> ArrayExpr
      [] c = "FnCallExpr"         -> FnCallExpr
      [] c = "FnArg"              -> FnArg

(* The classes a child of each sort may have, and one without children for *)
(* where there is no room.                                                 *)
ClassesOf(sort) ==
    CASE sort = "function"  -> {"FunctionDefinition"}
      [] sort = "block"     -> {"StmtBlockStmt"}
      [] sort = "stmt"      -> Stmts \cup Exprs
      [] sort = "expr"      -> Exprs \cup {"IdExpr"}
      [] sort = "ident"     -> {"IdExpr"}
      [] sort = "argument"  -> Exprs \cup ({"StringLiteralExpr"} \cap Classes)
      [] sort = "vardecl"   -> {"VarDecl"}
      [] sort = "arraydecl" -> {"ArrayDecl"}
      [] sort = "fnarg"     -> {"FnArg"}
      [] sort = "result"    -> {"Result"}
      [] sort = "else"      -> {"Else"}
Small == {"StmtBlockStmt", "IdExpr"}

(* The children of these sorts are not headed by the line before them: the *)
(* functions, and the further parts of a visit.                            *)
Unheaded == {"function", "fnarg", "else", "result"}

-----------------------------------------------------------------------------
(* A visit: its class, the item it is at, and the children accepted at it. *)
(* Of the tree, for the properties: the line that heads it, the line that  *)
(* heads its children, whether it is in no bare block and no else part,    *)
(* and the depth at which it was called.                                   *)
Visit(c, under, plain, base) ==
    [class |-> c, at |-> 1, kids |-> 0,
     under |-> under, heads |-> under, plain |-> plain, base |-> base]

Top     == Last(visits)
AtEnd   == Top.at > Len(Row(Top.class))
Now     == Row(Top.class)[Top.at]
IsLine(item)  == item.sort \in {"line", "header"}
IsDepth(item) == item.sort = "depth"
Accepts(item) == ~IsLine(item) /\ ~IsDepth(item)
Room    == nodes < MaxNodes

Change(top) == visits' = [visits EXCEPT ![Len(visits)] = top]

Init ==
    /\ depth = 0
    /\ visits = <<Visit("Program", 0, TRUE, 0)>>
    /\ printed = <<>>
    /\ nodes = 0

(* print(); a function's header is printed without indentation.            *)
PrintLine ==
    /\ visits # <<>> /\ ~AtEnd /\ IsLine(Now)
    /\ printed' = Append(printed,
                    [depth |-> IF Now.sort = "header" THEN 0 ELSE depth,
                     under |-> Top.under, plain |-> Top.plain])
    /\ Change([Top EXCEPT !.at = @ + 1, !.heads = Len(printed) + 1])
    /\ UNCHANGED <<depth, nodes>>

(* _depth++ or _depth--.                                                   *)
ChangeDepth ==
    /\ visits # <<>> /\ ~AtEnd /\ IsDepth(Now)
    /\ depth' = depth + Now.by
    /\ Change([Top EXCEPT !.at = @ + 1])
    /\ UNCHANGED <<printed, nodes>>

AcceptChild ==
    /\ visits # <<>> /\ ~AtEnd /\ Accepts(Now) /\ Top.kids < Now.max
    /\ Room \/ Top.kids < Now.min
    /\ \E c \in ClassesOf(Now.sort) :
          /\ ~Room => c \in Small
          /\ visits' = Append([visits EXCEPT ![Len(visits)].kids = @ + 1],
                         Visit(c, IF Now.sort \in Unheaded THEN Top.under ELSE Top.heads,
                               Top.plain /\ Top.class # "Else"
                                 /\ ~(c = "StmtBlockStmt" /\ Now.sort = "stmt"), depth))
    /\ nodes' = nodes + 1
    /\ UNCHANGED <<depth, printed>>

(* There are no more children of the sort.                                 *)
GoOn ==
    /\ visits # <<>> /\ ~AtEnd /\ Accepts(Now) /\ Top.kids >= Now.min
    /\ Change([Top EXCEPT !.at = @ + 1, !.kids = 0])
    /\ UNCHANGED <<depth, printed, nodes>>

Return ==
    /\ visits # <<>> /\ AtEnd
    /\ visits' = Front(visits)
    /\ UNCHANGED <<depth, printed, nodes>>

Ended == visits = <<>> /\ UNCHANGED vars

Next == PrintLine \/ ChangeDepth \/ AcceptChild \/ GoOn \/ Return \/ Ended

Spec == Init /\ [][Next]_vars

-----------------------------------------------------------------------------
(* _depth is an unsigned int: the else part lowers it below the depth of   *)
(* its if statement, which is 1 at least, as there is always a block       *)
(* around it.                                                              *)
TypeOK ==
    /\ depth \in Nat
    /\ \A n \in 1..Len(visits) : visits[n].at \in 1..Len(Row(visits[n].class)) + 1
    /\ \A n \in 1..Len(printed) : printed[n].under \in 0..n - 1
    /\ nodes \in Nat

(* Every _depth++ of a visit is undone by a _depth-- before the visit goes *)
(* on to its next line or returns, and every _depth-- by a _depth++: what  *)
(* comes after a part is printed as if the part were not there, whatever   *)
(* was accepted in it.                                                     *)
Restored == visits # <<>> /\ (AtEnd \/ IsLine(Now)) => depth = Top.base

(* The lines are an outline: the last line above that is less indented is  *)
(* the one that heads the part of the tree a line belongs to.  Not so in   *)
(* the else part of an if, whose statements are printed at the depth of    *)
(* the if itself (printvisitor.cpp:80), and in a bare block, which has no  *)
(* line of its own.                                                        *)
Heading(i) ==
    LET above == {j \in 1..i - 1 : printed[j].depth < printed[i].depth}
    IN  IF above = {} THEN 0 ELSE Max(above)

Outline ==
    \A i \in 1..Len(printed) : printed[i].plain => Heading(i) = printed[i].under
=============================================================================
