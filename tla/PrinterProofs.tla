--------------------------- MODULE PrinterProofs ---------------------------
(***************************************************************************)
(* For every set of classes and every bound on the tree: the visits undo   *)
(* what they do to the depth, and what is printed is an outline of the     *)
(* program.                                                                *)
(***************************************************************************)
EXTENDS Printer, SeqLemmas

Sorts == {"line", "header", "depth", "function", "block", "stmt", "expr", "ident",
          "argument", "vardecl", "arraydecl", "fnarg", "result", "else"}
Items == [sort : Sorts, by : {-1, 0, 1}, min : {0, 1}, max : {0, 1, Many}]

Composite == {"StmtBlockStmt", "VarDeclStmt", "ArrayDeclStmt", "PrintStmt", "IfStmt",
              "WhileStmt", "ForStmt", "ReturnStmt", "AbortStmt", "ArrayAssignment",
              "VarAssignment", "TernaryExpr", "BinopExpr", "UnaryExpr", "SizeofExpr",
              "ArrayExpr", "FnCallExpr", "Program", "FunctionDefinition", "VarDecl",
              "ArrayDecl", "Else", "Result", "FnArg"}
Names == Leaves \cup Composite

Visits == [class : Names, at : Nat, kids : Nat, under : Nat, heads : Nat,
           plain : BOOLEAN, base : Nat]
Printed == [depth : Nat, under : Nat, plain : BOOLEAN]

-----------------------------------------------------------------------------
(* The levels of a row g: by how much its visit has raised the depth when  *)
(* it comes to an item.                                                    *)

(* Lines are printed at level 0; what is accepted by a block is a statement*)
(* at level 1, and what another visit accepts is at level 1 or a block, or *)
(* is a further part of the visit, at level 0.                             *)
ItemGood(c, item, d) ==
    /\ ~IsDepth(item) => item.by = 0
    /\ IsLine(item) => d = 0 /\ c # "StmtBlockStmt"
    /\ item.sort = "header" => c = "FunctionDefinition"
    /\ Accepts(item) =>
          /\ item.sort = "stmt" <=> c = "StmtBlockStmt"
          /\ c = "StmtBlockStmt" => d = 1
          /\ c = "Else" => item.sort = "block"
          /\ item.sort = "else" => c = "IfStmt"
          /\ item.sort = "function" => c = "Program"
          /\ item.sort \in Unheaded => d = 0
          /\ item.sort \notin Unheaded /\ c # "Else" => d = 1 \/ item.sort = "block"

(* A line is the last thing before the item but for a change of the depth. *)
AfterLine(row, k) ==
    \/ k > 1 /\ IsLine(row[k - 1])
    \/ k > 2 /\ IsDepth(row[k - 1]) /\ IsLine(row[k - 2])

RowStep(c, row, g, k) ==
    /\ g[k + 1] = g[k] + row[k].by
    /\ ItemGood(c, row[k], g[k])
    /\ Accepts(row[k]) /\ row[k].sort \notin Unheaded /\ c \notin {"StmtBlockStmt", "Else"} =>
          AfterLine(row, k)

(* A visit is back at level 0 at its end, and below it only in an else.    *)
RowGood(c, row, g) ==
    /\ row \in Seq(Items)
    /\ g[1] = 0 /\ g[Len(row) + 1] = 0
    /\ \A k \in 1..Len(row) + 1 : g[k] \in {-1, 0, 1} /\ (g[k] = -1 => c = "Else")
    /\ \A k \in 1..Len(row) : RowStep(c, row, g, k)

Level(c) == CHOOSE g : RowGood(c, Row(c), g)

LEMMA Fits ==
    ASSUME NEW c, NEW n \in Nat, NEW row \in Seq(Items), Len(row) = n, NEW g,
           g[1] = 0, g[n + 1] = 0, \A k \in 1..n + 1 : g[k] \in {0, 1},
           \A k \in 1..n : RowStep(c, row, g, k)
    PROVE  RowGood(c, row, g)
  BY DEF RowGood

(* The items.                                                              *)
LEMMA DepthItems ==
    /\ Raise \in Items /\ Raise.by = 1 /\ IsDepth(Raise) /\ ~Accepts(Raise)
    /\ Lower \in Items /\ Lower.by = -1 /\ IsDepth(Lower) /\ ~Accepts(Lower)
    /\ \A c, d : ItemGood(c, Raise, d) /\ ItemGood(c, Lower, d)
  BY DEF Raise, Lower, Item, Items, Sorts, ItemGood, IsLine, IsDepth, Accepts

LEMMA LineItem ==
    ASSUME NEW c, c # "StmtBlockStmt"
    PROVE  Line \in Items /\ Line.by = 0 /\ IsLine(Line) /\ ~Accepts(Line) /\ ItemGood(c, Line, 0)
  BY DEF Line, Item, Items, Sorts, ItemGood, IsLine, IsDepth, Accepts

(* A child, or any number of them, one level deeper.                       *)
Deeper(c, x) == x \in Items /\ x.by = 0 /\ ItemGood(c, x, 1)

LEMMA DeeperItem ==
    ASSUME NEW c, c \notin {"StmtBlockStmt", "Else"},
           NEW sort \in {"expr", "block", "ident", "argument", "vardecl", "arraydecl"}
    PROVE  Deeper(c, One(sort)) /\ Deeper(c, Each(sort))
  BY DEF Deeper, One, Each, Item, Items, Sorts, ItemGood, IsLine, Accepts, Unheaded

(* A further part of a visit, at the level of the visit.                   *)
Further(c, x) == x \in Items /\ x.by = 0 /\ ItemGood(c, x, 0) /\ x.sort \in Unheaded

LEMMA FurtherItem ==
    ASSUME NEW c, c \notin {"StmtBlockStmt", "Else"}, NEW sort \in Unheaded,
           sort = "else" => c = "IfStmt", sort = "function" => c = "Program",
           NEW x \in {Optional(sort), Each(sort)}
    PROVE  Further(c, x)
  <1>1. x \in Items /\ x.by = 0 /\ x.sort = sort
    BY DEF Optional, Each, Item, Items, Sorts, Unheaded
  <1>2. sort \notin {"stmt", "line", "header", "depth"} BY DEF Unheaded
  <1> QED BY <1>1, <1>2 DEF Further, ItemGood, IsLine, IsDepth, Accepts

-----------------------------------------------------------------------------
(* The rows.                                                               *)

(* A line.                                                                 *)
LEMMA LineRow ==
    ASSUME NEW c, c \notin {"StmtBlockStmt", "Else"}
    PROVE  RowGood(c, <<Line>>, <<0, 0>>)
  <1> DEFINE row == <<Line>>
             g   == <<0, 0>>
  <1>1. row \in Seq(Items) /\ Len(row) = 1 BY LineItem
  <1>2. \A k \in 1..1 + 1 : g[k] \in {0, 1} OBVIOUS
  <1>3. ASSUME NEW k \in 1..1 PROVE RowStep(c, row, g, k)
    BY LineItem DEF RowStep, AfterLine
  <1>4. g[1] = 0 /\ g[1 + 1] = 0 OBVIOUS
  <1> HIDE DEF row, g
  <1>5. RowGood(c, row, g) BY <1>1, <1>2, <1>3, <1>4, Fits
  <1> QED BY <1>5 DEF row, g

(* A line, and a part.                                                     *)
LEMMA PartRow ==
    ASSUME NEW c, c \notin {"StmtBlockStmt", "Else"},
           NEW x, Deeper(c, x)
    PROVE  RowGood(c, <<Line, Raise, x, Lower>>, <<0, 0, 1, 1, 0>>)
  <1> DEFINE row == <<Line, Raise, x, Lower>>
             g   == <<0, 0, 1, 1, 0>>
  <1>1. row \in Seq(Items) /\ Len(row) = 4 BY LineItem, DepthItems DEF Deeper
  <1>2. \A k \in 1..4 + 1 : g[k] \in {0, 1} OBVIOUS
  <1>3. ASSUME NEW k \in 1..4 PROVE RowStep(c, row, g, k)
    BY LineItem, DepthItems DEF RowStep, AfterLine, Deeper
  <1>4. g[1] = 0 /\ g[4 + 1] = 0 OBVIOUS
  <1> HIDE DEF row, g
  <1>5. RowGood(c, row, g) BY <1>1, <1>2, <1>3, <1>4, Fits
  <1> QED BY <1>5 DEF row, g

(* A part after two lines, and after three.                                *)
LEMMA SecondPartRow ==
    ASSUME NEW c, c \notin {"StmtBlockStmt", "Else"},
           NEW x, Deeper(c, x)
    PROVE  RowGood(c, <<Line, Line, Raise, x, Lower>>, <<0, 0, 0, 1, 1, 0>>)
  <1> DEFINE row == <<Line, Line, Raise, x, Lower>>
             g   == <<0, 0, 0, 1, 1, 0>>
  <1>1. row \in Seq(Items) /\ Len(row) = 5 BY LineItem, DepthItems DEF Deeper
  <1>2. \A k \in 1..5 + 1 : g[k] \in {0, 1} OBVIOUS
  <1>3. ASSUME NEW k \in 1..5 PROVE RowStep(c, row, g, k)
    BY LineItem, DepthItems DEF RowStep, AfterLine, Deeper
  <1>4. g[1] = 0 /\ g[5 + 1] = 0 OBVIOUS
  <1> HIDE DEF row, g
  <1>5. RowGood(c, row, g) BY <1>1, <1>2, <1>3, <1>4, Fits
  <1> QED BY <1>5 DEF row, g

LEMMA ThirdPartRow ==
    ASSUME NEW c, c \notin {"StmtBlockStmt", "Else"},
           NEW x, Deeper(c, x)
    PROVE  RowGood(c, <<Line, Line, Line, Raise, x, Lower>>, <<0, 0, 0, 0, 1, 1, 0>>)
  <1> DEFINE row == <<Line, Line, Line, Raise, x, Lower>>
             g   == <<0, 0, 0, 0, 1, 1, 0>>
  <1>1. row \in Seq(Items) /\ Len(row) = 6 BY LineItem, DepthItems DEF Deeper
  <1>2. \A k \in 1..6 + 1 : g[k] \in {0, 1} OBVIOUS
  <1>3. ASSUME NEW k \in 1..6 PROVE RowStep(c, row, g, k)
    BY LineItem, DepthItems DEF RowStep, AfterLine, Deeper
  <1>4. g[1] = 0 /\ g[6 + 1] = 0 OBVIOUS
  <1> HIDE DEF row, g
  <1>5. RowGood(c, row, g) BY <1>1, <1>2, <1>3, <1>4, Fits
  <1> QED BY <1>5 DEF row, g

(* The rows of several parts.                                              *)
LEMMA IfRow ==
    RowGood("IfStmt", IfStmt, <<0, 0, 0, 1, 1, 0, 0, 1, 1, 0, 0>>)
  <1> DEFINE c == "IfStmt"
             g == <<0, 0, 0, 1, 1, 0, 0, 1, 1, 0, 0>>
  <1>1. Line \in Items /\ Line.by = 0 /\ IsLine(Line) /\ ~Accepts(Line) /\ ItemGood(c, Line, 0)
    BY LineItem
  <1>2. Deeper(c, One("expr")) BY DeeperItem
  <1>3. Deeper(c, One("block")) BY DeeperItem
  <1>4. Further(c, Optional("else")) BY FurtherItem DEF Unheaded
  <1>a. IfStmt \in Seq(Items) /\ Len(IfStmt) = 10
    BY DepthItems, <1>1, <1>2, <1>3, <1>4 DEF IfStmt, Deeper, Further
  <1>b. \A k \in 1..10 + 1 : g[k] \in {0, 1} OBVIOUS
  <1>c. ASSUME NEW k \in 1..10 PROVE RowStep(c, IfStmt, g, k)
    BY DepthItems, <1>1, <1>2, <1>3, <1>4 DEF IfStmt, RowStep, AfterLine,
       Deeper, Further
  <1>d. g[1] = 0 /\ g[10 + 1] = 0 OBVIOUS
  <1> HIDE DEF g
  <1>e. RowGood(c, IfStmt, g) BY <1>a, <1>b, <1>c, <1>d, Fits
  <1> QED BY <1>e DEF g

LEMMA WhileRow ==
    RowGood("WhileStmt", WhileStmt, <<0, 0, 0, 1, 1, 0, 0, 1, 1, 0>>)
  <1> DEFINE c == "WhileStmt"
             g == <<0, 0, 0, 1, 1, 0, 0, 1, 1, 0>>
  <1>1. Line \in Items /\ Line.by = 0 /\ IsLine(Line) /\ ~Accepts(Line) /\ ItemGood(c, Line, 0)
    BY LineItem
  <1>2. Deeper(c, One("expr")) BY DeeperItem
  <1>3. Deeper(c, One("block")) BY DeeperItem
  <1>a. WhileStmt \in Seq(Items) /\ Len(WhileStmt) = 9
    BY DepthItems, <1>1, <1>2, <1>3 DEF WhileStmt, Deeper, Further
  <1>b. \A k \in 1..9 + 1 : g[k] \in {0, 1} OBVIOUS
  <1>c. ASSUME NEW k \in 1..9 PROVE RowStep(c, WhileStmt, g, k)
    BY DepthItems, <1>1, <1>2, <1>3 DEF WhileStmt, RowStep, AfterLine,
       Deeper, Further
  <1>d. g[1] = 0 /\ g[9 + 1] = 0 OBVIOUS
  <1> HIDE DEF g
  <1>e. RowGood(c, WhileStmt, g) BY <1>a, <1>b, <1>c, <1>d, Fits
  <1> QED BY <1>e DEF g

LEMMA ForRow ==
    RowGood("ForStmt", ForStmt, <<0, 0, 0, 1, 1, 0, 0, 1, 1, 0, 0, 1, 1, 0>>)
  <1> DEFINE c == "ForStmt"
             g == <<0, 0, 0, 1, 1, 0, 0, 1, 1, 0, 0, 1, 1, 0>>
  <1>1. Line \in Items /\ Line.by = 0 /\ IsLine(Line) /\ ~Accepts(Line) /\ ItemGood(c, Line, 0)
    BY LineItem
  <1>2. Deeper(c, One("ident")) BY DeeperItem
  <1>3. Deeper(c, One("expr")) BY DeeperItem
  <1>4. Deeper(c, One("block")) BY DeeperItem
  <1>a. ForStmt \in Seq(Items) /\ Len(ForStmt) = 13
    BY DepthItems, <1>1, <1>2, <1>3, <1>4 DEF ForStmt, Deeper, Further
  <1>b. \A k \in 1..13 + 1 : g[k] \in {0, 1} OBVIOUS
  <1>c. ASSUME NEW k \in 1..13 PROVE RowStep(c, ForStmt, g, k)
    BY DepthItems, <1>1, <1>2, <1>3, <1>4 DEF ForStmt, RowStep, AfterLine,
       Deeper, Further
  <1>d. g[1] = 0 /\ g[13 + 1] = 0 OBVIOUS
  <1> HIDE DEF g
  <1>e. RowGood(c, ForStmt, g) BY <1>a, <1>b, <1>c, <1>d, Fits
  <1> QED BY <1>e DEF g

LEMMA ReturnRow ==
    RowGood("ReturnStmt", ReturnStmt, <<0, 0, 0>>)
  <1> DEFINE c == "ReturnStmt"
             g == <<0, 0, 0>>
  <1>1. Line \in Items /\ Line.by = 0 /\ IsLine(Line) /\ ~Accepts(Line) /\ ItemGood(c, Line, 0)
    BY LineItem
  <1>2. Further(c, Optional("result")) BY FurtherItem DEF Unheaded
  <1>a. ReturnStmt \in Seq(Items) /\ Len(ReturnStmt) = 2
    BY DepthItems, <1>1, <1>2 DEF ReturnStmt, Deeper, Further
  <1>b. \A k \in 1..2 + 1 : g[k] \in {0, 1} OBVIOUS
  <1>c. ASSUME NEW k \in 1..2 PROVE RowStep(c, ReturnStmt, g, k)
    BY DepthItems, <1>1, <1>2 DEF ReturnStmt, RowStep, AfterLine,
       Deeper, Further
  <1>d. g[1] = 0 /\ g[2 + 1] = 0 OBVIOUS
  <1> HIDE DEF g
  <1>e. RowGood(c, ReturnStmt, g) BY <1>a, <1>b, <1>c, <1>d, Fits
  <1> QED BY <1>e DEF g

LEMMA ArrayAssignmentRow ==
    RowGood("ArrayAssignment", ArrayAssignment, <<0, 0, 0, 0, 1, 1, 0, 0, 0, 1, 1, 0>>)
  <1> DEFINE c == "ArrayAssignment"
             g == <<0, 0, 0, 0, 1, 1, 0, 0, 0, 1, 1, 0>>
  <1>1. Line \in Items /\ Line.by = 0 /\ IsLine(Line) /\ ~Accepts(Line) /\ ItemGood(c, Line, 0)
    BY LineItem
  <1>2. Deeper(c, One("expr")) BY DeeperItem
  <1>a. ArrayAssignment \in Seq(Items) /\ Len(ArrayAssignment) = 11
    BY DepthItems, <1>1, <1>2 DEF ArrayAssignment, Deeper, Further
  <1>b. \A k \in 1..11 + 1 : g[k] \in {0, 1} OBVIOUS
  <1>c. ASSUME NEW k \in 1..11 PROVE RowStep(c, ArrayAssignment, g, k)
    BY DepthItems, <1>1, <1>2 DEF ArrayAssignment, RowStep, AfterLine,
       Deeper, Further
  <1>d. g[1] = 0 /\ g[11 + 1] = 0 OBVIOUS
  <1> HIDE DEF g
  <1>e. RowGood(c, ArrayAssignment, g) BY <1>a, <1>b, <1>c, <1>d, Fits
  <1> QED BY <1>e DEF g

LEMMA TernaryRow ==
    RowGood("TernaryExpr", TernaryExpr, <<0, 0, 0, 1, 1, 0, 0, 1, 1, 0, 0, 1, 1, 0>>)
  <1> DEFINE c == "TernaryExpr"
             g == <<0, 0, 0, 1, 1, 0, 0, 1, 1, 0, 0, 1, 1, 0>>
  <1>1. Line \in Items /\ Line.by = 0 /\ IsLine(Line) /\ ~Accepts(Line) /\ ItemGood(c, Line, 0)
    BY LineItem
  <1>2. Deeper(c, One("expr")) BY DeeperItem
  <1>a. TernaryExpr \in Seq(Items) /\ Len(TernaryExpr) = 13
    BY DepthItems, <1>1, <1>2 DEF TernaryExpr, Deeper, Further
  <1>b. \A k \in 1..13 + 1 : g[k] \in {0, 1} OBVIOUS
  <1>c. ASSUME NEW k \in 1..13 PROVE RowStep(c, TernaryExpr, g, k)
    BY DepthItems, <1>1, <1>2 DEF TernaryExpr, RowStep, AfterLine,
       Deeper, Further
  <1>d. g[1] = 0 /\ g[13 + 1] = 0 OBVIOUS
  <1> HIDE DEF g
  <1>e. RowGood(c, TernaryExpr, g) BY <1>a, <1>b, <1>c, <1>d, Fits
  <1> QED BY <1>e DEF g

LEMMA BinopRow ==
    RowGood("BinopExpr", BinopExpr, <<0, 0, 0, 1, 1, 0, 0, 0, 1, 1, 0>>)
  <1> DEFINE c == "BinopExpr"
             g == <<0, 0, 0, 1, 1, 0, 0, 0, 1, 1, 0>>
  <1>1. Line \in Items /\ Line.by = 0 /\ IsLine(Line) /\ ~Accepts(Line) /\ ItemGood(c, Line, 0)
    BY LineItem
  <1>2. Deeper(c, One("expr")) BY DeeperItem
  <1>a. BinopExpr \in Seq(Items) /\ Len(BinopExpr) = 10
    BY DepthItems, <1>1, <1>2 DEF BinopExpr, Deeper, Further
  <1>b. \A k \in 1..10 + 1 : g[k] \in {0, 1} OBVIOUS
  <1>c. ASSUME NEW k \in 1..10 PROVE RowStep(c, BinopExpr, g, k)
    BY DepthItems, <1>1, <1>2 DEF BinopExpr, RowStep, AfterLine,
       Deeper, Further
  <1>d. g[1] = 0 /\ g[10 + 1] = 0 OBVIOUS
  <1> HIDE DEF g
  <1>e. RowGood(c, BinopExpr, g) BY <1>a, <1>b, <1>c, <1>d, Fits
  <1> QED BY <1>e DEF g

LEMMA FnCallRow ==
    RowGood("FnCallExpr", FnCallExpr, <<0, 0, 0, 0, 0>>)
  <1> DEFINE c == "FnCallExpr"
             g == <<0, 0, 0, 0, 0>>
  <1>1. Line \in Items /\ Line.by = 0 /\ IsLine(Line) /\ ~Accepts(Line) /\ ItemGood(c, Line, 0)
    BY LineItem
  <1>2. Further(c, Each("fnarg")) BY FurtherItem DEF Unheaded
  <1>a. FnCallExpr \in Seq(Items) /\ Len(FnCallExpr) = 4
    BY DepthItems, <1>1, <1>2 DEF FnCallExpr, Deeper, Further
  <1>b. \A k \in 1..4 + 1 : g[k] \in {0, 1} OBVIOUS
  <1>c. ASSUME NEW k \in 1..4 PROVE RowStep(c, FnCallExpr, g, k)
    BY DepthItems, <1>1, <1>2 DEF FnCallExpr, RowStep, AfterLine,
       Deeper, Further
  <1>d. g[1] = 0 /\ g[4 + 1] = 0 OBVIOUS
  <1> HIDE DEF g
  <1>e. RowGood(c, FnCallExpr, g) BY <1>a, <1>b, <1>c, <1>d, Fits
  <1> QED BY <1>e DEF g

(* The other rows.                                                         *)
LEMMA ProgramRow == RowGood("Program", Program, <<0, 0>>)
  <1> DEFINE x == Each("function")
  <1>1. Further("Program", x) BY FurtherItem DEF Unheaded
  <1> HIDE DEF x
  <1>2. RowGood("Program", <<x>>, <<0, 0>>) BY <1>1 DEF RowGood, RowStep, Further
  <1> QED BY <1>2 DEF Program, x

LEMMA FunctionRow == RowGood("FunctionDefinition", FunctionDefinition, <<0, 0, 0>>)
  <1> DEFINE c == "FunctionDefinition"
             x == Header
             y == One("block")
             r == <<x, y>>
  <1>1. /\ x \in Items /\ x.by = 0 /\ IsLine(x) /\ ~Accepts(x) /\ ItemGood(c, x, 0)
        /\ y \in Items /\ y.by = 0 /\ ItemGood(c, y, 0)
    BY DEF Header, One, Item, Items, Sorts, ItemGood, IsLine, Accepts, Unheaded
  <1> HIDE DEF x, y
  <1>2. r \in Seq(Items) /\ Len(r) = 2 BY <1>1
  <1>3. ASSUME NEW k \in 1..2 PROVE RowStep(c, r, <<0, 0, 0>>, k)
    BY <1>1 DEF RowStep, AfterLine
  <1>4. RowGood(c, r, <<0, 0, 0>>) BY <1>2, <1>3 DEF RowGood
  <1> QED BY <1>4 DEF FunctionDefinition, x, y

LEMMA BlockRow == RowGood("StmtBlockStmt", StmtBlockStmt, <<0, 1, 1, 0>>)
  <1> DEFINE c == "StmtBlockStmt"
             x == Each("stmt")
             r == <<Raise, x, Lower>>
             g == <<0, 1, 1, 0>>
  <1>1. x \in Items /\ x.by = 0 /\ ItemGood(c, x, 1)
    BY DEF Each, Item, Items, Sorts, ItemGood, IsLine, Accepts, Unheaded
  <1> HIDE DEF x
  <1>2. r \in Seq(Items) /\ Len(r) = 3 BY <1>1, DepthItems
  <1>3. ASSUME NEW k \in 1..3 PROVE RowStep(c, r, g, k) BY <1>1, DepthItems DEF RowStep
  <1>4. RowGood(c, r, g) BY <1>2, <1>3 DEF RowGood
  <1> QED BY <1>4 DEF StmtBlockStmt, x

LEMMA ElseRow == RowGood("Else", Else, <<0, 0, -1, -1, 0>>)
  <1> DEFINE c == "Else"
             x == One("block")
             r == <<Line, Lower, x, Raise>>
             g == <<0, 0, -1, -1, 0>>
  <1>1. x \in Items /\ x.by = 0 /\ ItemGood(c, x, -1)
    BY DEF One, Item, Items, Sorts, ItemGood, IsLine, Accepts, Unheaded
  <1>2. Line \in Items /\ Line.by = 0 /\ ItemGood(c, Line, 0) /\ ~Accepts(Line) BY LineItem
  <1> HIDE DEF x
  <1>3. r \in Seq(Items) /\ Len(r) = 4 BY <1>1, <1>2, DepthItems
  <1>4. ASSUME NEW k \in 1..4 PROVE RowStep(c, r, g, k) BY <1>1, <1>2, DepthItems DEF RowStep
  <1>5. \A k \in 1..5 : g[k] \in {-1, 0, 1} OBVIOUS
  <1>6. g[1] = 0 /\ g[5] = 0 OBVIOUS
  <1> HIDE DEF r, g
  <1>7. RowGood(c, r, g) BY <1>3, <1>4, <1>5, <1>6 DEF RowGood
  <1> QED BY <1>7 DEF Else, x, r, g

(* Every row has levels.                                                   *)
LEMMA Rows == ASSUME NEW c \in Names PROVE RowGood(c, Row(c), Level(c))
  <1> SUFFICES \E g : RowGood(c, Row(c), g) BY DEF Level
  <1>1. CASE c \in Leaves
    <2>1. Row(c) = <<Line>> BY <1>1 DEF Row, Leaves, Leaf
    <2>2. c \notin {"StmtBlockStmt", "Else"} BY <1>1 DEF Leaves
    <2> QED BY <1>1, <2>1, <2>2, LineRow
  <1>2. CASE c = "VarDecl"
    <2>1. Row(c) = <<Line>> BY <1>2 DEF Row, Leaves, VarDecl
    <2>2. c \notin {"StmtBlockStmt", "Else"} BY <1>2 DEF Leaves
    <2> QED BY <1>2, <2>1, <2>2, LineRow
  <1>3. CASE c = "Program"
    <2>1. Row(c) = Program BY <1>3 DEF Row, Leaves
    <2> QED BY <1>3, <2>1, ProgramRow
  <1>4. CASE c = "FunctionDefinition"
    <2>1. Row(c) = FunctionDefinition BY <1>4 DEF Row, Leaves
    <2> QED BY <1>4, <2>1, FunctionRow
  <1>5. CASE c = "StmtBlockStmt"
    <2>1. Row(c) = StmtBlockStmt BY <1>5 DEF Row, Leaves
    <2> QED BY <1>5, <2>1, BlockRow
  <1>6. CASE c = "Else"
    <2>1. Row(c) = Else BY <1>6 DEF Row, Leaves
    <2> QED BY <1>6, <2>1, ElseRow
  <1>7. CASE c = "IfStmt"
    <2>1. Row(c) = IfStmt BY <1>7 DEF Row, Leaves
    <2> QED BY <1>7, <2>1, IfRow
  <1>8. CASE c = "WhileStmt"
    <2>1. Row(c) = WhileStmt BY <1>8 DEF Row, Leaves
    <2> QED BY <1>8, <2>1, WhileRow
  <1>9. CASE c = "ForStmt"
    <2>1. Row(c) = ForStmt BY <1>9 DEF Row, Leaves
    <2> QED BY <1>9, <2>1, ForRow
  <1>10. CASE c = "ReturnStmt"
    <2>1. Row(c) = ReturnStmt BY <1>10 DEF Row, Leaves
    <2> QED BY <1>10, <2>1, ReturnRow
  <1>11. CASE c = "ArrayAssignment"
    <2>1. Row(c) = ArrayAssignment BY <1>11 DEF Row, Leaves
    <2> QED BY <1>11, <2>1, ArrayAssignmentRow
  <1>12. CASE c = "TernaryExpr"
    <2>1. Row(c) = TernaryExpr BY <1>12 DEF Row, Leaves
    <2> QED BY <1>12, <2>1, TernaryRow
  <1>13. CASE c = "BinopExpr"
    <2>1. Row(c) = BinopExpr BY <1>13 DEF Row, Leaves
    <2> QED BY <1>13, <2>1, BinopRow
  <1>14. CASE c = "FnCallExpr"
    <2>1. Row(c) = FnCallExpr BY <1>14 DEF Row, Leaves
    <2> QED BY <1>14, <2>1, FnCallRow
  <1>15. CASE c = "VarDeclStmt"
    <2>1. Row(c) = <<Line, Raise, Each("vardecl"), Lower>> BY <1>15 DEF Row, Leaves, VarDeclStmt
    <2>2. c \notin {"StmtBlockStmt", "Else"} BY <1>15
    <2>3. Deeper(c, Each("vardecl")) BY <2>2, DeeperItem
    <2>4. \E g : RowGood(c, <<Line, Raise, Each("vardecl"), Lower>>, g) BY <2>2, <2>3, PartRow
    <2> QED BY <1>15, <2>1, <2>4
  <1>16. CASE c = "ArrayDeclStmt"
    <2>1. Row(c) = <<Line, Raise, Each("arraydecl"), Lower>> BY <1>16 DEF Row, Leaves, ArrayDeclStmt
    <2>2. c \notin {"StmtBlockStmt", "Else"} BY <1>16
    <2>3. Deeper(c, Each("arraydecl")) BY <2>2, DeeperItem
    <2>4. \E g : RowGood(c, <<Line, Raise, Each("arraydecl"), Lower>>, g) BY <2>2, <2>3, PartRow
    <2> QED BY <1>16, <2>1, <2>4
  <1>17. CASE c = "PrintStmt"
    <2>1. Row(c) = <<Line, Raise, Each("argument"), Lower>> BY <1>17 DEF Row, Leaves, PrintStmt
    <2>2. c \notin {"StmtBlockStmt", "Else"} BY <1>17
    <2>3. Deeper(c, Each("argument")) BY <2>2, DeeperItem
    <2>4. \E g : RowGood(c, <<Line, Raise, Each("argument"), Lower>>, g) BY <2>2, <2>3, PartRow
    <2> QED BY <1>17, <2>1, <2>4
  <1>18. CASE c = "AbortStmt"
    <2>1. Row(c) = <<Line, Raise, Each("argument"), Lower>> BY <1>18 DEF Row, Leaves, AbortStmt
    <2>2. c \notin {"StmtBlockStmt", "Else"} BY <1>18
    <2>3. Deeper(c, Each("argument")) BY <2>2, DeeperItem
    <2>4. \E g : RowGood(c, <<Line, Raise, Each("argument"), Lower>>, g) BY <2>2, <2>3, PartRow
    <2> QED BY <1>18, <2>1, <2>4
  <1>19. CASE c = "ArrayDecl"
    <2>1. Row(c) = <<Line, Raise, One("expr"), Lower>> BY <1>19 DEF Row, Leaves, ArrayDecl
    <2>2. c \notin {"StmtBlockStmt", "Else"} BY <1>19
    <2>3. Deeper(c, One("expr")) BY <2>2, DeeperItem
    <2>4. \E g : RowGood(c, <<Line, Raise, One("expr"), Lower>>, g) BY <2>2, <2>3, PartRow
    <2> QED BY <1>19, <2>1, <2>4
  <1>20. CASE c = "FnArg"
    <2>1. Row(c) = <<Line, Raise, One("expr"), Lower>> BY <1>20 DEF Row, Leaves, FnArg
    <2>2. c \notin {"StmtBlockStmt", "Else"} BY <1>20
    <2>3. Deeper(c, One("expr")) BY <2>2, DeeperItem
    <2>4. \E g : RowGood(c, <<Line, Raise, One("expr"), Lower>>, g) BY <2>2, <2>3, PartRow
    <2> QED BY <1>20, <2>1, <2>4
  <1>21. CASE c = "Result"
    <2>1. Row(c) = <<Line, Raise, One("expr"), Lower>> BY <1>21 DEF Row, Leaves, Result
    <2>2. c \notin {"StmtBlockStmt", "Else"} BY <1>21
    <2>3. Deeper(c, One("expr")) BY <2>2, DeeperItem
    <2>4. \E g : RowGood(c, <<Line, Raise, One("expr"), Lower>>, g) BY <2>2, <2>3, PartRow
    <2> QED BY <1>21, <2>1, <2>4
  <1>22. CASE c = "UnaryExpr"
    <2>1. Row(c) = <<Line, Line, Raise, One("expr"), Lower>> BY <1>22 DEF Row, Leaves, UnaryExpr
    <2>2. c \notin {"StmtBlockStmt", "Else"} BY <1>22
    <2>3. Deeper(c, One("expr")) BY <2>2, DeeperItem
    <2>4. \E g : RowGood(c, <<Line, Line, Raise, One("expr"), Lower>>, g)
      BY <2>2, <2>3, SecondPartRow
    <2> QED BY <1>22, <2>1, <2>4
  <1>23. CASE c = "SizeofExpr"
    <2>1. Row(c) = <<Line, Line, Raise, One("expr"), Lower>> BY <1>23 DEF Row, Leaves, SizeofExpr
    <2>2. c \notin {"StmtBlockStmt", "Else"} BY <1>23
    <2>3. Deeper(c, One("expr")) BY <2>2, DeeperItem
    <2>4. \E g : RowGood(c, <<Line, Line, Raise, One("expr"), Lower>>, g)
      BY <2>2, <2>3, SecondPartRow
    <2> QED BY <1>23, <2>1, <2>4
  <1>24. CASE c = "VarAssignment"
    <2>1. Row(c) = <<Line, Line, Line, Raise, One("expr"), Lower>>
      BY <1>24 DEF Row, Leaves, VarAssignment
    <2>2. c \notin {"StmtBlockStmt", "Else"} BY <1>24
    <2>3. Deeper(c, One("expr")) BY <2>2, DeeperItem
    <2>4. \E g : RowGood(c, <<Line, Line, Line, Raise, One("expr"), Lower>>, g)
      BY <2>2, <2>3, ThirdPartRow
    <2> QED BY <1>24, <2>1, <2>4
  <1>25. CASE c = "ArrayExpr"
    <2>1. Row(c) = <<Line, Line, Line, Raise, One("expr"), Lower>>
      BY <1>25 DEF Row, Leaves, ArrayExpr
    <2>2. c \notin {"StmtBlockStmt", "Else"} BY <1>25
    <2>3. Deeper(c, One("expr")) BY <2>2, DeeperItem
    <2>4. \E g : RowGood(c, <<Line, Line, Line, Raise, One("expr"), Lower>>, g)
      BY <2>2, <2>3, ThirdPartRow
    <2> QED BY <1>25, <2>1, <2>4
  <1> QED
    BY <1>1, <1>2, <1>3, <1>4, <1>5, <1>6, <1>7, <1>8, <1>9, <1>10, <1>11, <1>12,
       <1>13, <1>14, <1>15, <1>16, <1>17, <1>18, <1>19, <1>20, <1>21, <1>22, <1>23,
       <1>24, <1>25
       DEF Names, Composite

-----------------------------------------------------------------------------
(* The invariant.                                                          *)
At(v)         == Row(v.class)[v.at]
Inner(v)      == v.base + Level(v.class)[v.at]
Floor(v)      == v.base + (IF v.class = "StmtBlockStmt" THEN 1 ELSE 0)
ChildFloor(v) == Inner(v) + (IF At(v).sort = "block" THEN 1 ELSE 0)
ChildHead(v)  == IF At(v).sort \in Unheaded THEN v.under ELSE v.heads

(* Line u of some lines heads what is printed at depth d after them.       *)
Heads(lines, d, u) ==
    /\ u \in 0..Len(lines)
    /\ u > 0 => lines[u].depth < d
    /\ \A j \in u + 1..Len(lines) : lines[j].depth >= d

(* What holds of a visit by itself, after so many lines.                   *)
VisitGood(v, lines) ==
    /\ v.at \in 1..Len(Row(v.class)) + 1
    /\ v.kids > 0 => v.at <= Len(Row(v.class)) /\ Accepts(At(v))
    /\ v.class \in {"IfStmt", "Else"} => v.base >= 1
    /\ v.class \in {"Program", "FunctionDefinition"} => v.base = 0
    /\ v.under <= lines /\ v.heads <= lines
    /\ v.class = "StmtBlockStmt" => v.heads = v.under

Types ==
    /\ visits \in Seq(Visits)
    /\ printed \in Seq(Printed)
    /\ depth \in Nat
    /\ nodes \in Nat

(* The depth is that of the innermost visit, raised to the level of the    *)
(* item it is at; every other visit is at the child it has called.         *)
Chain ==
    /\ visits # <<>> => visits[1].class = "Program"
    /\ \A n \in 1..Len(visits) : VisitGood(visits[n], Len(printed))
    /\ \A n \in 1..Len(visits) - 1 :
          /\ visits[n].kids > 0
          /\ visits[n + 1].base = Inner(visits[n])
          /\ visits[n].class # "Else" => ChildFloor(visits[n]) <= Floor(visits[n + 1])
    /\ depth = IF visits = <<>> THEN 0 ELSE Inner(Top)

Floors ==
    \A m \in 1..Len(visits) : \A n \in 1..m : Floor(visits[n]) <= Floor(visits[m])

Headed ==
    \A n \in 1..Len(visits) :
        visits[n].plain =>
            /\ Heads(printed, Floor(visits[n]), visits[n].under)
            /\ visits[n].kids > 0 /\ visits[n].class # "Else" =>
                  Heads(printed, ChildFloor(visits[n]), ChildHead(visits[n]))

(* A visit that has printed a line and accepted nothing since has printed  *)
(* the last line.                                                          *)
Latest ==
    visits # <<>> /\ Top.kids = 0 /\ AfterLine(Row(Top.class), Top.at) =>
        /\ printed # <<>> /\ printed[Len(printed)].depth = Top.base
        /\ Top.heads = Len(printed)

Outlined ==
    \A i \in 1..Len(printed) :
        /\ printed[i].under <= i - 1
        /\ printed[i].plain =>
              /\ printed[i].under > 0 => printed[printed[i].under].depth < printed[i].depth
              /\ \A j \in printed[i].under + 1..i - 1 : printed[j].depth >= printed[i].depth

PrinterInv == Types /\ Chain /\ Floors /\ Headed /\ Latest /\ Outlined

-----------------------------------------------------------------------------
(* The parts of a state the steps look at.                                 *)

(* The children of each sort.                                              *)
LEMMA Children ==
    ASSUME NEW sort \in Sorts \ {"line", "header", "depth"}, NEW c \in ClassesOf(sort)
    PROVE  /\ c \in Names
           /\ c # "Program"
           /\ c = "IfStmt" => sort = "stmt"
           /\ c = "Else" => sort = "else"
           /\ c = "FunctionDefinition" => sort = "function"
           /\ c = "StmtBlockStmt" => sort \in {"block", "stmt"}
           /\ sort = "block" => c = "StmtBlockStmt"
  <1>1. CASE sort = "stmt"
    <2>1. ClassesOf(sort) = Stmts \cup Exprs BY <1>1 DEF ClassesOf
    <2> QED BY <1>1, <2>1 DEF Stmts, Exprs, Names, Leaves, Composite
  <1>2. CASE sort = "expr"
    <2>1. ClassesOf(sort) = Exprs \cup {"IdExpr"} BY <1>2 DEF ClassesOf
    <2> QED BY <1>2, <2>1 DEF Exprs, Names, Leaves, Composite
  <1>3. CASE sort = "argument"
    <2>1. ClassesOf(sort) = Exprs \cup ({"StringLiteralExpr"} \cap Classes)
      BY <1>3 DEF ClassesOf
    <2> QED BY <1>3, <2>1 DEF Exprs, Names, Leaves, Composite
  <1>4. CASE sort = "function" BY <1>4 DEF ClassesOf, Names, Leaves, Composite
  <1>5. CASE sort = "block" BY <1>5 DEF ClassesOf, Names, Leaves, Composite
  <1>6. CASE sort = "ident" BY <1>6 DEF ClassesOf, Names, Leaves, Composite
  <1>7. CASE sort = "vardecl" BY <1>7 DEF ClassesOf, Names, Leaves, Composite
  <1>8. CASE sort = "arraydecl" BY <1>8 DEF ClassesOf, Names, Leaves, Composite
  <1>9. CASE sort = "fnarg" BY <1>9 DEF ClassesOf, Names, Leaves, Composite
  <1>10. CASE sort = "result" BY <1>10 DEF ClassesOf, Names, Leaves, Composite
  <1>11. CASE sort = "else" BY <1>11 DEF ClassesOf, Names, Leaves, Composite
  <1> QED
    BY <1>1, <1>2, <1>3, <1>4, <1>5, <1>6, <1>7, <1>8, <1>9, <1>10, <1>11 DEF Sorts

(* A visit that is not through with its row is at an item of it.           *)
LEMMA AtItem ==
    ASSUME NEW v \in Visits, NEW lines, VisitGood(v, lines)
    PROVE  /\ Len(Row(v.class)) \in Nat
           /\ RowGood(v.class, Row(v.class), Level(v.class))
           /\ v.at <= Len(Row(v.class)) =>
                 At(v) \in Items /\ RowStep(v.class, Row(v.class), Level(v.class), v.at)
           /\ Level(v.class)[v.at] \in {-1, 0, 1} /\ Inner(v) \in Int
           /\ Level(v.class)[v.at] = -1 => v.class = "Else"
           /\ v.at > Len(Row(v.class)) => Inner(v) = v.base
  <1>1. v.class \in Names /\ v.at \in Nat /\ v.base \in Nat BY DEF Visits
  <1>2. RowGood(v.class, Row(v.class), Level(v.class)) BY <1>1, Rows
  <1>3. Len(Row(v.class)) \in Nat BY <1>2, LenProperties DEF RowGood
  <1>4. v.at \in 1..Len(Row(v.class)) + 1 BY DEF VisitGood
  <1>5. Level(v.class)[v.at] \in {-1, 0, 1} /\ (Level(v.class)[v.at] = -1 => v.class = "Else")
    BY <1>2, <1>4 DEF RowGood
  <1>6. ASSUME v.at <= Len(Row(v.class))
        PROVE  At(v) \in Items /\ RowStep(v.class, Row(v.class), Level(v.class), v.at)
    <2>1. v.at \in 1..Len(Row(v.class)) BY <1>1, <1>3, <1>4, <1>6
    <2> QED BY <1>2, <2>1, ElementOfSeq DEF RowGood, At
  <1>7. ASSUME v.at > Len(Row(v.class)) PROVE Inner(v) = v.base
    <2>1. v.at = Len(Row(v.class)) + 1 BY <1>1, <1>3, <1>4, <1>7
    <2>2. Level(v.class)[v.at] = 0 BY <1>2, <2>1 DEF RowGood
    <2> QED BY <1>1, <2>2 DEF Inner
  <1> QED BY <1>1, <1>2, <1>3, <1>5, <1>6, <1>7 DEF Inner

LEMMA TopGood ==
    ASSUME Types, Chain, visits # <<>>
    PROVE  /\ Len(visits) \in Nat /\ Len(visits) >= 1
           /\ Top \in Visits /\ Top = visits[Len(visits)]
           /\ VisitGood(Top, Len(printed))
           /\ depth = Inner(Top)
           /\ Len(Row(Top.class)) \in Nat
           /\ Now = At(Top)
           /\ ~AtEnd <=> Top.at <= Len(Row(Top.class))
           /\ ~AtEnd => /\ Now \in Items
                        /\ RowStep(Top.class, Row(Top.class), Level(Top.class), Top.at)
                        /\ ~Accepts(Now) => Top.kids = 0
  <1>1. Len(visits) \in Nat /\ Len(visits) >= 1 BY LenPositive DEF Types
  <1>2. Top \in Visits /\ Top = visits[Len(visits)] /\ Len(visits) \in 1..Len(visits)
    BY LastLemma DEF Types, Top
  <1>3. VisitGood(Top, Len(printed)) BY <1>2 DEF Chain
  <1>4. Now = At(Top) BY DEF Now, At
  <1>5. /\ Len(Row(Top.class)) \in Nat
        /\ Top.at <= Len(Row(Top.class)) =>
              At(Top) \in Items /\ RowStep(Top.class, Row(Top.class), Level(Top.class), Top.at)
    BY <1>2, <1>3, AtItem
  <1>6. Top.at \in Nat /\ Top.kids \in Nat BY <1>2 DEF Visits
  <1>7. ~AtEnd <=> Top.at <= Len(Row(Top.class)) BY <1>5, <1>6 DEF AtEnd
  <1>8. ~Accepts(Now) => Top.kids = 0 BY <1>3, <1>4, <1>6 DEF VisitGood
  <1>9. depth = Inner(Top) BY DEF Chain
  <1> QED BY <1>1, <1>2, <1>3, <1>4, <1>5, <1>7, <1>8, <1>9

(* A step that replaces the innermost visit.                               *)
LEMMA Changed ==
    ASSUME PrinterInv, visits # <<>>, NEW top \in Visits,
           visits' = WithTop(visits, top)
    PROVE  /\ visits' \in Seq(Visits) /\ visits' # <<>> /\ Len(visits') = Len(visits)
           /\ \A n \in 1..Len(visits) : n # Len(visits) => visits'[n] = visits[n]
           /\ visits'[Len(visits)] = top
           /\ Top' = top
  <1>1. visits \in Seq(Visits) BY DEF PrinterInv, Types
  <1> DEFINE new == WithTop(visits, top)
  <1>2. new \in Seq(Visits) /\ new # <<>> /\ Len(new) = Len(visits) BY <1>1, TopLemma
  <1>3. new[Len(visits)] = top BY <1>1, TopLemma
  <1>4. Last(new) = top BY <1>1, TopLemma
  <1>5. ASSUME NEW n \in 1..Len(visits), n # Len(visits) PROVE new[n] = visits[n]
    BY <1>1, <1>5, BelowTop
  <1> HIDE DEF new
  <1>6. visits' = new BY DEF new
  <1> QED BY <1>2, <1>3, <1>4, <1>5, <1>6 DEF Top

(* It leaves the visits around it where they are.                          *)
LEMMA ChangedChain ==
    ASSUME PrinterInv, visits # <<>>, NEW top \in Visits,
           visits' = WithTop(visits, top),
           top.class = Top.class, top.base = Top.base, depth' = Inner(top),
           Len(printed) \in Nat, Len(printed') \in Nat, Len(printed') >= Len(printed),
           VisitGood(top, Len(printed'))
    PROVE  Chain' /\ Floors'
  <1> DEFINE N == Len(visits)
  <1>1. N \in Nat /\ N >= 1 /\ Top = visits[N] BY TopGood DEF PrinterInv
  <1>2. /\ visits' \in Seq(Visits) /\ visits' # <<>> /\ Len(visits') = N
        /\ \A n \in 1..N : n # N => visits'[n] = visits[n]
        /\ visits'[N] = top /\ Top' = top
    BY Changed
  <1>3. visits'[1].class = "Program" BY <1>1, <1>2 DEF PrinterInv, Chain
  <1>4. ASSUME NEW n \in 1..N PROVE VisitGood(visits'[n], Len(printed'))
    <2>1. visits[n] \in Visits BY <1>1, ElementOfSeq DEF PrinterInv, Types
    <2>2. VisitGood(visits[n], Len(printed)) BY DEF PrinterInv, Chain
    <2>3. visits[n].under <= Len(printed') /\ visits[n].heads <= Len(printed')
      <3>1. visits[n].under \in Nat /\ visits[n].heads \in Nat BY <2>1 DEF Visits
      <3>2. visits[n].under <= Len(printed) /\ visits[n].heads <= Len(printed)
        BY <2>2 DEF VisitGood
      <3> QED BY <3>1, <3>2
    <2>4. VisitGood(visits[n], Len(printed')) BY <2>2, <2>3 DEF VisitGood
    <2> QED BY <1>2, <2>4
  <1>5. ASSUME NEW n \in 1..N PROVE Floor(visits'[n]) = Floor(visits[n])
    BY <1>1, <1>2 DEF Floor
  <1>6. ASSUME NEW n \in 1..N - 1
        PROVE  /\ visits'[n].kids > 0
               /\ visits'[n + 1].base = Inner(visits'[n])
               /\ visits'[n].class # "Else" => ChildFloor(visits'[n]) <= Floor(visits'[n + 1])
    <2>1. visits'[n] = visits[n] /\ n + 1 \in 1..N BY <1>1, <1>2
    <2>2. visits'[n + 1].base = visits[n + 1].base BY <1>1, <1>2, <2>1
    <2>3. Floor(visits'[n + 1]) = Floor(visits[n + 1]) BY <1>5, <2>1
    <2> QED BY <1>1, <2>1, <2>2, <2>3 DEF PrinterInv, Chain
  <1>7. Chain' BY <1>2, <1>3, <1>4, <1>6 DEF Chain
  <1>8. Floors' BY <1>2, <1>5 DEF Floors, PrinterInv
  <1> QED BY <1>7, <1>8

(* A step that only takes the innermost visit on leaves what heads the     *)
(* lines to come.                                                          *)
LEMMA TopHeaded ==
    ASSUME PrinterInv, visits # <<>>, NEW top,
           top.class = Top.class, top.base = Top.base, top.under = Top.under,
           top.plain = Top.plain, top.kids = 0,
           Len(visits') = Len(visits),
           \A n \in 1..Len(visits) : n # Len(visits) => visits'[n] = visits[n],
           visits'[Len(visits)] = top, printed' = printed
    PROVE  Headed'
  <1> DEFINE N == Len(visits)
  <1>1. N \in Nat /\ N >= 1 /\ Top = visits[N] BY TopGood DEF PrinterInv
  <1> SUFFICES ASSUME NEW n \in 1..N, visits'[n].plain
               PROVE  /\ Heads(printed, Floor(visits'[n]), visits'[n].under)
                      /\ visits'[n].kids > 0 /\ visits'[n].class # "Else" =>
                            Heads(printed, ChildFloor(visits'[n]), ChildHead(visits'[n]))
    BY DEF Headed
  <1>2. CASE n = N
    <2>1. Heads(printed, Floor(Top), Top.under) BY <1>1, <1>2 DEF PrinterInv, Headed
    <2>2. Floor(top) = Floor(Top) BY DEF Floor
    <2> QED BY <1>2, <2>1, <2>2
  <1>3. CASE n # N
    <2>1. visits'[n] = visits[n] BY <1>3
    <2> QED BY <2>1 DEF PrinterInv, Headed
  <1> QED BY <1>2, <1>3

(* Line u still heads what comes after one more line of that depth or more.*)
LEMMA HeadsAppend ==
    ASSUME NEW lines \in Seq(Printed), NEW line \in Printed, NEW d \in Int, NEW u,
           Heads(lines, d, u), line.depth >= d
    PROVE  Heads(Append(lines, line), d, u)
  <1>1. /\ Len(lines) \in Nat
        /\ Len(Append(lines, line)) = Len(lines) + 1
        /\ \A i \in 1..Len(lines) : Append(lines, line)[i] = lines[i]
        /\ Append(lines, line)[Len(lines) + 1] = line
    BY PushLemma
  <1> DEFINE more == Append(lines, line)
  <1> HIDE DEF more
  <1>2. u \in 0..Len(lines) BY DEF Heads
  <1>3. u > 0 => more[u].depth < d BY <1>1, <1>2 DEF Heads, more
  <1>4. ASSUME NEW j \in u + 1..Len(more) PROVE more[j].depth >= d
    <2>1. CASE j = Len(lines) + 1 BY <1>1, <2>1 DEF more
    <2>2. CASE j # Len(lines) + 1
      <3>1. j \in u + 1..Len(lines) /\ j \in 1..Len(lines) BY <1>1, <1>2, <2>2 DEF more
      <3> QED BY <1>1, <3>1 DEF Heads, more
    <2> QED BY <2>1, <2>2
  <1> QED BY <1>1, <1>2, <1>3, <1>4 DEF Heads, more

-----------------------------------------------------------------------------
(* The invariant, action by action.                                        *)

LEMMA InitInv == Init => PrinterInv
  <1> SUFFICES ASSUME Init PROVE PrinterInv OBVIOUS
  <1> DEFINE v == Visit("Program", 0, TRUE, 0)
  <1>1. v \in Visits BY DEF Visit, Visits, Names, Composite
  <1>2. /\ v.class = "Program" /\ v.at = 1 /\ v.kids = 0 /\ v.under = 0 /\ v.heads = 0
        /\ v.base = 0
    BY DEF Visit
  <1> HIDE DEF v
  <1>3. visits = <<v>> /\ printed = <<>> /\ depth = 0 /\ nodes = 0 BY DEF Init, v
  <1>4. /\ visits \in Seq(Visits) /\ visits # <<>> /\ Len(visits) = 1 /\ visits[1] = v
        /\ printed \in Seq(Printed) /\ Len(printed) = 0
    BY <1>1, <1>3
  <1>5. Top = v BY <1>4 DEF Top, Last
  <1>6. VisitGood(v, 0)
    <2>1. RowGood(v.class, Row(v.class), Level(v.class)) BY <1>1, Rows DEF Visits
    <2>2. Len(Row(v.class)) \in Nat BY <2>1, LenProperties DEF RowGood
    <2> QED BY <1>2, <2>2 DEF VisitGood
  <1>7. Types BY <1>3, <1>4 DEF Types
  <1>8. Chain
    <2>1. Level(v.class)[1] = 0 BY <1>1, Rows DEF Visits, RowGood
    <2> QED BY <1>2, <1>3, <1>4, <1>5, <1>6, <2>1 DEF Chain, Inner
  <1>9. Floors BY <1>1, <1>4 DEF Floors, Floor, Visits
  <1>10. Headed BY <1>2, <1>4 DEF Headed, Heads
  <1>11. Latest BY <1>2, <1>5 DEF Latest, AfterLine
  <1>12. Outlined BY <1>4 DEF Outlined
  <1> QED BY <1>7, <1>8, <1>9, <1>10, <1>11, <1>12 DEF PrinterInv

(* A line is as deep as the floor of the visit that prints it, so that it  *)
(* stays in what heads every visit in progress.                            *)
LEMMA PrintLineInv == ASSUME PrinterInv, PrintLine PROVE PrinterInv'
  <1> DEFINE N    == Len(visits)
             top  == [Top EXCEPT !.at = @ + 1, !.heads = Len(printed) + 1]
             line == [depth |-> IF Now.sort = "header" THEN 0 ELSE depth,
                      under |-> Top.under, plain |-> Top.plain]
  <1>1. /\ N \in Nat /\ N >= 1 /\ Top \in Visits /\ Top = visits[N]
        /\ VisitGood(Top, Len(printed)) /\ depth = Inner(Top)
        /\ Len(Row(Top.class)) \in Nat /\ Now = At(Top) /\ visits # <<>>
        /\ RowStep(Top.class, Row(Top.class), Level(Top.class), Top.at)
        /\ IsLine(Now) /\ Top.at <= Len(Row(Top.class)) /\ Top.kids = 0
    <2>1. visits # <<>> /\ ~AtEnd /\ IsLine(Now) BY DEF PrintLine
    <2>2. ~Accepts(Now) BY <2>1 DEF Accepts
    <2> QED BY <2>1, <2>2, TopGood DEF PrinterInv
  <1>2. /\ depth = Top.base /\ Top.class # "StmtBlockStmt"
        /\ Level(Top.class)[Top.at] = 0 /\ Level(Top.class)[Top.at + 1] = 0
        /\ Now.sort = "header" => Top.class = "FunctionDefinition"
    <2>1. ItemGood(Top.class, Now, Level(Top.class)[Top.at]) BY <1>1 DEF RowStep, At
    <2>2. Level(Top.class)[Top.at] = 0 /\ Top.class # "StmtBlockStmt" BY <1>1, <2>1 DEF ItemGood
    <2>3. depth = Top.base BY <1>1, <2>2 DEF Inner, Visits
    <2>4. Now.by = 0 BY <1>1, <2>1 DEF ItemGood, IsLine, IsDepth
    <2> QED BY <1>1, <2>1, <2>2, <2>3, <2>4 DEF RowStep, At, ItemGood
  <1>3. /\ top \in Visits /\ top.class = Top.class /\ top.at = Top.at + 1
        /\ top.kids = 0 /\ top.under = Top.under
        /\ top.heads = Len(printed) + 1 /\ top.plain = Top.plain /\ top.base = Top.base
    <2>1. Len(printed) + 1 \in Nat BY LenProperties DEF PrinterInv, Types
    <2>2. Top \in Visits /\ Top.at + 1 \in Nat /\ Top.kids = 0 BY <1>1 DEF Visits
    <2> QED BY <2>1, <2>2 DEF Visits
  <1>4. /\ line \in Printed /\ line.depth = Top.base /\ line.plain = Top.plain
        /\ line.under = Top.under
    <2>1. Now.sort = "header" => Top.base = 0 BY <1>1, <1>2 DEF VisitGood
    <2>2. Top.base \in Nat /\ Top.under \in Nat /\ Top.plain \in BOOLEAN
      BY <1>1 DEF Visits
    <2> QED BY <1>2, <2>1, <2>2 DEF Printed
  <1>a. visits' = WithTop(visits, top) BY DEF PrintLine, Change, WithTop
  <1>b. printed' = Append(printed, line) BY DEF PrintLine
  <1>5. depth' = depth /\ nodes' = nodes BY DEF PrintLine
  <1> HIDE DEF top, line
  <1>6. /\ visits' \in Seq(Visits) /\ visits' # <<>> /\ Len(visits') = N
        /\ \A n \in 1..N : n # N => visits'[n] = visits[n]
        /\ visits'[N] = top /\ Top' = top
    <2>1. visits # <<>> /\ top \in Visits BY <1>1, <1>3
    <2> QED BY <1>a, <2>1, Changed
  <1>7. /\ printed' \in Seq(Printed) /\ printed' # <<>>
        /\ Len(printed) \in Nat /\ Len(printed') = Len(printed) + 1
        /\ \A i \in 1..Len(printed) : printed'[i] = printed[i]
        /\ printed'[Len(printed) + 1] = line
    <2>1. printed \in Seq(Printed) BY DEF PrinterInv, Types
    <2> QED BY <1>4, <1>b, <2>1, PushLemma
  <1>8. Types' BY <1>5, <1>6, <1>7 DEF Types, PrinterInv
  <1>9. Inner(top) = Inner(Top) BY <1>1, <1>2, <1>3 DEF Inner, Visits
  <1>10. VisitGood(top, Len(printed) + 1) BY <1>1, <1>2, <1>3, <1>7 DEF VisitGood, Visits
  <1>11. Chain' /\ Floors'
    <2>1. depth' = Inner(top) BY <1>1, <1>5, <1>9
    <2> QED BY <1>1, <1>3, <1>7, <1>10, <1>a, <2>1, ChangedChain
  <1>12. Floor(top) = Floor(Top) BY <1>3 DEF Floor
  <1>13. Headed'
    <2> SUFFICES ASSUME NEW n \in 1..N, visits'[n].plain
                 PROVE  /\ Heads(printed', Floor(visits'[n]), visits'[n].under)
                        /\ visits'[n].kids > 0 /\ visits'[n].class # "Else" =>
                              Heads(printed', ChildFloor(visits'[n]), ChildHead(visits'[n]))
      BY <1>6 DEF Headed
    <2>1. /\ visits[n].plain /\ visits'[n].under = visits[n].under
          /\ Floor(visits'[n]) = Floor(visits[n])
      BY <1>1, <1>3, <1>6, <1>12
    <2>2. Heads(printed, Floor(visits[n]), visits[n].under) BY <2>1 DEF PrinterInv, Headed
    <2>3. Floor(visits[n]) <= Floor(visits[N]) BY <1>1 DEF PrinterInv, Floors
    <2>4. Floor(visits[N]) = Top.base BY <1>1, <1>2 DEF Floor, Visits
    <2>5. visits[n] \in Visits BY <1>1, ElementOfSeq DEF PrinterInv, Types
    <2>6. Heads(printed', Floor(visits[n]), visits[n].under)
      <3>1. Floor(visits[n]) \in Int BY <2>5 DEF Floor, Visits
      <3>2. line.depth >= Floor(visits[n]) BY <1>4, <2>3, <2>4
      <3>3. printed \in Seq(Printed) BY DEF PrinterInv, Types
      <3> QED BY <1>4, <1>b, <2>2, <3>1, <3>2, <3>3, HeadsAppend
    <2>7. ASSUME visits'[n].kids > 0, visits'[n].class # "Else"
          PROVE  Heads(printed', ChildFloor(visits'[n]), ChildHead(visits'[n]))
      <3>1. n # N /\ visits'[n] = visits[n] BY <1>3, <1>6, <2>7
      <3>2. n \in 1..N - 1 /\ n + 1 \in 1..N BY <1>1, <3>1
      <3>3. Heads(printed, ChildFloor(visits[n]), ChildHead(visits[n]))
        BY <2>1, <2>7, <3>1 DEF PrinterInv, Headed
      <3>4. ChildFloor(visits[n]) <= Floor(visits[n + 1])
        BY <2>7, <3>1, <3>2 DEF PrinterInv, Chain
      <3>5. Floor(visits[n + 1]) <= Floor(visits[N]) BY <1>1, <3>2 DEF PrinterInv, Floors
      <3>6. visits[n + 1] \in Visits BY <3>2, ElementOfSeq DEF PrinterInv, Types
      <3>7. Floor(visits[n + 1]) \in Int BY <3>6 DEF Floor, Visits
      <3>8. ChildFloor(visits[n]) \in Int
        <4>1. VisitGood(visits[n], Len(printed)) BY DEF PrinterInv, Chain
        <4>2. Inner(visits[n]) \in Int BY <2>5, <4>1, AtItem
        <4> QED BY <4>2 DEF ChildFloor
      <3>9. line.depth \in Int /\ line.depth >= ChildFloor(visits[n])
        BY <1>1, <1>4, <2>4, <3>4, <3>5, <3>7, <3>8 DEF Visits
      <3>10. printed \in Seq(Printed) BY DEF PrinterInv, Types
      <3> QED BY <1>4, <1>b, <3>1, <3>3, <3>8, <3>9, <3>10, HeadsAppend
    <2> QED BY <2>1, <2>6, <2>7
  <1>14. Latest'
    <2>1. printed'[Len(printed')] = line BY <1>7
    <2> QED BY <1>2, <1>3, <1>4, <1>6, <1>7, <2>1 DEF Latest
  <1>15. Outlined'
    <2> SUFFICES ASSUME NEW i \in 1..Len(printed) + 1
                 PROVE  /\ printed'[i].under <= i - 1
                        /\ printed'[i].plain =>
                              /\ printed'[i].under > 0 =>
                                    printed'[printed'[i].under].depth < printed'[i].depth
                              /\ \A j \in printed'[i].under + 1..i - 1 :
                                    printed'[j].depth >= printed'[i].depth
      BY <1>7 DEF Outlined
    <2>1. CASE i = Len(printed) + 1
      <3>1. printed'[i] = line BY <1>7, <2>1
      <3>2. Top.under <= Len(printed) /\ Top.under \in Nat BY <1>1 DEF VisitGood, Visits
      <3>3. ASSUME Top.plain PROVE Heads(printed, Top.base, Top.under)
        <4>1. Floor(Top) = Top.base BY <1>1, <1>2 DEF Floor, Visits
        <4>2. N \in 1..N BY <1>1
        <4> QED BY <1>1, <3>3, <4>1, <4>2 DEF PrinterInv, Headed
      <3>4. ASSUME Top.plain, Top.under > 0 PROVE printed'[Top.under].depth < Top.base
        BY <1>7, <3>2, <3>3, <3>4 DEF Heads
      <3>5. ASSUME Top.plain, NEW j \in Top.under + 1..Len(printed)
            PROVE  printed'[j].depth >= Top.base
        <4>1. j \in 1..Len(printed) BY <1>7, <3>2
        <4> QED BY <1>7, <3>3, <3>5, <4>1 DEF Heads
      <3> QED BY <1>4, <1>7, <2>1, <3>1, <3>2, <3>4, <3>5
    <2>2. CASE i # Len(printed) + 1
      <3>1. i \in 1..Len(printed) /\ printed'[i] = printed[i] BY <1>7, <2>2
      <3>2. printed[i].under <= i - 1 BY <3>1 DEF PrinterInv, Outlined
      <3>3. printed[i] \in Printed BY <3>1, ElementOfSeq DEF PrinterInv, Types
      <3>4. printed[i].under \in Nat BY <3>3 DEF Printed
      <3>5. \A j \in 1..i - 1 : printed'[j] = printed[j] BY <1>7, <3>1
      <3>6. printed[i].under > 0 => printed'[printed[i].under] = printed[printed[i].under]
        BY <3>1, <3>2, <3>4, <3>5
      <3>7. \A j \in printed[i].under + 1..i - 1 : printed'[j] = printed[j]
        BY <3>1, <3>4, <3>5
      <3> QED BY <3>1, <3>2, <3>6, <3>7 DEF PrinterInv, Outlined
    <2> QED BY <2>1, <2>2
  <1> QED BY <1>8, <1>11, <1>13, <1>14, <1>15 DEF PrinterInv

(* What the visit has raised the depth by is the level of its next item.   *)
LEMMA ChangeDepthInv == ASSUME PrinterInv, ChangeDepth PROVE PrinterInv'
  <1> DEFINE N     == Len(visits)
             row   == Row(Top.class)
             level == Level(Top.class)
             top   == [Top EXCEPT !.at = @ + 1]
  <1>1. /\ N \in Nat /\ N >= 1 /\ Top \in Visits /\ Top = visits[N]
        /\ VisitGood(Top, Len(printed)) /\ depth = Inner(Top)
        /\ Len(row) \in Nat /\ Now = At(Top) /\ Now \in Items
        /\ RowStep(Top.class, row, level, Top.at) /\ visits # <<>>
        /\ IsDepth(Now) /\ ~IsLine(Now) /\ Top.at <= Len(row) /\ Top.kids = 0
    <2>1. visits # <<>> /\ ~AtEnd /\ IsDepth(Now) BY DEF ChangeDepth
    <2>2. ~Accepts(Now) /\ ~IsLine(Now) BY <2>1 DEF Accepts, IsDepth, IsLine
    <2> QED BY <2>1, <2>2, TopGood DEF PrinterInv
  <1>2. Top.base \in Nat /\ Top.at \in Nat /\ Top.at >= 1
    <2>1. Top.at >= 1 BY <1>1 DEF VisitGood
    <2> QED BY <1>1, <2>1 DEF Visits
  <1>3. /\ top \in Visits /\ top.class = Top.class /\ top.at = Top.at + 1
        /\ top.kids = 0 /\ top.under = Top.under /\ top.heads = Top.heads
        /\ top.plain = Top.plain /\ top.base = Top.base
    BY <1>1, <1>2 DEF Visits
  <1>4. visits' = WithTop(visits, top) BY DEF ChangeDepth, Change, WithTop
  <1> HIDE DEF top
  <1>5. /\ visits' \in Seq(Visits) /\ visits' # <<>> /\ Len(visits') = N
        /\ \A n \in 1..N : n # N => visits'[n] = visits[n]
        /\ visits'[N] = top /\ Top' = top
    BY <1>1, <1>3, <1>4, Changed
  <1>6. depth' = depth + Now.by /\ printed' = printed /\ nodes' = nodes BY DEF ChangeDepth
  <1>7. /\ level[top.at] = level[Top.at] + Now.by
        /\ level[Top.at] \in {-1, 0, 1} /\ level[top.at] \in {-1, 0, 1}
        /\ level[top.at] = -1 => Top.class = "Else"
    <2>1. level[Top.at + 1] = level[Top.at] + Now.by BY <1>1 DEF RowStep, At
    <2>2. /\ RowGood(Top.class, row, level)
          /\ level[Top.at] \in {-1, 0, 1}
      BY <1>1, AtItem
    <2>3. Top.at + 1 \in 1..Len(row) + 1 BY <1>1, <1>2
    <2> QED BY <1>3, <2>1, <2>2, <2>3 DEF RowGood
  <1>8. VisitGood(top, Len(printed))
    <2>1. top.at \in 1..Len(Row(top.class)) + 1 BY <1>1, <1>2, <1>3
    <2> QED BY <1>1, <1>3, <2>1 DEF VisitGood
  <1>9. depth' = Inner(top) /\ depth' \in Nat
    <2>1. depth = Top.base + level[Top.at] BY <1>1 DEF Inner
    <2> DEFINE now  == level[Top.at]
               next == level[top.at]
    <2>4. now \in Int /\ next = now + Now.by /\ Now.by \in Int BY <1>1, <1>7 DEF Items
    <2> HIDE DEF now, next
    <2>5. depth' = (Top.base + now) + Now.by BY <1>6, <2>1 DEF now
    <2>6. depth' = Top.base + next BY <1>2, <2>4, <2>5
    <2>2. depth' = top.base + level[top.at] BY <1>3, <2>6 DEF next
    <2>3. Top.class = "Else" => Top.base >= 1 BY <1>1 DEF VisitGood
    <2> QED BY <1>2, <1>3, <1>7, <2>2, <2>3 DEF Inner
  <1>10. Types' BY <1>5, <1>6, <1>9 DEF Types, PrinterInv
  <1>11. Chain' /\ Floors'
    <2>1. Len(printed) \in Nat BY LenProperties DEF PrinterInv, Types
    <2> QED BY <1>1, <1>3, <1>4, <1>6, <1>8, <1>9, <2>1, ChangedChain
  <1>12. Headed' BY <1>1, <1>3, <1>5, <1>6, TopHeaded
  <1>13. Latest'
    <2>1. ASSUME AfterLine(row, top.at) PROVE AfterLine(row, Top.at)
      <3>1. row[top.at - 1] = Now BY <1>1, <1>2, <1>3 DEF At
      <3>2. IsLine(row[top.at - 2]) /\ top.at > 2 BY <1>1, <2>1, <3>1 DEF AfterLine
      <3>3. top.at - 2 = Top.at - 1 /\ Top.at > 1 BY <1>2, <1>3, <3>2
      <3> QED BY <3>2, <3>3 DEF AfterLine
    <2> QED BY <1>1, <1>3, <1>5, <1>6, <2>1 DEF Latest, PrinterInv
  <1>14. Outlined' BY <1>6 DEF PrinterInv, Outlined
  <1> QED BY <1>10, <1>11, <1>12, <1>13, <1>14 DEF PrinterInv

(* What heads the children of a part heads the child it goes on with.      *)
LEMMA AcceptChildInv == ASSUME PrinterInv, AcceptChild PROVE PrinterInv'
  <1> DEFINE N      == Len(visits)
             parent == [Top EXCEPT !.kids = @ + 1]
  <1>1. PICK c \in ClassesOf(Now.sort) :
          visits' = Append([visits EXCEPT ![N].kids = @ + 1],
                       Visit(c, IF Now.sort \in Unheaded THEN Top.under ELSE Top.heads,
                             Top.plain /\ Top.class # "Else"
                               /\ ~(c = "StmtBlockStmt" /\ Now.sort = "stmt"), depth))
    BY DEF AcceptChild
  <1> DEFINE plain == Top.plain /\ Top.class # "Else"
                        /\ ~(c = "StmtBlockStmt" /\ Now.sort = "stmt")
             head  == IF Now.sort \in Unheaded THEN Top.under ELSE Top.heads
             child == Visit(c, head, plain, depth)
             below == WithTop(visits, parent)
  <1>2. /\ N \in Nat /\ N >= 1 /\ Top \in Visits /\ Top = visits[N]
        /\ VisitGood(Top, Len(printed)) /\ depth = Inner(Top)
        /\ Now = At(Top) /\ Now \in Items /\ visits # <<>> /\ Accepts(Now)
        /\ Top.at <= Len(Row(Top.class))
        /\ RowStep(Top.class, Row(Top.class), Level(Top.class), Top.at)
    <2>1. visits # <<>> /\ ~AtEnd /\ Accepts(Now) BY DEF AcceptChild
    <2> QED BY <2>1, TopGood DEF PrinterInv
  <1>3. visits \in Seq(Visits) /\ depth \in Nat BY DEF PrinterInv, Types
  <1>4. /\ Top.kids \in Nat /\ Top.heads \in Nat /\ Top.under \in Nat
        /\ Top.plain \in BOOLEAN /\ Top.base \in Nat
        /\ head \in Nat /\ head <= Len(printed) /\ head = ChildHead(Top)
    BY <1>2 DEF Visits, VisitGood, ChildHead
  <1> DEFINE d == Level(Top.class)[Top.at]
  <1>15. /\ depth = Top.base + d /\ d \in {-1, 0, 1} /\ (d = -1 => Top.class = "Else")
         /\ ItemGood(Top.class, Now, d)
    BY <1>2, AtItem DEF Inner, RowStep, At
  <1> HIDE DEF head, d
  <1>5. /\ parent \in Visits /\ parent.class = Top.class /\ parent.at = Top.at
        /\ parent.kids = Top.kids + 1 /\ parent.under = Top.under
        /\ parent.heads = Top.heads /\ parent.plain = Top.plain /\ parent.base = Top.base
    <2>1. Top \in Visits BY <1>2
    <2>2. Top.kids + 1 \in Nat BY <1>4
    <2> QED BY <2>1, <2>2 DEF Visits
  <1>6. Now.sort \in Sorts \ {"line", "header", "depth"}
    BY <1>2 DEF Accepts, IsLine, IsDepth, Items
  <1>7. /\ c \in Names /\ c # "Program"
        /\ c = "IfStmt" => Now.sort = "stmt"
        /\ c = "Else" => Now.sort = "else"
        /\ c = "FunctionDefinition" => Now.sort = "function"
        /\ c = "StmtBlockStmt" => Now.sort \in {"block", "stmt"}
        /\ Now.sort = "block" => c = "StmtBlockStmt"
    BY <1>6, Children
  <1>8. /\ child \in Visits /\ child.class = c /\ child.at = 1 /\ child.kids = 0
        /\ child.under = head /\ child.heads = head /\ child.plain = plain
        /\ child.base = depth
    <2>1. plain \in BOOLEAN BY <1>4
    <2> HIDE DEF plain
    <2> QED BY <1>3, <1>4, <1>7, <2>1 DEF Visit, Visits
  <1>9. visits' = Append(below, child)
    <2>1. below = [visits EXCEPT ![N].kids = @ + 1] BY <1>2 DEF WithTop
    <2> QED BY <1>1, <2>1 DEF head
  <1> HIDE DEF parent, child, below
  <1>10. /\ below \in Seq(Visits) /\ Len(below) = N
         /\ below[N] = parent
         /\ \A n \in 1..N : n # N => below[n] = visits[n]
    <2>1. below \in Seq(Visits) /\ below # <<>> /\ Len(below) = N
      BY <1>2, <1>3, <1>5, TopLemma DEF below
    <2>2. below[N] = parent BY <1>2, <1>3, <1>5, TopLemma DEF below
    <2>3. ASSUME NEW n \in 1..N, n # N PROVE below[n] = visits[n]
      BY <1>3, <1>5, <2>3, BelowTop DEF below
    <2> QED BY <2>1, <2>2, <2>3
  <1>11. /\ visits' \in Seq(Visits) /\ visits' # <<>> /\ Len(visits') = N + 1
         /\ \A n \in 1..N : visits'[n] = below[n]
         /\ visits'[N + 1] = child
    BY <1>8, <1>9, <1>10, PushLemma
  <1>12. Top' = child BY <1>11 DEF Top, Last
  <1>13. depth' = depth /\ printed' = printed /\ nodes' = nodes + 1 BY DEF AcceptChild
  <1>14. Types' BY <1>11, <1>13 DEF Types, PrinterInv
  <1>16. Len(printed) \in Nat BY LenProperties DEF PrinterInv, Types
  <1>17. VisitGood(child, Len(printed))
    <2>1. RowGood(c, Row(c), Level(c)) BY <1>7, Rows
    <2>2. Len(Row(c)) \in Nat BY <2>1, LenProperties DEF RowGood
    <2>3. c = "IfStmt" => depth >= 1
      <3>1. Now.sort = "stmt" => d = 1 BY <1>2, <1>15 DEF ItemGood
      <3> QED BY <1>4, <1>7, <1>15, <3>1
    <2>4. c = "Else" => depth >= 1
      <3>1. Now.sort = "else" => d = 0 /\ Top.base >= 1
        BY <1>2, <1>15 DEF ItemGood, VisitGood, Unheaded
      <3> QED BY <1>4, <1>7, <1>15, <3>1
    <2>5. c = "FunctionDefinition" => depth = 0
      <3>1. Now.sort = "function" => d = 0 /\ Top.base = 0
        BY <1>2, <1>15 DEF ItemGood, VisitGood, Unheaded
      <3> QED BY <1>4, <1>7, <1>15, <3>1
    <2> QED BY <1>4, <1>7, <1>8, <1>16, <2>2, <2>3, <2>4, <2>5 DEF VisitGood
  <1>18. ChildFloor(parent) = ChildFloor(Top) /\ Floor(parent) = Floor(Top)
         /\ Inner(parent) = Inner(Top) /\ ChildHead(parent) = ChildHead(Top)
    BY <1>5 DEF ChildFloor, ChildHead, Floor, Inner, At
  <1>19. /\ ChildFloor(Top) = depth + (IF Now.sort = "block" THEN 1 ELSE 0)
         /\ Floor(child) = depth + (IF c = "StmtBlockStmt" THEN 1 ELSE 0)
    BY <1>2, <1>8 DEF ChildFloor, Floor
  <1>20. Floor(Top) <= Floor(child) /\ Floor(child) \in Int /\ Floor(Top) \in Int
    <2> DEFINE e == IF c = "StmtBlockStmt" THEN 1 ELSE 0
    <2>1. e \in {0, 1} /\ (c = "StmtBlockStmt" => e = 1) OBVIOUS
    <2>2. Floor(child) = depth + e BY <1>19
    <2> HIDE DEF e
    <2>3. depth = Top.base + d /\ d \in {-1, 0, 1} /\ Top.base \in Nat BY <1>4, <1>15
    <2>4. CASE Top.class = "StmtBlockStmt"
      <3>1. d = 1 BY <1>2, <1>15, <2>4 DEF ItemGood
      <3>2. Floor(Top) = Top.base + 1 BY <2>4 DEF Floor
      <3> QED BY <2>1, <2>2, <2>3, <3>1, <3>2
    <2>5. CASE Top.class # "StmtBlockStmt"
      <3>1. d = -1 => c = "StmtBlockStmt" BY <1>2, <1>7, <1>15 DEF ItemGood
      <3>2. Floor(Top) = Top.base BY <2>3, <2>5 DEF Floor
      <3> QED BY <2>1, <2>2, <2>3, <3>1, <3>2
    <2> QED BY <2>4, <2>5
  <1>21. Chain'
    <2>1. visits'[1].class = "Program" BY <1>2, <1>5, <1>10, <1>11 DEF PrinterInv, Chain
    <2>2. VisitGood(parent, Len(printed)) BY <1>2, <1>5 DEF VisitGood, At
    <2>3. ASSUME NEW n \in 1..N + 1 PROVE VisitGood(visits'[n], Len(printed))
      <3>1. n \in 1..N /\ n # N => VisitGood(visits'[n], Len(printed))
        BY <1>10, <1>11 DEF PrinterInv, Chain
      <3>2. n \in 1..N \/ n = N + 1 BY <1>2
      <3> QED BY <1>2, <1>10, <1>11, <1>17, <2>2, <3>1, <3>2
    <2>4. ASSUME NEW n \in 1..N
          PROVE  /\ visits'[n].kids > 0
                 /\ visits'[n + 1].base = Inner(visits'[n])
                 /\ visits'[n].class # "Else" =>
                       ChildFloor(visits'[n]) <= Floor(visits'[n + 1])
      <3>1. CASE n = N
        <4>1. visits'[n] = parent /\ visits'[n + 1] = child BY <1>2, <1>10, <1>11, <3>1
        <4>2. ChildFloor(Top) <= Floor(child) BY <1>3, <1>7, <1>19
        <4>3. parent.kids > 0 BY <1>4, <1>5
        <4>4. child.base = Inner(parent) BY <1>2, <1>8, <1>18
        <4>5. parent.class # "Else" => ChildFloor(parent) <= Floor(child)
          BY <1>18, <4>2
        <4> QED BY <4>1, <4>3, <4>4, <4>5
      <3>2. CASE n # N
        <4>1. n \in 1..N - 1 /\ n + 1 \in 1..N BY <1>2, <3>2
        <4>2. visits'[n] = visits[n] BY <1>10, <1>11, <3>2
        <4>3. /\ visits'[n + 1].base = visits[n + 1].base
              /\ Floor(visits'[n + 1]) = Floor(visits[n + 1])
          BY <1>2, <1>5, <1>10, <1>11, <1>18, <4>1
        <4> QED BY <4>1, <4>2, <4>3 DEF PrinterInv, Chain
      <3> QED BY <3>1, <3>2
    <2>5. depth' = Inner(child)
      <3>1. Level(c)[1] = 0 BY <1>7, Rows DEF RowGood
      <3> QED BY <1>3, <1>8, <1>13, <3>1 DEF Inner
    <2>6. \A n \in 1..(N + 1) - 1 : n \in 1..N BY <1>2
    <2> QED BY <1>11, <1>12, <1>13, <2>1, <2>3, <2>4, <2>5, <2>6 DEF Chain
  <1>22. Floors'
    <2>1. \A n \in 1..N : Floor(visits'[n]) = Floor(visits[n])
      BY <1>2, <1>10, <1>11, <1>18
    <2>2. ASSUME NEW m \in 1..N + 1, NEW n \in 1..m
          PROVE  Floor(visits'[n]) <= Floor(visits'[m])
      <3>1. CASE m \in 1..N
        <4>1. n \in 1..N BY <1>2, <3>1
        <4>2. Floor(visits[n]) <= Floor(visits[m]) BY <3>1 DEF PrinterInv, Floors
        <4> QED BY <2>1, <3>1, <4>1, <4>2
      <3>2. CASE m = N + 1 /\ n \in 1..N
        <4>1. Floor(visits[n]) <= Floor(Top)
          <5>1. N \in 1..N /\ n \in 1..N BY <1>2, <3>2
          <5> QED BY <1>2, <5>1 DEF PrinterInv, Floors
        <4>2. Floor(visits[n]) \in Int
          <5>1. visits[n] \in Visits BY <1>3, <3>2, ElementOfSeq
          <5> QED BY <5>1 DEF Floor, Visits
        <4> QED BY <1>11, <1>20, <2>1, <3>2, <4>1, <4>2
      <3>3. CASE m = N + 1 /\ n = N + 1 BY <1>11, <1>20, <3>3
      <3> QED BY <1>2, <3>1, <3>2, <3>3
    <2> QED BY <1>11, <2>2 DEF Floors
  <1>23. ASSUME Top.plain, Top.class # "Else"
         PROVE  Heads(printed, ChildFloor(Top), ChildHead(Top))
    <2>1. N \in 1..N BY <1>2
    <2>2. Heads(printed, Floor(Top), Top.under) BY <1>2, <1>23, <2>1 DEF PrinterInv, Headed
    <2>3. CASE Top.kids > 0 BY <1>2, <1>23, <2>1, <2>3 DEF PrinterInv, Headed
    <2>4. CASE Now.sort \in Unheaded
      <3>1. d = 0 /\ Top.class # "StmtBlockStmt" /\ Now.sort # "block"
        BY <1>2, <1>15, <2>4 DEF ItemGood, Unheaded
      <3>2. ChildFloor(Top) = Floor(Top) BY <1>4, <1>15, <1>19, <3>1 DEF Floor
      <3> QED BY <1>2, <2>2, <2>4, <3>2 DEF ChildHead
    <2>5. CASE Top.class = "StmtBlockStmt"
      <3>1. d = 1 /\ Now.sort = "stmt" BY <1>2, <1>15, <2>5 DEF ItemGood
      <3>2. ChildFloor(Top) = Floor(Top) BY <1>4, <1>15, <1>19, <2>5, <3>1 DEF Floor
      <3>3. Top.heads = Top.under BY <1>2, <2>5 DEF VisitGood
      <3> QED BY <2>2, <3>2, <3>3 DEF ChildHead
    <2>6. CASE Top.kids = 0 /\ Now.sort \notin Unheaded /\ Top.class # "StmtBlockStmt"
      <3>1. /\ d = 1 \/ Now.sort = "block"
            /\ AfterLine(Row(Top.class), Top.at)
        BY <1>2, <1>15, <1>23, <2>6 DEF ItemGood, RowStep, At
      <3>2. /\ printed # <<>> /\ printed[Len(printed)].depth = Top.base
            /\ Top.heads = Len(printed)
        BY <1>2, <2>6, <3>1 DEF PrinterInv, Latest
      <3>5. d \in {0, 1} /\ (d = 1 \/ Now.sort = "block") BY <1>15, <1>23, <3>1
      <3>6. Top.base \in Nat /\ depth = Top.base + d BY <1>4, <1>15
      <3>3. ChildFloor(Top) \in Int /\ ChildFloor(Top) > Top.base BY <1>19, <3>5, <3>6
      <3>4. ChildHead(Top) = Len(printed) BY <1>2, <2>6, <3>2 DEF ChildHead
      <3> QED BY <1>4, <1>16, <3>2, <3>3, <3>4 DEF Heads
    <2> QED BY <1>4, <2>3, <2>4, <2>5, <2>6
  <1>24. Headed'
    <2> SUFFICES ASSUME NEW n \in 1..N + 1, visits'[n].plain
                 PROVE  /\ Heads(printed, Floor(visits'[n]), visits'[n].under)
                        /\ visits'[n].kids > 0 /\ visits'[n].class # "Else" =>
                              Heads(printed, ChildFloor(visits'[n]), ChildHead(visits'[n]))
      BY <1>11, <1>13 DEF Headed
    <2>1. CASE n = N + 1
      <3>1. Top.plain /\ Top.class # "Else" /\ ~(c = "StmtBlockStmt" /\ Now.sort = "stmt")
        BY <1>8, <1>11, <2>1
      <3>2. Floor(child) = ChildFloor(Top) BY <1>7, <1>19, <3>1
      <3>3. child.under = ChildHead(Top) /\ ~(child.kids > 0) BY <1>4, <1>8
      <3> QED BY <1>11, <1>23, <2>1, <3>1, <3>2, <3>3
    <2>2. CASE n = N
      <3>1. visits'[n] = parent /\ N \in 1..N BY <1>2, <1>10, <1>11, <2>2
      <3>2. Heads(printed, Floor(Top), Top.under)
        BY <1>2, <1>5, <2>2, <3>1 DEF PrinterInv, Headed
      <3> QED BY <1>5, <1>18, <1>23, <2>2, <3>1, <3>2
    <2>3. CASE n \in 1..N /\ n # N
      <3>1. visits'[n] = visits[n] BY <1>10, <1>11, <2>3
      <3> QED BY <2>3, <3>1 DEF PrinterInv, Headed
    <2> QED BY <1>2, <2>1, <2>2, <2>3
  <1>26. Latest' BY <1>8, <1>12 DEF Latest, AfterLine
  <1>25. Outlined' BY <1>13 DEF PrinterInv, Outlined
  <1> QED BY <1>14, <1>21, <1>22, <1>24, <1>25, <1>26 DEF PrinterInv

(* The level is the same before a child and after it.                      *)
LEMMA GoOnInv == ASSUME PrinterInv, GoOn PROVE PrinterInv'
  <1> DEFINE N     == Len(visits)
             row   == Row(Top.class)
             level == Level(Top.class)
             top   == [Top EXCEPT !.at = @ + 1, !.kids = 0]
  <1>1. /\ N \in Nat /\ N >= 1 /\ Top \in Visits /\ Top = visits[N]
        /\ VisitGood(Top, Len(printed)) /\ depth = Inner(Top)
        /\ Len(row) \in Nat /\ Now = At(Top) /\ Now \in Items
        /\ RowStep(Top.class, row, level, Top.at) /\ visits # <<>>
        /\ ~IsDepth(Now) /\ ~IsLine(Now) /\ Top.at <= Len(row)
    <2>1. visits # <<>> /\ ~AtEnd /\ Accepts(Now) BY DEF GoOn
    <2> QED BY <2>1, TopGood DEF PrinterInv, Accepts
  <1>2. Top.base \in Nat /\ Top.at \in Nat /\ Top.at >= 1
    <2>1. Top.at >= 1 BY <1>1 DEF VisitGood
    <2> QED BY <1>1, <2>1 DEF Visits
  <1>3. /\ top \in Visits /\ top.class = Top.class /\ top.at = Top.at + 1
        /\ top.kids = 0 /\ top.under = Top.under /\ top.heads = Top.heads
        /\ top.plain = Top.plain /\ top.base = Top.base
    <2>1. Top \in Visits /\ Top.at + 1 \in Nat BY <1>1, <1>2
    <2> QED BY <2>1 DEF Visits
  <1>4. visits' = WithTop(visits, top) BY DEF GoOn, Change, WithTop
  <1> HIDE DEF top
  <1>5. /\ visits' \in Seq(Visits) /\ visits' # <<>> /\ Len(visits') = N
        /\ \A n \in 1..N : n # N => visits'[n] = visits[n]
        /\ visits'[N] = top /\ Top' = top
    BY <1>1, <1>3, <1>4, Changed
  <1>6. depth' = depth /\ printed' = printed /\ nodes' = nodes BY DEF GoOn
  <1>7. /\ level[top.at] = level[Top.at] + Now.by
        /\ level[Top.at] \in {-1, 0, 1} /\ level[top.at] \in {-1, 0, 1}
        /\ level[top.at] = -1 => Top.class = "Else"
    <2>1. level[Top.at + 1] = level[Top.at] + Now.by BY <1>1 DEF RowStep, At
    <2>2. /\ RowGood(Top.class, row, level)
          /\ level[Top.at] \in {-1, 0, 1}
      BY <1>1, AtItem
    <2>3. Top.at + 1 \in 1..Len(row) + 1 BY <1>1, <1>2
    <2> QED BY <1>3, <2>1, <2>2, <2>3 DEF RowGood
  <1>8. VisitGood(top, Len(printed))
    <2>1. top.at \in 1..Len(Row(top.class)) + 1 BY <1>1, <1>2, <1>3
    <2> QED BY <1>1, <1>3, <2>1 DEF VisitGood
  <1>9. depth' = Inner(top) /\ depth' \in Nat
    <2>1. Now.by = 0 BY <1>1 DEF RowStep, ItemGood, At
    <2>2. level[top.at] = level[Top.at] BY <1>7, <2>1
    <2>3. Inner(top) = Inner(Top) BY <1>3, <2>2 DEF Inner
    <2> QED BY <1>1, <1>6, <2>3 DEF PrinterInv, Types
  <1>10. Types' BY <1>5, <1>6, <1>9 DEF Types, PrinterInv
  <1>11. Chain' /\ Floors'
    <2>1. Len(printed) \in Nat BY LenProperties DEF PrinterInv, Types
    <2> QED BY <1>1, <1>3, <1>4, <1>6, <1>8, <1>9, <2>1, ChangedChain
  <1>12. Headed' BY <1>1, <1>3, <1>5, <1>6, TopHeaded
  <1>13. Latest'
    <2>1. row[top.at - 1] = Now BY <1>1, <1>2, <1>3 DEF At
    <2>2. ~AfterLine(row, top.at) BY <1>1, <2>1 DEF AfterLine
    <2> QED BY <1>3, <1>5, <2>2 DEF Latest
  <1>14. Outlined' BY <1>6 DEF PrinterInv, Outlined
  <1> QED BY <1>10, <1>11, <1>12, <1>13, <1>14 DEF PrinterInv

(* What a visit returns to is the one it was called from, with the depth   *)
(* it was called at.                                                       *)
LEMMA ReturnInv == ASSUME PrinterInv, Return PROVE PrinterInv'
  <1> DEFINE N == Len(visits)
  <1>1. /\ N \in Nat /\ N >= 1 /\ Top \in Visits /\ Top = visits[N]
        /\ VisitGood(Top, Len(printed)) /\ depth = Inner(Top)
        /\ Len(Row(Top.class)) \in Nat /\ visits # <<>>
    BY TopGood DEF PrinterInv, Return
  <1>2. Top.at > Len(Row(Top.class)) BY DEF Return, AtEnd
  <1>3. depth = Top.base BY <1>1, <1>2, AtItem
  <1>4. /\ visits' \in Seq(Visits) /\ Len(visits') = N - 1
        /\ \A n \in 1..N - 1 : visits'[n] = visits[n]
    BY <1>1, FrontLemma DEF Return, PrinterInv, Types
  <1>5. printed' = printed /\ depth' = depth /\ nodes' = nodes BY DEF Return
  <1>6. Types' BY <1>4, <1>5 DEF Types, PrinterInv
  <1>7. visits' # <<>> => N > 1 /\ Top' = visits[N - 1]
    <2>1. ASSUME visits' # <<>> PROVE N > 1 /\ Top' = visits[N - 1]
      <3>1. Len(visits') >= 1 BY <1>4, <2>1, LenPositive
      <3>2. Top' = visits'[N - 1] BY <1>4 DEF Top, Last
      <3>3. N > 1 /\ N - 1 \in 1..N - 1 BY <1>1, <1>4, <3>1
      <3> QED BY <1>4, <3>2, <3>3
    <2> QED BY <2>1
  <1>8. Chain'
    <2>1. depth' = IF visits' = <<>> THEN 0 ELSE Inner(Top')
      <3>1. CASE visits' = <<>>
        <4>1. N = 1 BY <1>1, <1>4, <3>1
        <4>2. Top.base = 0 BY <1>1, <4>1 DEF PrinterInv, Chain, VisitGood
        <4> QED BY <1>3, <1>5, <3>1, <4>2
      <3>2. CASE visits' # <<>>
        <4>1. N - 1 \in 1..N - 1 /\ (N - 1) + 1 = N BY <1>1, <1>7, <3>2
        <4>2. Top.base = Inner(visits[N - 1]) BY <1>1, <4>1 DEF PrinterInv, Chain
        <4> QED BY <1>3, <1>5, <1>7, <3>2, <4>2
      <3> QED BY <3>1, <3>2
    <2>2. visits' # <<>> => visits'[1].class = "Program"
      BY <1>1, <1>4, <1>7 DEF PrinterInv, Chain
    <2>3. \A n \in 1..N - 1 : VisitGood(visits'[n], Len(printed))
      BY <1>1, <1>4 DEF PrinterInv, Chain
    <2>4. ASSUME NEW n \in 1..(N - 1) - 1
          PROVE  /\ visits'[n].kids > 0
                 /\ visits'[n + 1].base = Inner(visits'[n])
                 /\ visits'[n].class # "Else" =>
                       ChildFloor(visits'[n]) <= Floor(visits'[n + 1])
      <3>1. n \in 1..N - 1 /\ n + 1 \in 1..N - 1 BY <1>1
      <3>2. visits'[n] = visits[n] /\ visits'[n + 1] = visits[n + 1] BY <1>4, <3>1
      <3> QED BY <3>1, <3>2 DEF PrinterInv, Chain
    <2> QED BY <1>4, <1>5, <2>1, <2>2, <2>3, <2>4 DEF Chain
  <1>9. \A n \in 1..N - 1 : n \in 1..N BY <1>1
  <1>10. Floors'
    <2>1. ASSUME NEW m \in 1..N - 1, NEW n \in 1..m PROVE Floor(visits'[n]) <= Floor(visits'[m])
      <3>1. n \in 1..N - 1 /\ m \in 1..N BY <1>1
      <3>2. visits'[n] = visits[n] /\ visits'[m] = visits[m] BY <1>4, <3>1
      <3> QED BY <3>1, <3>2 DEF Floors, PrinterInv
    <2> QED BY <1>4, <2>1 DEF Floors
  <1>11. Headed' BY <1>4, <1>5, <1>9 DEF Headed, PrinterInv
  <1>12. Latest'
    <2>1. ASSUME visits' # <<>> PROVE Top'.kids > 0 /\ Top'.kids # 0
      <3>1. N - 1 \in 1..N - 1 BY <1>1, <1>7, <2>1
      <3>2. visits[N - 1].kids > 0 BY <3>1 DEF PrinterInv, Chain
      <3> QED BY <1>7, <2>1, <3>2
    <2> QED BY <2>1 DEF Latest
  <1>13. Outlined' BY <1>5 DEF PrinterInv, Outlined
  <1> QED BY <1>6, <1>8, <1>10, <1>11, <1>12, <1>13 DEF PrinterInv

-----------------------------------------------------------------------------
(* The theorems.                                                           *)

LEMMA StepInv == PrinterInv /\ [Next]_vars => PrinterInv'
  <1> SUFFICES ASSUME PrinterInv, [Next]_vars PROVE PrinterInv' OBVIOUS
  <1>1. CASE PrintLine BY <1>1, PrintLineInv
  <1>2. CASE ChangeDepth BY <1>2, ChangeDepthInv
  <1>3. CASE AcceptChild BY <1>3, AcceptChildInv
  <1>4. CASE GoOn BY <1>4, GoOnInv
  <1>5. CASE Return BY <1>5, ReturnInv
  <1>6. CASE UNCHANGED vars
    BY <1>6 DEF vars, PrinterInv, Types, Chain, Floors, Headed, Latest, Outlined, Top, Now
  <1> QED BY <1>1, <1>2, <1>3, <1>4, <1>5, <1>6 DEF Next, Ended

LEMMA Invariant == Spec => []PrinterInv
  BY InitInv, StepInv, PTL DEF Spec

(* _depth, which is unsigned, is never lowered below zero, whatever is     *)
(* printed: the else part's --_depth has an if statement's depth to lower. *)
THEOREM DepthUnsigned == Spec => []TypeOK
  <1>1. PrinterInv => TypeOK
    <2> SUFFICES ASSUME PrinterInv PROVE TypeOK OBVIOUS
    <2>1. depth \in Nat /\ nodes \in Nat BY DEF PrinterInv, Types
    <2>2. \A n \in 1..Len(visits) : visits[n].at \in 1..Len(Row(visits[n].class)) + 1
      BY DEF PrinterInv, Chain, VisitGood
    <2>3. ASSUME NEW n \in 1..Len(printed) PROVE printed[n].under \in 0..n - 1
      <3>1. printed[n] \in Printed /\ Len(printed) \in Nat
        BY ElementOfSeq, LenProperties DEF PrinterInv, Types
      <3>2. printed[n].under <= n - 1 BY DEF PrinterInv, Outlined
      <3> QED BY <3>1, <3>2 DEF Printed
    <2> QED BY <2>1, <2>2, <2>3 DEF TypeOK
  <1> QED BY <1>1, Invariant, PTL

(* Every _depth++ of every visit is undone by a _depth-- of its own, and   *)
(* every _depth-- by a _depth++: the visit prints each of its lines, and   *)
(* returns, at the depth it was called at, over whatever tree.             *)
THEOREM DepthRestored == Spec => []Restored
  <1>1. ASSUME PrinterInv, visits # <<>>, AtEnd PROVE depth = Top.base
    <2>1. Top \in Visits /\ depth = Inner(Top) /\ VisitGood(Top, Len(printed))
      BY <1>1, TopGood DEF PrinterInv
    <2> QED BY <1>1, <2>1, AtItem DEF AtEnd
  <1>2. ASSUME PrinterInv, visits # <<>>, ~AtEnd, IsLine(Now) PROVE depth = Top.base
    <2>1. /\ Top \in Visits /\ depth = Inner(Top) /\ Now = At(Top)
          /\ RowStep(Top.class, Row(Top.class), Level(Top.class), Top.at)
      BY <1>2, TopGood DEF PrinterInv
    <2>2. Level(Top.class)[Top.at] = 0 BY <1>2, <2>1 DEF RowStep, ItemGood, At
    <2> QED BY <2>1, <2>2 DEF Inner, Visits
  <1>3. PrinterInv => Restored BY <1>1, <1>2 DEF Restored
  <1> QED BY <1>3, Invariant, PTL

(* The indentation alone tells the tree: the last line above that is less  *)
(* deep is the one a line belongs under.                                   *)
LEMMA HeadingFound ==
    ASSUME PrinterInv, NEW i \in 1..Len(printed), printed[i].plain
    PROVE  Heading(i) = printed[i].under
  <1> DEFINE u     == printed[i].under
             above == {j \in 1..i - 1 : printed[j].depth < printed[i].depth}
  <1>1. printed \in Seq(Printed) /\ Len(printed) \in Nat
    BY LenProperties DEF PrinterInv, Types
  <1>2. u \in Nat /\ u <= i - 1
    <2>1. printed[i] \in Printed BY <1>1, ElementOfSeq
    <2> QED BY <2>1 DEF PrinterInv, Outlined, Printed
  <1>3. ASSUME NEW j \in 1..Len(printed) PROVE printed[j].depth \in Nat
    <2>1. printed[j] \in Printed BY <1>1, ElementOfSeq
    <2> QED BY <2>1 DEF Printed
  <1>4. u > 0 => printed[u].depth < printed[i].depth BY DEF PrinterInv, Outlined
  <1>5. \A j \in u + 1..i - 1 : printed[j].depth >= printed[i].depth
    BY DEF PrinterInv, Outlined
  <1>6. \A j \in above : j <= u
    <2> SUFFICES ASSUME NEW j \in above, j > u PROVE FALSE BY <1>1, <1>2
    <2>1. j \in u + 1..i - 1 /\ j \in 1..Len(printed) BY <1>1, <1>2
    <2> QED BY <1>3, <1>5, <2>1
  <1>7. Heading(i) = IF above = {} THEN 0 ELSE Max(above) BY DEF Heading
  <1>8. \A j \in above : j \in Nat /\ j >= 1 OBVIOUS
  <1>9. u > 0 => u \in above BY <1>1, <1>2, <1>4
  <1> HIDE DEF above
  <1>10. CASE u = 0
    <2>1. above = {} BY <1>6, <1>8, <1>10
    <2> QED BY <1>7, <1>10, <2>1
  <1>11. CASE u > 0
    <2>1. \A x \in above : u >= x BY <1>2, <1>6, <1>8
    <2>2. \A x \in above : (\A y \in above : x >= y) => x = u
      BY <1>2, <1>8, <1>9, <1>11, <2>1
    <2>3. Max(above) = u BY <1>9, <1>11, <2>1, <2>2 DEF Max
    <2> QED BY <1>7, <1>9, <1>11, <2>3
  <1> QED BY <1>2, <1>10, <1>11

THEOREM LinesOutline == Spec => []Outline
  <1>1. PrinterInv => Outline BY HeadingFound DEF Outline
  <1> QED BY <1>1, Invariant, PTL

=============================================================================
