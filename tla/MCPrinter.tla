----------------------------- MODULE MCPrinter -----------------------------
(* An instance of Printer for TLC: every class, of the expressions without *)
(* children one.                                                           *)
EXTENDS Printer

OneOfEach ==
    {"StmtBlockStmt", "VarDeclStmt", "ArrayDeclStmt", "PrintStmt", "IfStmt", "WhileStmt",
     "ForStmt", "ReturnStmt", "AbortStmt", "ArrayAssignment", "VarAssignment",
     "NumExpr", "TernaryExpr", "BinopExpr", "UnaryExpr", "SizeofExpr", "ArrayExpr",
     "FnCallExpr"}
=============================================================================
