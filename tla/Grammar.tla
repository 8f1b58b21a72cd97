------------------------------ MODULE Grammar ------------------------------
(***************************************************************************)
(* What the parser promises: the grammar of the language (README.md:3-63)  *)
(* over the Token enumerators, and the text that a node of the tree stands *)
(* for in it.  Neither is taken from the parser: Text is a function of the *)
(* fields a node class of baseast.hpp has, Rules is the README's table.    *)
(***************************************************************************)
EXTENDS LilTypes, Naturals

(* What Text puts where a node has a null child: the places where the      *)
(* grammar asks for an expression and the parser lets a null through, and  *)
(* any other.                                                              *)
KnownHoles == {"nullArgument", "nullCondition", "nullElse", "nullSize"}
Hole(fn)   == CASE fn = "parseFnArgs"      -> "nullArgument"
                [] fn = "parseIfStmt"      -> "nullCondition"
                [] fn = "parseTernaryExpr" -> "nullElse"
                [] fn = "parseArrayDecls"  -> "nullSize"
                [] OTHER                   -> "nullOther"

Or(node, fn) == IF node = <<>> THEN <<Hole(fn)>> ELSE node

(* The items of a list, one after the other and with commas between them.  *)
Run(texts) ==
    LET upTo[i \in 0..Len(texts)] ==
          IF i = 0 THEN <<>> ELSE upTo[i - 1] \o texts[i]
    IN  upTo[Len(texts)]

Listed(texts) ==
    LET upTo[i \in 0..Len(texts)] ==
          IF i = 0 THEN <<>>
          ELSE upTo[i - 1] \o (IF i = 1 THEN <<>> ELSE <<"Comma">>) \o texts[i]
    IN  upTo[Len(texts)]

Paren(text) == <<"PL">> \o text \o <<"PR">>
ArrayText(name, size) == <<name, "SL">> \o Or(size, "parseArrayDecls") \o <<"SR">>

Optional(words, node) == IF node = <<>> THEN <<>> ELSE words \o node

(* The text of the node that function fn builds from the operator or type  *)
(* op and the children.                                                    *)
Text(fn, op, kids) ==
    LET k == [i \in DOMAIN kids |-> Or(kids[i], fn)]
    IN CASE fn = "parseTrueExpr"     -> <<"Literal_true">>
         [] fn = "parseFalseExpr"    -> <<"Literal_false">>
         [] fn = "parseNumberExpr"   -> <<"Number">>
         [] fn = "parseIdentExpr"    -> <<"Id">>
         [] fn = "parseTernaryExpr"  ->
              Paren(k[1] \o <<"Op_question">> \o k[2] \o <<"Op_colon">> \o k[3])
         [] fn = "parseSizeofExpr"   -> <<"Sizeof">> \o Paren(k[1])
         [] fn = "parseInputExpr"    -> <<"Input", "PL", "PR">>
         [] fn = "parseArrayExpr"    -> ArrayText("Id", k[1])
         [] fn = "parseFncallExpr"   -> <<"Id">> \o k[1]
         [] fn = "parseBinopExpr"    -> Paren(k[1] \o <<op>> \o k[2])
         [] fn = "parseUnaryopExpr"  -> Paren(<<op>> \o k[1])
         [] fn = "parseVarDecls"     -> <<op>> \o Run(k)
         [] fn = "parseArrayDecls"   -> <<"Type_array">> \o Listed(k)
         [] fn = "parsePrintStmt"    -> <<"Print">> \o k[1]
         [] fn = "parseAbortStmt"    -> <<"Abort">> \o k[1]
         [] fn = "parseIfStmt"       ->
              <<"If">> \o Paren(k[1]) \o k[2] \o Optional(<<"Else">>, kids[3])
         [] fn = "parseWhileStmt"    -> <<"While">> \o Paren(k[1]) \o k[2]
         [] fn = "parseForStmt"      ->
              <<"For">> \o Paren(k[1] \o <<"Op_colon">> \o k[2]) \o k[3]
         [] fn = "parseVarAssignment"   -> <<"Id", "Op_assignment">> \o k[1]
         [] fn = "parseArrayAssignment" ->
              ArrayText("Id", k[1]) \o <<"Op_assignment">> \o k[2]
         [] fn = "parseReturnStmt"   -> <<"Return">> \o Optional(<<>>, kids[1])
         [] fn = "parseStmtBlock"    -> <<"CL">> \o Run(k) \o <<"CR">>
         [] fn = "parseFnDef"        -> <<op, "Id">> \o k[1] \o k[2]
         [] OTHER                    -> Paren(Listed(k))  \* arguments, parameters
-----------------------------------------------------------------------------
(* The grammar: the right-hand sides of each nonterminal.  `expr*' is a    *)
(* possibly empty list of arguments, `, expr' what may follow one of them. *)
(* A comment leaves an empty line.  README.md gives `type' for every       *)
(* declaration; where the parser has a rule of its own for one of the      *)
(* types (an array is declared with its size, a parameter is not void) the *)
(* README's rule for it is the one taken.                                  *)

Nonterminals == {"program", "function", "param", "params", "stmtblock", "stmts",
                 "stmt", "idents", "arrays", "else", "strings", "expr", "args",
                 "binop", "unaryop", "vartype"}

Rules ==
    [program   |-> {<<"function", "EOL", "End">>, <<"function", "EOL", "program">>},
     function  |-> {<<t, "Id", "PL", "PR", "stmtblock">> : t \in TypeTokens} \cup
                   {<<t, "Id", "PL", "param", "params", "PR", "stmtblock">> :
                        t \in TypeTokens},
     param     |-> {<<t, "Id">> : t \in ParamTokens},
     params    |-> {<<>>, <<"Comma", "param", "params">>},
     stmtblock |-> {<<"CL", "EOL", "stmts", "CR">>},
     stmts     |-> {<<>>, <<"stmt", "EOL", "stmts">>},
     stmt      |-> {<<"stmtblock">>, <<"vartype", "Id", "idents">>,
                    <<"Type_array", "Id", "SL", "expr", "SR", "arrays">>,
                    <<"Print", "PL", "Literal_string", "strings", "PR">>,
                    <<"Print", "PL", "expr", "strings", "PR">>,
                    <<"If", "PL", "expr", "PR", "stmtblock", "else">>,
                    <<"While", "PL", "expr", "PR", "stmtblock">>,
                    <<"For", "PL", "Id", "Op_colon", "expr", "PR", "stmtblock">>,
                    <<"Id", "Op_assignment", "expr">>,
                    <<"Id", "SL", "expr", "SR", "Op_assignment", "expr">>,
                    <<"expr">>, <<>>, <<"Return">>, <<"Return", "expr">>,
                    <<"Abort", "PL", "Literal_string", "strings", "PR">>,
                    <<"Abort", "PL", "expr", "strings", "PR">>},
     vartype   |-> {<<t>> : t \in VarTokens},
     idents    |-> {<<>>, <<"Comma", "Id", "idents">>},
     arrays    |-> {<<>>, <<"Comma", "Id", "SL", "expr", "SR", "arrays">>},
     else      |-> {<<>>, <<"Else", "stmtblock">>},
     strings   |-> {<<>>, <<"Comma", "expr", "strings">>,
                    <<"Comma", "Literal_string", "strings">>},
     expr      |-> {<<"Literal_true">>, <<"Literal_false">>, <<"Number">>, <<"Id">>,
                    <<"PL", "expr", "Op_question", "expr", "Op_colon", "expr", "PR">>,
                    <<"Sizeof", "PL", "Id", "PR">>, <<"Input", "PL", "PR">>,
                    <<"Id", "SL", "expr", "SR">>, <<"Id", "PL", "PR">>,
                    <<"Id", "PL", "expr", "args", "PR">>,
                    <<"PL", "expr", "binop", "expr", "PR">>,
                    <<"PL", "unaryop", "expr", "PR">>},
     args      |-> {<<>>, <<"Comma", "expr", "args">>},
     binop     |-> {<<t>> : t \in BinOps},
     unaryop   |-> {<<t>> : t \in UnaryOps}]

(* The tokens that a symbol comes to at least.                             *)
Least(x) == CASE x \in {"params", "stmts", "stmt", "idents", "arrays", "else",
                        "strings", "args"} -> 0
              [] x = "stmtblock" -> 3
              [] x = "param"     -> 2
              [] x = "function"  -> 7
              [] x = "program"   -> 8
              [] x = "End"       -> 0
              [] OTHER           -> 1

LeastLength(s) ==
    LET upTo[i \in 0..Len(s)] == IF i = 0 THEN 0 ELSE upTo[i - 1] + Least(s[i])
    IN  upTo[Len(s)]
=============================================================================
