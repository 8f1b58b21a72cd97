------------------------------ MODULE Parsing ------------------------------
(***************************************************************************)
(* What Parser promises of every buffer of tokens.                         *)
(***************************************************************************)
EXTENDS Parser, Integers

Functions ==
    DOMAIN Row \cup
    {"parseExpr", "parseStmt", "parseFnArgs", "parseStringOrExprArgs", "parseVarDecls",
     "parseArrayDecls", "parseStmtBlock", "parseFnParams", "parseProgram"}

Texts  == Seq(Tokens \cup KnownHoles \cup {"nullOther"})
Frames == [fn : Functions, tokIdx : Nat \ {0}, at : Nat \ {0},
           op : Tokens \cup {"End", "none"}, kids : Seq(Texts)]

(* A function is given an index no smaller than its caller's, and none     *)
(* moves curTok to before the index it was given.                          *)
CallsNest ==
    /\ \A d \in 1..Len(calls) - 1 : calls[d].tokIdx <= calls[d + 1].tokIdx
    /\ Top.tokIdx <= curTokIdx

(* The buffer holds tokens, the calls are of parse functions with the      *)
(* outermost parseProgram's, and they nest.                                *)
TypeOK ==
    /\ tokens \in Seq(Tokens \cup {"End"})
    /\ curTokIdx \in Nat \ {0}
    /\ calls \in Seq(Frames) /\ calls # <<>> /\ calls[1].fn = "parseProgram"
    /\ ret \in [done : BOOLEAN, node : Texts]
    /\ phase \in {"parsing", "parsed", "error"}
    /\ CallsNest

(* getNextTok never reads past the end of `tokens' (parser.cpp:41 indexes  *)
(* the vector unchecked): once End is there, curTok is at it or before.    *)
WithinBuffer ==
    \A i \in 1..Len(tokens) :
        tokens[i] = "End" => i = Len(tokens) /\ curTokIdx <= i

(* What a parse function returns, accepted in the end or not, has no null  *)
(* child but at the places of KnownHoles: everywhere else a child that     *)
(* could not be parsed makes its parent null, or throws (parser.cpp:77-647 *)
(* tests each unique_ptr by hand; the visitors do not).                    *)
NullsKnown == \A i \in 1..Len(ret.node) : ret.node[i] # "nullOther"

-----------------------------------------------------------------------------
(* The tokens that carry the program, without the ends of lines and the    *)
(* commas of variable declarations, which the tree does not keep.          *)

(* The token j of s is the first of its line, or of what follows a block.  *)
LineStart(s, j) == j - 1 \in 1..Len(s) /\ s[j - 1] \in {"EOL", "CR"}

DeclComma(s, i) ==
    /\ s[i] = "Comma"
    /\ \E j \in 2..i - 1 :
          /\ LineStart(s, j) /\ s[j] \in VarTokens
          /\ \A m \in j + 1..i - 1 : s[m] \in {"Id", "Comma"}

IsKept(s, i) == s[i] \notin {"EOL", "End"} /\ ~DeclComma(s, i)

(* Of each prefix of s, the members that are at the places of I.           *)
Chosen(s, I) ==
    LET upTo[i \in 0..Len(s)] ==
          IF i = 0 THEN <<>>
          ELSE IF i \in I THEN Append(upTo[i - 1], s[i]) ELSE upTo[i - 1]
    IN  upTo

Said(s) == Chosen(s, {i \in 1..Len(s) : IsKept(s, i)})
Written == Said(tokens)[Len(tokens)]

(* A text without the holes that a failed parseExpr leaves, and that of    *)
(* the tree in `program'.                                                  *)
Fill(s) == Chosen(s, {i \in 1..Len(s) : s[i] \notin KnownHoles})[Len(s)]
Tree    == Run(calls[1].kids)
Filled  == Fill(Tree)

(* How many more `[' than `]' there are among the first i tokens.          *)
Opened(t) == IF t = "SL" THEN 1 ELSE IF t = "SR" THEN -1 ELSE 0
Depth(s) ==
    LET upTo[i \in 0..Len(s)] == IF i = 0 THEN 0 ELSE upTo[i - 1] + Opened(s[i])
    IN  upTo

(* Where the parser passes over tokens: an else without a block, and array *)
(* declarations with anything but `name[' after `array' or a comma, or     *)
(* with a bracket left open.                                               *)
ElsesHaveBlocks ==
    \A i \in 1..Len(tokens) :
        tokens[i] = "Else" => tokens[i + 1] = "CL" /\ tokens[i + 2] = "EOL"

(* The first tokens of the lines of array declarations.                    *)
ArrayLines == {j \in 1..Len(tokens) :
                  /\ LineStart(tokens, j) /\ tokens[j] = "Type_array"
                  /\ ~(tokens[j + 1] = "Id" /\ tokens[j + 2] = "PL")}

(* After the token i of the line that begins at j there should be a name.  *)
NameDue(s, j, i) ==
    \/ i = j
    \/ /\ s[i] = "Comma" /\ Depth(s)[i] = Depth(s)[j]
       /\ \A m \in j..i : s[m] # "EOL"

ArraysNamed ==
    /\ \A j \in ArrayLines : \A i \in j..Len(tokens) :
          NameDue(tokens, j, i) => tokens[i + 1] = "Id" /\ tokens[i + 2] = "SL"
    /\ Depth(tokens)[Len(tokens)] = 0

(* A program that is accepted is the program that was written: the tree    *)
(* says what the tokens say, each of them once and in their order, however *)
(* often the parser went back, and it has no null child but at the four    *)
(* places of KnownHoles.  Programs with tokens the parser is known to pass *)
(* over are left out.                                                      *)
Faithful ==
    phase = "parsed" /\ ElsesHaveBlocks /\ ArraysNamed => Filled = Written

-----------------------------------------------------------------------------
(* The parser ends.                                                        *)

(* No declaration has been parsed since `array', and the token is neither  *)
(* the end of the line nor one that the loop consumes.                     *)
InArrayLoop == /\ In("parseArrayDecls") /\ Top.at > 2 /\ Top.kids = <<>>
               /\ Known /\ curTok \notin {"EOL", "Id", "SL"}

(* Every file is accepted or refused.                                      *)
Terminates == <>(phase # "parsing")

(* However the alternatives and the loops go back over the tokens, the     *)
(* parse ends, unless it goes round the loop of parseArrayDecls for ever.  *)
TerminatesOrSpins == <>(phase # "parsing") \/ <>[]InArrayLoop
=============================================================================
