------------------------------- MODULE Parser -------------------------------
(***************************************************************************)
(* parser.cpp: a recursive-descent parser with backtracking over a buffer  *)
(* of tokens.  Every parse function is called with the index it starts     *)
(* from, and what it leaves in curTokIdx when it fails is the caller's to  *)
(* undo.  `calls' is the stack of the functions that are running.          *)
(*                                                                         *)
(* A token is its Token enumerator; its text is left out.  The buffer is   *)
(* complete before the parser starts, but nothing depends on a token until *)
(* the parser looks at it, so ReadToken chooses each one when it is first  *)
(* looked at and the behaviours range over every buffer there is.          *)
(*                                                                         *)
(* A node of the tree is the program text it stands for (Grammar), which   *)
(* is what the tree says whatever tokens it was built from; a null         *)
(* unique_ptr is the empty text.                                           *)
(***************************************************************************)
EXTENDS Grammar, LilTypes, Naturals

(* The enumerators of Token that the lexer returns, but End.               *)
Tokens ==
    TypeTokens \cup BinOps \cup UnaryOps \cup
    {"Number", "Id", "Literal_true", "Literal_false", "Literal_string", "EOL",
     "Op_assignment", "Op_colon", "Op_question", "Comma", "PL", "PR", "CL", "CR",
     "SL", "SR", "Print", "Input", "If", "Else", "While", "For", "Return", "Sizeof",
     "Abort"}

VARIABLES tokens,       \* the buffer, as far as it has been looked at
          curTokIdx,    \* the index of curTok
          calls,        \* the parse functions running, the innermost last
          ret,          \* what the last of them to end has returned
          phase         \* what main() is doing, or how the parse ended

vars == <<tokens, curTokIdx, calls, ret, phase>>

Null    == <<>>
Running == [done |-> FALSE, node |-> Null]
Done(n) == [done |-> TRUE, node |-> n]

(* A call: the function, the index it was given, how far it has got, the   *)
(* operator, type or name it has consumed and the nodes it has built.      *)
Frame(fn, i) == [fn |-> fn, tokIdx |-> i, at |-> 1, op |-> "none", kids |-> <<>>]

Top     == calls[Len(calls)]
Below   == SubSeq(calls, 1, Len(calls) - 1)
Known   == curTokIdx <= Len(tokens)
curTok  == tokens[curTokIdx]
In(fn)  == phase = "parsing" /\ Top.fn = fn

Init ==
    /\ tokens = <<>>
    /\ curTokIdx = 1
    /\ calls = <<Frame("parseProgram", 1)>>
    /\ ret = Running
    /\ phase = "parsing"

(* The buffer grows by the token the parser is about to look at.           *)
ReadToken(t) ==
    /\ phase = "parsing"
    /\ curTokIdx = Len(tokens) + 1
    /\ tokens # <<>> => tokens[Len(tokens)] # "End"
    /\ tokens' = Append(tokens, t)
    /\ UNCHANGED <<curTokIdx, calls, ret, phase>>

-----------------------------------------------------------------------------
(* How a step of a parse function ends.                                    *)

getNextTok  == curTokIdx' = curTokIdx + 1
Stay        == curTokIdx' = curTokIdx

(* The function goes on, as the frame f.                                   *)
Go(f) == /\ calls' = Append(Below, f)
         /\ ret' = Running
         /\ phase' = phase

(* It goes on as f when fn, called at index i, has returned.               *)
Call(f, fn, i) == /\ calls' = Append(Append(Below, f), Frame(fn, i))
                  /\ ret' = Running
                  /\ phase' = phase

Return(node) == /\ calls' = Below
                /\ ret' = Done(node)
                /\ phase' = phase

Throw == phase' = "error" /\ UNCHANGED <<calls, ret>>

(* The innermost call further on: at k, holding operator o and the nodes.  *)
Onward(k, o, nodes) ==
    [fn |-> Top.fn, tokIdx |-> Top.tokIdx, at |-> k, op |-> o, kids |-> nodes]

At(k)         == Onward(k, Top.op, Top.kids)
Holding(k, t) == Onward(k, t, Top.kids)
With(k, node) == Onward(k, Top.op, Append(Top.kids, node))

-----------------------------------------------------------------------------
(* The functions that go through a fixed row of items: a token to match,   *)
(* or a function to call, whose null result is either a failure or let     *)
(* through.                                                                *)

Match(S)    == [match |-> S, call |-> "none", null |-> FALSE]
Parse(fn)   == [match |-> {}, call |-> fn, null |-> FALSE]
May(fn)     == [match |-> {}, call |-> fn, null |-> TRUE]
After(t,fn) == [match |-> {t}, call |-> fn, null |-> TRUE]  \* if (match(t)) fn
Word(t)     == Match({t})
Expr        == Parse("parseExpr")

parseTrueExpr   == <<Word("Literal_true")>>
parseFalseExpr  == <<Word("Literal_false")>>
parseNumberExpr == <<Word("Number")>>
parseIdentExpr  == <<Word("Id")>>

(* Mutated form of parseTernaryExpr: the colon is not asked for.           *)
parseTernaryLoose ==
    <<Word("PL"), Expr, Word("Op_question"), Expr, May("parseExpr"), Word("PR")>>

parseTernaryExpr ==
    <<Word("PL"), Expr, Word("Op_question"), Expr, Word("Op_colon"),
      May("parseExpr"), Word("PR")>>

parseSizeofExpr  == <<Word("Sizeof"), Word("PL"), Expr, Word("PR")>>
parseInputExpr   == <<Word("Input"), Word("PL"), Word("PR")>>
parseArrayExpr   == <<Word("Id"), Word("SL"), Expr, Word("SR")>>
parseFncallExpr  == <<Word("Id"), Parse("parseFnArgs")>>

(* Mutated form of parseBinopExpr: the second operand is not tested.       *)
parseBinopLoose ==
    <<Word("PL"), Expr, Match(BinOps), May("parseExpr"), Word("PR")>>

parseBinopExpr   == <<Word("PL"), Expr, Match(BinOps), Expr, Word("PR")>>
parseUnaryopExpr == <<Word("PL"), Match(UnaryOps), Expr, Word("PR")>>

parseVarAssignment   == <<Word("Id"), Word("Op_assignment"), Expr>>
parseArrayAssignment ==
    <<Word("Id"), Word("SL"), Expr, Word("SR"), Word("Op_assignment"), Expr>>

parsePrintStmt == <<Word("Print"), Parse("parseStringOrExprArgs")>>
parseAbortStmt == <<Word("Abort"), Parse("parseStringOrExprArgs")>>

parseIfStmt ==
    <<Word("If"), Word("PL"), May("parseExpr"), Word("PR"),
      May("parseStmtBlock"), After("Else", "parseStmtBlock")>>

parseWhileStmt ==
    <<Word("While"), Word("PL"), Expr, Word("PR"), Parse("parseStmtBlock")>>

parseForStmt ==
    <<Word("For"), Word("PL"), Expr, Word("Op_colon"), Expr, Word("PR"),
      Parse("parseStmtBlock")>>

parseReturnStmt == <<Word("Return"), May("parseExpr")>>

parseFnDef ==
    <<Match(TypeTokens), Word("Id"), Parse("parseFnParams"), Parse("parseStmtBlock")>>

Row == [parseTrueExpr |-> parseTrueExpr, parseFalseExpr |-> parseFalseExpr,
        parseNumberExpr |-> parseNumberExpr, parseIdentExpr |-> parseIdentExpr,
        parseTernaryExpr |-> parseTernaryExpr, parseSizeofExpr |-> parseSizeofExpr,
        parseInputExpr |-> parseInputExpr, parseArrayExpr |-> parseArrayExpr,
        parseFncallExpr |-> parseFncallExpr, parseBinopExpr |-> parseBinopExpr,
        parseUnaryopExpr |-> parseUnaryopExpr,
        parseVarAssignment |-> parseVarAssignment,
        parseArrayAssignment |-> parseArrayAssignment,
        parsePrintStmt |-> parsePrintStmt, parseAbortStmt |-> parseAbortStmt,
        parseIfStmt |-> parseIfStmt, parseWhileStmt |-> parseWhileStmt,
        parseForStmt |-> parseForStmt, parseReturnStmt |-> parseReturnStmt,
        parseFnDef |-> parseFnDef]

InRow == phase = "parsing" /\ Top.fn \in DOMAIN Row
RowEnded == Top.at > Len(Row[Top.fn])
Item  == Row[Top.fn][Top.at]

(* parseFnDef throws where the others return null.                         *)
Fail == IF Top.fn = "parseFnDef" THEN Throw ELSE Return(Null)

(* match(): the token is consumed only if it is the one asked for.         *)
MatchToken ==
    /\ InRow /\ ~RowEnded /\ Known
    /\ ~ret.done /\ Item.match # {}
    /\ \/ /\ curTok \in Item.match
          /\ getNextTok
          /\ LET f == IF Item.match = {curTok} THEN At(Top.at + 1)
                      ELSE Holding(Top.at + 1, curTok)
             IN  IF Item.call = "none" THEN Go(f)
                 ELSE Call(Top, Item.call, curTokIdx + 1)
       \/ /\ curTok \notin Item.match
          /\ Stay
          /\ IF Item.null THEN Go(With(Top.at + 1, Null)) ELSE Fail
    /\ UNCHANGED tokens

CallItem ==
    /\ InRow /\ ~RowEnded
    /\ ~ret.done /\ Item.match = {}
    /\ Call(Top, Item.call, curTokIdx)
    /\ UNCHANGED <<tokens, curTokIdx>>

TakeItem ==
    /\ InRow /\ ~RowEnded
    /\ ret.done
    /\ IF ret.node = Null /\ ~Item.null THEN Fail
       ELSE Go(With(Top.at + 1, ret.node))
    /\ UNCHANGED <<tokens, curTokIdx>>

(* The node is built, of an if statement only if it has a body.            *)
EndRow ==
    /\ InRow /\ RowEnded
    /\ Return(IF Top.fn = "parseIfStmt" /\ Top.kids[2] = Null THEN Null
              ELSE Text(Top.fn, Top.op, Top.kids))
    /\ UNCHANGED <<tokens, curTokIdx>>
-----------------------------------------------------------------------------
(* parseExpr and parseStmt: the alternatives are tried in order, each from *)
(* the index the function was given.  An alternative that would fail on    *)
(* its first token is passed over without a step of its own.               *)

(* Mutated form of ExprAlternatives: ident before the forms it begins.     *)
IdentFirst ==
    <<"parseTrueExpr", "parseFalseExpr", "parseNumberExpr", "parseIdentExpr",
      "parseTernaryExpr", "parseSizeofExpr", "parseInputExpr", "parseArrayExpr",
      "parseFncallExpr", "parseBinopExpr", "parseUnaryopExpr">>

ExprAlternatives ==
    <<"parseTrueExpr", "parseFalseExpr", "parseNumberExpr", "parseTernaryExpr",
      "parseSizeofExpr", "parseInputExpr", "parseArrayExpr", "parseFncallExpr",
      "parseIdentExpr", "parseBinopExpr", "parseUnaryopExpr">>

StmtAlternatives ==
    <<"parseStmtBlock", "parseVarDecls", "parseArrayDecls", "parsePrintStmt",
      "parseAbortStmt", "parseIfStmt", "parseWhileStmt", "parseForStmt",
      "parseVarAssignment", "parseArrayAssignment", "parseExpr", "parseReturnStmt">>

(* The statements that are accepted without an EOL after them.             *)
Unterminated == {"parseStmtBlock", "parseIfStmt", "parseWhileStmt", "parseForStmt"}

Alternatives == IF Top.fn = "parseExpr" THEN ExprAlternatives ELSE StmtAlternatives

ExprFirst == UNION {Row[fn][1].match :
                    fn \in {ExprAlternatives[i] : i \in DOMAIN ExprAlternatives}}

First(fn) == CASE fn \in DOMAIN Row      -> Row[fn][1].match
               [] fn = "parseStmtBlock"  -> {"CL"}
               [] fn = "parseVarDecls"   -> VarTokens
               [] fn = "parseArrayDecls" -> {"Type_array"}
               [] fn = "parseExpr"       -> ExprFirst

InChoice == phase = "parsing" /\ Top.fn \in {"parseExpr", "parseStmt"}
Tried    == Alternatives[Top.at - 1]

(* The alternatives left: from Top.at on, those the first token allows.    *)
Untried == {i \in Top.at..Len(Alternatives) :
            tokens[Top.tokIdx] \in First(Alternatives[i])}

(* A result of the alternative tried last is returned, of most statements  *)
(* only together with an EOL.                                              *)
NeedsEOL == Top.fn = "parseStmt" /\ Tried \notin Unterminated

Take ==
    /\ InChoice
    /\ ret.done /\ ret.node # Null
    /\ \/ ~NeedsEOL /\ Stay
       \/ NeedsEOL /\ Known /\ curTok = "EOL" /\ getNextTok
    /\ Return(ret.node)
    /\ UNCHANGED tokens

Refused == IF ret.done /\ ret.node # Null
           THEN NeedsEOL /\ Known /\ curTok # "EOL"
           ELSE Top.tokIdx <= Len(tokens)

Try ==
    /\ InChoice /\ Refused
    /\ \E i \in Untried :
          /\ \A j \in Untried : i <= j
          /\ Call(At(i + 1), Alternatives[i], Top.tokIdx)
    /\ curTokIdx' = Top.tokIdx
    /\ UNCHANGED tokens

(* Mutated forms of NoAlternative: parseStmt returns null as parseExpr     *)
(* does; parseExpr goes back one token too many.                           *)
NullStatement ==
    /\ InChoice /\ Refused
    /\ Untried = {}
    /\ curTokIdx' = Top.tokIdx /\ Return(Null)
    /\ UNCHANGED tokens

RestoreOneShort ==
    /\ InChoice /\ Refused
    /\ Untried = {}
    /\ IF Top.fn = "parseExpr" THEN curTokIdx' = Top.tokIdx - 1 /\ Return(Null)
       ELSE Stay /\ Throw
    /\ UNCHANGED tokens

NoAlternative ==
    /\ InChoice /\ Refused
    /\ Untried = {}
    /\ IF Top.fn = "parseExpr" THEN curTokIdx' = Top.tokIdx /\ Return(Null)
       ELSE Stay /\ Throw
    /\ UNCHANGED tokens

-----------------------------------------------------------------------------
(* The functions that loop.  The items of a list are in `kids'.            *)

(* The loops' tests and matches: the token is t and is consumed, or kept.  *)
Consume(t) == Known /\ curTok = t /\ getNextTok
Look(S)    == Known /\ curTok \in S /\ Stay
Miss(S)    == Known /\ curTok \notin S /\ Stay

(* Whatever parseExpr returns is pushed.                                   *)
parseFnArgs ==
    /\ In("parseFnArgs")
    /\ UNCHANGED tokens
    /\ \/ /\ Top.at = 1
          /\ \/ Consume("PL") /\ Go(At(2))
             \/ Miss({"PL"}) /\ Return(Null)
       \/ /\ Top.at \in {2, 3} /\ ~ret.done
          /\ Consume("PR")
          /\ Return(Text(Top.fn, "none", Top.kids))
       \/ Top.at = 2 /\ Miss({"PR"}) /\ Call(At(3), "parseExpr", curTokIdx)
       \/ /\ Top.at = 3 /\ ~ret.done
          /\ \/ Consume("Comma") /\ Call(Top, "parseExpr", curTokIdx + 1)
             \/ Miss({"PR", "Comma"}) /\ Return(Null)
       \/ Top.at = 3 /\ ret.done /\ Stay /\ Go(With(3, ret.node))

(* Mutated form of PushString: the string is consumed and not pushed.      *)
SkipString == Go(At(3))

PushString == Go(With(3, <<"Literal_string">>))

(* At least one argument, and none of them null.  State 4 is the loop's    *)
(* body after the comma.                                                   *)
parseStringOrExprArgs ==
    /\ In("parseStringOrExprArgs")
    /\ UNCHANGED tokens
    /\ \/ /\ Top.at = 1
          /\ \/ Consume("PL") /\ Go(At(2))
             \/ Miss({"PL"}) /\ Return(Null)
       \/ /\ Top.at \in {2, 3} /\ ~ret.done
          /\ Consume("PR")
          /\ Return(IF Top.kids = <<>> THEN Null ELSE Text(Top.fn, "none", Top.kids))
       \/ /\ Top.at = 3 /\ ~ret.done
          /\ \/ Consume("Comma") /\ Go(At(4))
             \/ Miss({"PR", "Comma"}) /\ Return(Null)
       \/ /\ Top.at \in {2, 4} /\ ~ret.done
          /\ \/ Consume("Literal_string") /\ PushString
             \/ /\ Miss({"Literal_string"} \cup (IF Top.at = 2 THEN {"PR"} ELSE {}))
                /\ Call(Top, "parseExpr", curTokIdx)
       \/ /\ ret.done /\ Stay
          /\ IF ret.node = Null THEN Return(Null) ELSE Go(With(3, ret.node))

(* A comma after a name is consumed; none is asked for.                    *)
parseVarDecls ==
    /\ In("parseVarDecls")
    /\ UNCHANGED tokens
    /\ \/ /\ Top.at = 1 /\ Known /\ curTok \in VarTokens
          /\ getNextTok
          /\ Go(Holding(2, curTok))
       \/ Top.at \in {2, 3} /\ Consume("Id") /\ Go(With(3, <<"Id">>))
       \/ Top.at = 3 /\ Consume("Comma") /\ Go(At(2))
       \/ /\ Top.at \in {2, 3}
          /\ Miss({"Id"} \cup (IF Top.at = 3 THEN {"Comma"} ELSE {}))
          /\ Return(IF Top.kids = <<>> THEN Null
                    ELSE Text(Top.fn, Top.op, Top.kids))

(* `first' is kids = <<>>.  The name is the text of whatever token is      *)
(* there; only an Id is consumed.                                          *)
parseArrayDecls ==
    /\ In("parseArrayDecls")
    /\ UNCHANGED tokens
    /\ \/ Top.at = 1 /\ Consume("Type_array") /\ Go(At(2))
       \/ /\ Top.at = 2
          /\ (Consume("Type_array") \/ Miss({"Type_array"})) /\ Go(At(3))
       \/ /\ Top.at = 3 /\ Look({"EOL"})
          /\ Return(IF Top.kids = <<>> THEN Null ELSE Text(Top.fn, "none", Top.kids))
       \/ /\ Top.at = 3 /\ Top.kids = <<>>
          /\ Miss({"EOL"}) /\ Go(At(4))
       \/ /\ Top.at = 3 /\ Top.kids # <<>>
          /\ \/ Consume("Comma") /\ Go(At(4))
             \/ Miss({"EOL", "Comma"}) /\ Return(Null)
       \/ /\ Top.at = 4
          /\ (Consume("Id") \/ Miss({"Id"}))
          /\ Go(Holding(5, curTok))
       \/ /\ Top.at = 5 /\ ~ret.done
          /\ \/ Consume("SL") /\ Call(Top, "parseExpr", curTokIdx + 1)
             \/ Miss({"SL"}) /\ Go(At(3))
       \/ /\ Top.at = 5 /\ ret.done
          /\ \/ Consume("SR") /\ Go(With(3, ArrayText(Top.op, ret.node)))
             \/ Miss({"SR"}) /\ Go(At(3))

(* The block is lost, and a CR still consumed, if its CL has no EOL.       *)
parseStmtBlock ==
    /\ In("parseStmtBlock")
    /\ UNCHANGED tokens
    /\ \/ /\ Top.at = 1
          /\ \/ Consume("CL") /\ Go(At(2))
             \/ Miss({"CL"}) /\ Go(At(4))
       \/ /\ Top.at = 2
          /\ \/ Consume("EOL") /\ Go(At(3))
             \/ Miss({"EOL"}) /\ Go(At(4))
       \/ /\ Top.at = 3 /\ ~ret.done
          /\ \/ Consume("EOL") /\ Go(Top)
             \/ Consume("CR") /\ Return(Text(Top.fn, "none", Top.kids))
             \/ Miss({"EOL", "CR"}) /\ Call(Top, "parseStmt", curTokIdx)
       \/ /\ Top.at = 3 /\ ret.done /\ Stay
          /\ Go(IF ret.node = Null THEN Top ELSE With(3, ret.node))
       \/ Top.at = 4 /\ (Consume("CR") \/ Miss({"CR"})) /\ Return(Null)

(* Mutated form of parseFnParams: the token after a type is passed over    *)
(* whether it is a name or not.                                            *)
parseFnParamsOnward ==
    /\ In("parseFnParams")
    /\ UNCHANGED tokens
    /\ \/ Top.at = 1 /\ Consume("PL") /\ Go(At(2))
       \/ Top.at = 2 /\ Consume("PR") /\ Return(Paren(<<>>))
       \/ /\ Top.at \in {2, 5} /\ Known /\ curTok \in ParamTokens
          /\ getNextTok
          /\ Go(Holding(3, curTok))
       \/ /\ Top.at = 3 /\ Known /\ getNextTok
          /\ IF curTok = "Id" THEN Go(With(4, <<Top.op, "Id">>)) ELSE Return(Null)
       \/ Top.at = 4 /\ Consume("PR") /\ Return(Text(Top.fn, "none", Top.kids))
       \/ Top.at = 4 /\ Consume("Comma") /\ Go(At(5))
       \/ Top.at = 2 /\ Miss(ParamTokens \cup {"PR"}) /\ Return(Null)
       \/ Top.at = 4 /\ Miss({"PR", "Comma"}) /\ Return(Null)
       \/ Top.at = 5 /\ Miss(ParamTokens) /\ Return(Null)

(* States: the parenthesis, the first parameter, its name, what follows a  *)
(* parameter, a further parameter.                                         *)
parseFnParams ==
    /\ In("parseFnParams")
    /\ UNCHANGED tokens
    /\ \/ /\ Top.at = 1
          /\ \/ Consume("PL") /\ Go(At(2))
             \/ Miss({"PL"}) /\ Return(Null)
       \/ /\ Top.at \in {2, 4} /\ Consume("PR")
          /\ Return(Text(Top.fn, "none", Top.kids))
       \/ /\ Top.at \in {2, 5} /\ Known /\ curTok \in ParamTokens
          /\ getNextTok
          /\ Go(Holding(3, curTok))
       \/ Top.at = 2 /\ Miss(ParamTokens \cup {"PR"}) /\ Return(Null)
       \/ Top.at = 5 /\ Miss(ParamTokens) /\ Return(Null)
       \/ /\ Top.at = 3
          /\ \/ Consume("Id") /\ Go(With(4, <<Top.op, "Id">>))
             \/ Miss({"Id"}) /\ Return(Null)
       \/ /\ Top.at = 4
          /\ \/ Consume("Comma") /\ Go(At(5))
             \/ Miss({"PR", "Comma"}) /\ Return(Null)

(* State 2 is the EOL after a body, state 3 what follows it.               *)
parseProgram ==
    /\ In("parseProgram")
    /\ UNCHANGED tokens
    /\ \/ Top.at \in {1, 3} /\ ~ret.done /\ Consume("EOL") /\ Go(Top)
       \/ /\ Top.at \in {1, 3} /\ ~ret.done
          /\ Miss({"EOL"} \cup (IF Top.at = 3 THEN {"End"} ELSE {}))
          /\ Call(Top, "parseFnDef", curTokIdx)
       \/ Top.at \in {1, 3} /\ ret.done /\ Stay /\ Go(With(2, ret.node))
       \/ /\ Top.at = 2
          /\ \/ Consume("EOL") /\ Go(At(3))
             \/ Miss({"EOL"}) /\ Throw
       \/ /\ Top.at = 3 /\ ~ret.done /\ Look({"End"})
          /\ phase' = "parsed"
          /\ UNCHANGED <<calls, ret>>

-----------------------------------------------------------------------------
(* main() up to the end of the parse.                                      *)

Step ==
    \/ MatchToken \/ CallItem \/ TakeItem \/ EndRow
    \/ Take \/ Try \/ NoAlternative
    \/ parseFnArgs \/ parseStringOrExprArgs \/ parseVarDecls \/ parseArrayDecls
    \/ parseStmtBlock \/ parseFnParams \/ parseProgram

Ended == phase # "parsing" /\ UNCHANGED vars

Next == (\E t \in Tokens \cup {"End"} : ReadToken(t)) \/ Step \/ Ended

Spec == Init /\ [][Next]_vars
=============================================================================
