------------------------------- MODULE Spans -------------------------------
(***************************************************************************)
(* Why Faithful holds.  Every call in progress has consumed a span of the  *)
(* buffer, and what it has built so far says what the span says, unless    *)
(* the buffer has, in what has been looked at, tokens that the parser      *)
(* passes over.  The parser has not changed its mind about a token that it *)
(* has not looked at, so that nothing here depends on one.                 *)
(***************************************************************************)
EXTENDS Parsing

(* The children a function of a row has built when it is at each item, and *)
(* at the end.                                                             *)
Built == [parseTrueExpr |-> <<0, 0>>, parseFalseExpr |-> <<0, 0>>,
          parseNumberExpr |-> <<0, 0>>, parseIdentExpr |-> <<0, 0>>,
          parseTernaryExpr |-> <<0, 0, 1, 1, 2, 2, 3, 3>>,
          parseSizeofExpr |-> <<0, 0, 0, 1, 1>>, parseInputExpr |-> <<0, 0, 0, 0>>,
          parseArrayExpr |-> <<0, 0, 0, 1, 1>>, parseFncallExpr |-> <<0, 0, 1>>,
          parseBinopExpr |-> <<0, 0, 1, 1, 2, 2>>, parseUnaryopExpr |-> <<0, 0, 0, 1, 1>>,
          parseVarAssignment |-> <<0, 0, 0, 1>>,
          parseArrayAssignment |-> <<0, 0, 0, 1, 1, 1, 2>>,
          parsePrintStmt |-> <<0, 0, 1>>, parseAbortStmt |-> <<0, 0, 1>>,
          parseIfStmt |-> <<0, 0, 0, 1, 1, 2, 3>>, parseWhileStmt |-> <<0, 0, 0, 1, 1, 2>>,
          parseForStmt |-> <<0, 0, 0, 1, 1, 2, 2, 3>>, parseReturnStmt |-> <<0, 0, 1>>,
          parseFnDef |-> <<0, 0, 0, 1, 2>>]

-----------------------------------------------------------------------------
(* The buffer s, as far as it has been looked at.                          *)

Is(s, i, S)   == i \in 1..Len(s) /\ s[i] \in S
Isnt(s, i, S) == i \in 1..Len(s) /\ s[i] \notin S

(* There is no block at a: one begins with { and the end of the line.      *)
NoBlock(s, a) == Isnt(s, a, {"CL"}) \/ Isnt(s, a + 1, {"EOL"})

(* The line at j is not the head of a function that returns an array.      *)
NoHead(s, j) == Isnt(s, j + 1, {"Id"}) \/ Isnt(s, j + 2, {"PL"})

(* The tokens that the parser passes over.                                 *)
BadElse(s) == \E i \in 1..Len(s) : s[i] = "Else" /\ NoBlock(s, i + 1)

BadName(s) ==
    \E j \in 1..Len(s) : \E i \in j..Len(s) :
        /\ LineStart(s, j) /\ s[j] = "Type_array" /\ NameDue(s, j, i)
        /\ \/ i = j /\ (Isnt(s, i + 1, {"Id"}) \/ Isnt(s, i + 2, {"SL", "PL"}))
           \/ NoHead(s, j) /\ (Isnt(s, i + 1, {"Id"}) \/ Isnt(s, i + 2, {"SL"}))

PassedOver(s) == BadElse(s) \/ BadName(s)

(* The tokens from a up to b leave n brackets open; or more.               *)
Opens(s, a, b, n) ==
    /\ a \in 1..b /\ b \in 1..Len(s) + 1
    /\ Depth(s)[b - 1] >= Depth(s)[a - 1] + n
Unclosed(s, a, b, n) == Depth(s)[b - 1] > Depth(s)[a - 1] + n

(* They say X, or a bracket is not closed.                                 *)
Says(s, a, b, X, n) ==
    /\ Opens(s, a, b, n)
    /\ Said(s)[b - 1] = Said(s)[a - 1] \o X \/ Unclosed(s, a, b, n)

(* They are all of one line.                                               *)
Clean(s, a, b) == \A i \in a..b - 1 : Isnt(s, i, {"EOL", "CR"})

-----------------------------------------------------------------------------
(* What a call has said, when it is at f.at; v is "called" when it has     *)
(* called another function there, which may have returned, and "here" when *)
(* it has not.                                                             *)

Fills(k) == [i \in DOMAIN k |-> Fill(k[i])]

(* The text of an item of a row.                                           *)
Only(S) == CHOOSE t \in S : TRUE
ItemText(fn, i, op, kids) ==
    LET item == Row[fn][i]
        node == kids[Built[fn][i] + 1]
    IN  IF item.call = "none"
        THEN IF item.match = {Only(item.match)} THEN <<Only(item.match)>> ELSE <<op>>
        ELSE IF item.match = {} THEN Fill(node)
        ELSE IF node = Null THEN <<>> ELSE <<Only(item.match)>> \o Fill(node)

RowSaid(f) == Run([i \in 1..f.at - 1 |-> ItemText(f.fn, i, f.op, f.kids)])

Lists == {"parseFnArgs", "parseStringOrExprArgs", "parseFnParams"}

Items(f)  == Listed(Fills(f.kids))
Comma(f)  == IF f.kids = <<>> THEN <<>> ELSE <<"Comma">>
ItemsOn(f) == Items(f) \o Comma(f)

LoopSaid(f, v) ==
    IF \/ f.fn \in {"parseExpr", "parseStmt"}
       \/ f.at = 1 /\ f.fn # "parseProgram"
    THEN <<>>
    ELSE
    CASE f.fn = "parseFnArgs" -> <<"PL">> \o (IF v = "called" THEN ItemsOn(f) ELSE Items(f))
      [] f.fn = "parseStringOrExprArgs" ->
           <<"PL">> \o (IF f.at = 4 THEN ItemsOn(f) ELSE Items(f))
      [] f.fn = "parseFnParams" ->
           CASE f.at = 3 -> <<"PL">> \o ItemsOn(f) \o <<f.op>>
             [] f.at = 5 -> <<"PL">> \o ItemsOn(f)
             [] OTHER    -> <<"PL">> \o Items(f)
      [] f.fn = "parseArrayDecls" ->
           CASE f.at = 4       -> <<"Type_array">> \o ItemsOn(f)
             [] f.at = 5 /\ v # "called" -> <<"Type_array">> \o ItemsOn(f) \o <<"Id">>
             [] f.at = 5 /\ v = "called" -> <<"Type_array">> \o ItemsOn(f) \o <<"Id", "SL">>
             [] OTHER          -> <<"Type_array">> \o Items(f)
      [] f.fn = "parseVarDecls"  -> <<f.op>> \o Run(Fills(f.kids))
      [] f.fn = "parseStmtBlock" -> <<"CL">> \o Run(Fills(f.kids))
      [] OTHER                   -> Run(Fills(f.kids))

(* The brackets that it has left open.                                     *)
LeftOpen(f, v) ==
    IF \/ f.fn \in {"parseArrayExpr", "parseArrayAssignment"} /\ f.at \in {3, 4}
       \/ f.fn = "parseArrayDecls" /\ v = "called"
    THEN 1 ELSE 0

-----------------------------------------------------------------------------
(* What else is so of the tokens that it has consumed, up to b.            *)

(* The functions that stay within a line.                                  *)
InLine == (DOMAIN Row \ {"parseIfStmt", "parseWhileStmt", "parseForStmt", "parseFnDef"})
          \cup Lists \cup {"parseExpr", "parseVarDecls", "parseArrayDecls"}

Place(s, f, b) ==
    /\ f.at = 1 => f.kids = <<>>
    /\ f.fn \in InLine => Clean(s, f.tokIdx, b)
    /\ f.fn \in {"parseStmt", "parseVarDecls", "parseArrayDecls"} => LineStart(s, f.tokIdx)
    /\ f.at = 1 \/ f.fn \in {"parseExpr", "parseStmt"} => f.fn = "parseProgram" \/ b = f.tokIdx
    /\ f.fn = "parseProgram" => f.tokIdx = 1

(* A block has just ended.                                                 *)
RowPlace(s, f, v, b) ==
    \/ f.fn = "parseIfStmt" /\ f.at \in {6, 7} /\ v # "called"
    \/ f.fn = "parseWhileStmt" /\ f.at = 6
    \/ f.fn = "parseForStmt" /\ f.at = 8
    => Is(s, b - 1, {"CR"})

ListPlace(s, f, v) ==
    /\ f.at > 1 => Is(s, f.tokIdx, {"PL"})
    /\ f.at = 2 => f.kids = <<>>
    /\ f.fn = "parseFnArgs" /\ f.at = 3 /\ v # "called" => f.kids # <<>>
    /\ f.fn = "parseStringOrExprArgs" /\ f.at = 3 => f.kids # <<>>
    /\ f.at > 3 => f.kids # <<>>

VarPlace(s, f, b) ==
    f.at > 1 =>
        /\ f.op \in VarTokens /\ Is(s, f.tokIdx, {f.op}) /\ f.tokIdx < b
        /\ \A i \in f.tokIdx + 1..b - 1 : Is(s, i, {"Id", "Comma"})

BlockPlace(s, f, b) ==
    /\ f.at = 2 => b = f.tokIdx + 1 /\ Is(s, f.tokIdx, {"CL"}) /\ f.kids = <<>>
    /\ f.at = 3 => LineStart(s, b)

(* parseArrayDecls is at a name that is due after the token i.             *)
AtName(s, f, i) ==
    /\ i \in f.tokIdx..Len(s) /\ NameDue(s, f.tokIdx, i)
    /\ IF f.kids = <<>> THEN i = f.tokIdx ELSE NoHead(s, f.tokIdx)

ArrayPlace(s, f, v, b) ==
    /\ f.at = 2 => f.kids = <<>> /\ b = f.tokIdx + 1
    /\ f.at = 3 => IF f.kids = <<>> THEN b = f.tokIdx + 1 ELSE NoHead(s, f.tokIdx)
    /\ f.at = 4 => AtName(s, f, b - 1)
    /\ f.at = 5 => /\ f.op = "Id"
                   /\ IF v = "called" THEN NoHead(s, f.tokIdx)
                      ELSE Is(s, b - 1, {"Id"}) /\ AtName(s, f, b - 2)

(* It is where it stays: at the ( of the head of a function.               *)
AtHead(s, f, v, b) ==
    /\ f.at \in {3, 4, 5} /\ v # "called" /\ f.kids = <<>>
    /\ b = f.tokIdx + 2 /\ Is(s, b, {"PL"})

-----------------------------------------------------------------------------
(* What a call has said of the tokens from where it began up to b.         *)

RowSays(s, f, v, b) ==
    \/ f.fn = "parseIfStmt" /\ f.at \in {6, 7} /\ f.kids[2] = Null
    \/ IF f.fn = "parseIfStmt" /\ f.at = 6 /\ v = "called"
       THEN Says(s, f.tokIdx, b - 1, RowSaid(f), 0) /\ Is(s, b - 1, {"Else"})
       ELSE Says(s, f.tokIdx, b, RowSaid(f), LeftOpen(f, v)) /\ RowPlace(s, f, v, b)

ArraySays(s, f, v, b) ==
    /\ Opens(s, f.tokIdx, b, LeftOpen(f, v))
    /\ f.at > 1 => Is(s, f.tokIdx, {"Type_array"})
    /\ \/ Unclosed(s, f.tokIdx, b, LeftOpen(f, v))
       \/ AtHead(s, f, v, b)
       \/ /\ Says(s, f.tokIdx, b, LoopSaid(f, v), LeftOpen(f, v))
          /\ ArrayPlace(s, f, v, b)

LoopSays(s, f, v, b) ==
    /\ Says(s, f.tokIdx, b, LoopSaid(f, v), 0)
    /\ f.fn \in Lists => ListPlace(s, f, v)
    /\ f.fn = "parseVarDecls" => VarPlace(s, f, b)
    /\ f.fn = "parseStmtBlock" => BlockPlace(s, f, b)

SaysSo(s, f, v, b) ==
    /\ Place(s, f, b)
    /\ f.fn \in DOMAIN Row => RowSays(s, f, v, b)
    /\ f.fn = "parseArrayDecls" => ArraySays(s, f, v, b)
    /\ f.fn = "parseStmtBlock" /\ f.at = 4 => NoBlock(s, f.tokIdx)
    /\ \/ f.fn \in Lists \cup {"parseExpr", "parseStmt", "parseVarDecls", "parseProgram"}
       \/ f.fn = "parseStmtBlock" /\ f.at # 4
       => LoopSays(s, f, v, b)

(* The function that f has called.                                         *)
Calling(f, fn) ==
    \/ f.fn \in DOMAIN Row /\ f.at <= Len(Row[f.fn]) /\ fn = Row[f.fn][f.at].call
    \/ f.fn = "parseExpr" /\ f.at - 1 \in DOMAIN ExprAlternatives /\ fn = ExprAlternatives[f.at - 1]
    \/ f.fn = "parseStmt" /\ f.at - 1 \in DOMAIN StmtAlternatives /\ fn = StmtAlternatives[f.at - 1]
    \/ f.fn = "parseFnArgs" /\ f.at = 3 /\ fn = "parseExpr"
    \/ f.fn = "parseStringOrExprArgs" /\ f.at \in {2, 4} /\ fn = "parseExpr"
    \/ f.fn = "parseArrayDecls" /\ f.at = 5 /\ fn = "parseExpr"
    \/ f.fn = "parseStmtBlock" /\ f.at = 3 /\ fn = "parseStmt"
    \/ f.fn = "parseProgram" /\ f.at \in {1, 3} /\ fn = "parseFnDef"

(* What fn, called at c, returns when curTok is at b.                      *)
Result(s, fn, c, b, n) ==
    IF n = Null
    THEN /\ fn \notin {"parseStmt", "parseFnDef"}
         /\ fn = "parseExpr" => b = c
         /\ fn = "parseStmtBlock" => NoBlock(s, c)
    ELSE /\ Says(s, c, b, Fill(n), 0)
         /\ fn \in InLine => Clean(s, c, b)
         /\ fn \in Unterminated => Is(s, b - 1, {"CR"})
         /\ fn = "parseStmt" => LineStart(s, b)

CallsSay ==
    /\ \A e \in 1..Len(calls) - 1 :
          /\ Calling(calls[e], calls[e + 1].fn)
          /\ SaysSo(tokens, calls[e], "called", calls[e + 1].tokIdx)
    /\ IF ret.done
       THEN \E fn \in Functions : \E c \in 1..curTokIdx :
               /\ Calling(Top, fn)
               /\ SaysSo(tokens, Top, "called", c)
               /\ Result(tokens, fn, c, curTokIdx, ret.node)
       ELSE SaysSo(tokens, Top, "here", curTokIdx)

SpanInv ==
    /\ phase = "parsed" =>
          Top.fn = "parseProgram" /\ ~ret.done /\ Is(tokens, curTokIdx, {"End"})
    /\ phase = "error" \/ PassedOver(tokens) \/ CallsSay
=============================================================================
