---------------------------- MODULE ParserProofs ----------------------------
(***************************************************************************)
(* For every buffer of tokens, however long: the parser never looks past   *)
(* End, its calls nest, and what it builds has a null child only where the *)
(* code does not test for one.  At the end, lemmas about the texts of      *)
(* nodes, for SpanProofs, which has the rest: that the tree is the one     *)
(* that was written.                                                       *)
(***************************************************************************)
EXTENDS Sentences, Spans, SeqLemmas

(* The calls' operators and children play no part: they are members of     *)
(* some set.                                                               *)
Shaped(A) == [fn : A, tokIdx : Nat \ {0}, at : Nat \ {0}, op : A, kids : A]

(* An index that getNextTok may leave in curTokIdx, of a buffer s.         *)
InBuffer(s, i) ==
    /\ i \in 1..Len(s) + 1
    /\ \A k \in 1..Len(s) : s[k] = "End" => i <= k

BufferInv ==
    /\ tokens \in Seq(Tokens \cup {"End"})
    /\ \A k \in 1..Len(tokens) : tokens[k] = "End" => k = Len(tokens)
    /\ InBuffer(tokens, curTokIdx)

(* Calls that nest, of a buffer s, the outermost parseProgram's.           *)
Nested(A, s, cs) ==
    /\ cs \in Seq(Shaped(A))
    /\ cs # <<>> => cs[1].fn = "parseProgram"
    /\ \A d \in 1..Len(cs) : InBuffer(s, cs[d].tokIdx)
    /\ \A d \in 1..Len(cs) - 1 : cs[d].tokIdx <= cs[d + 1].tokIdx

CallsInv ==
    /\ \E A : Nested(A, tokens, calls)
    /\ calls # <<>>
    /\ Top.tokIdx <= curTokIdx

ParserInv == BufferInv /\ CallsInv

-----------------------------------------------------------------------------
(* Every step moves curTokIdx and the calls in one of a few ways.          *)

(* The innermost call, further on.                                         *)
Later(f) == \E k \in Nat \ {0} : \E o, nodes : f = Onward(k, o, nodes)

MovesIdx == \/ curTokIdx' = curTokIdx
            \/ Known /\ curTok # "End" /\ curTokIdx' = curTokIdx + 1
            \/ curTokIdx' = Top.tokIdx

MovesCalls == \/ calls' = calls
              \/ calls' = Below /\ Top.fn # "parseProgram"
              \/ \E f : Later(f) /\ calls' = Append(Below, f)
              \/ \E f, fn : /\ Later(f)
                            /\ calls' = Append(Append(Below, f), Frame(fn, curTokIdx'))

Moves == tokens' = tokens /\ MovesIdx /\ MovesCalls

(* The innermost call is a frame, and it goes on as one.                   *)
LEMMA TopShape ==
    ASSUME CallsInv
    PROVE  /\ Top.tokIdx \in Nat \ {0} /\ Top.at \in Nat \ {0}
           /\ Len(calls) \in Nat \ {0}
           /\ Later(Top)
           /\ \A k \in Nat \ {0} : Later(At(k))
           /\ \A k \in Nat \ {0} : \A o : Later(Holding(k, o))
           /\ \A k \in Nat \ {0} : \A n : Later(With(k, n))
  <1>1. PICK A : calls \in Seq(Shaped(A)) BY DEF CallsInv, Nested
  <1>2. calls # <<>> BY DEF CallsInv
  <1>3. Len(calls) \in Nat /\ Len(calls) >= 1 BY <1>1, <1>2, LenPositive
  <1>4. Top \in Shaped(A) BY <1>1, <1>3, ElementOfSeq DEF Top
  <1>5. Top.tokIdx \in Nat \ {0} /\ Top.at \in Nat \ {0} BY <1>4 DEF Shaped
  <1>6. Top = Onward(Top.at, Top.op, Top.kids) BY <1>4 DEF Shaped, Onward
  <1>7. Later(Top) BY <1>5, <1>6 DEF Later
  <1>8. ASSUME NEW k \in Nat \ {0}
        PROVE  Later(At(k)) /\ (\A o : Later(Holding(k, o))) /\ \A n : Later(With(k, n))
    BY DEF Later, At, Holding, With
  <1>9. Len(calls) \in Nat \ {0} BY <1>3
  <1> QED BY <1>5, <1>7, <1>8, <1>9

(* No item of a row asks for End.                                          *)
Closed(row) == Len(row) \in Nat /\ \A i \in 1..Len(row) : "End" \notin row[i].match

LEMMA RowsClosed == \A fn \in DOMAIN Row : Closed(Row[fn])
  <1> USE DEF Closed, Word, Match, Parse, May, After, Expr, BinOps, UnaryOps, TypeTokens
  <1>1. Closed(parseTrueExpr) BY DEF parseTrueExpr
  <1>2. Closed(parseFalseExpr) BY DEF parseFalseExpr
  <1>3. Closed(parseNumberExpr) BY DEF parseNumberExpr
  <1>4. Closed(parseIdentExpr) BY DEF parseIdentExpr
  <1>5. Closed(parseTernaryExpr) BY DEF parseTernaryExpr
  <1>6. Closed(parseSizeofExpr) BY DEF parseSizeofExpr
  <1>7. Closed(parseInputExpr) BY DEF parseInputExpr
  <1>8. Closed(parseArrayExpr) BY DEF parseArrayExpr
  <1>9. Closed(parseFncallExpr) BY DEF parseFncallExpr
  <1>10. Closed(parseBinopExpr) BY DEF parseBinopExpr
  <1>11. Closed(parseUnaryopExpr) BY DEF parseUnaryopExpr
  <1>12. Closed(parseVarAssignment) BY DEF parseVarAssignment
  <1>13. Closed(parseArrayAssignment) BY DEF parseArrayAssignment
  <1>14. Closed(parsePrintStmt) BY DEF parsePrintStmt
  <1>15. Closed(parseAbortStmt) BY DEF parseAbortStmt
  <1>16. Closed(parseIfStmt) BY DEF parseIfStmt
  <1>17. Closed(parseWhileStmt) BY DEF parseWhileStmt
  <1>18. Closed(parseForStmt) BY DEF parseForStmt
  <1>19. Closed(parseReturnStmt) BY DEF parseReturnStmt
  <1>20. Closed(parseFnDef) BY DEF parseFnDef
  <1> HIDE DEF Closed
  <1> QED
    BY <1>1, <1>2, <1>3, <1>4, <1>5, <1>6, <1>7, <1>8, <1>9, <1>10, <1>11, <1>12, <1>13, <1>14,
       <1>15, <1>16, <1>17, <1>18, <1>19, <1>20 DEF Row

(* Each way a step of a parse function ends is one of the moves.           *)
LEMMA EndsMove ==
    ASSUME CallsInv
    PROVE  /\ \A f : Later(f) /\ Go(f) => MovesCalls
           /\ \A f, fn : Later(f) /\ Call(f, fn, curTokIdx') => MovesCalls
           /\ \A n : Return(n) /\ Top.fn # "parseProgram" => MovesCalls
           /\ Throw => MovesCalls
  BY DEF Go, Call, Return, Throw, MovesCalls

(* The loops' tests and matches move curTokIdx only by a token seen.       *)
LEMMA TestsMove ==
    /\ \A t : Consume(t) /\ t # "End" => MovesIdx /\ curTokIdx' = curTokIdx + 1
    /\ \A S : Miss(S) \/ Look(S) => MovesIdx /\ curTokIdx' = curTokIdx
    /\ Stay => MovesIdx /\ curTokIdx' = curTokIdx
  BY DEF Consume, Miss, Look, Stay, getNextTok, MovesIdx

LEMMA FnArgsMoves == ASSUME CallsInv, parseFnArgs PROVE Moves
  <1>1. tokens' = tokens BY DEF parseFnArgs
  <1>2. MovesIdx BY TestsMove DEF parseFnArgs
  <1>3. MovesCalls BY TestsMove, EndsMove, TopShape DEF parseFnArgs, In
  <1> QED BY <1>1, <1>2, <1>3 DEF Moves

LEMMA StringOrExprArgsMoves == ASSUME CallsInv, parseStringOrExprArgs PROVE Moves
  <1>1. tokens' = tokens BY DEF parseStringOrExprArgs
  <1>2. MovesIdx BY TestsMove DEF parseStringOrExprArgs
  <1>3. MovesCalls
    <2>1. Top.fn # "parseProgram" BY DEF parseStringOrExprArgs, In
    <2>2. \A n : Return(n) => MovesCalls BY <2>1, EndsMove
    <2>3. Call(Top, "parseExpr", curTokIdx) /\ curTokIdx' = curTokIdx => MovesCalls
      BY EndsMove, TopShape
    <2>4. /\ Go(At(2)) \/ Go(At(4)) => MovesCalls
          /\ \A n : Go(With(3, n)) => MovesCalls
      BY EndsMove, TopShape
    <2>5. PushString => MovesCalls BY <2>4 DEF PushString
    <2>6. \A S : Miss(S) => curTokIdx' = curTokIdx BY TestsMove
    <2> QED BY <2>2, <2>3, <2>4, <2>5, <2>6 DEF parseStringOrExprArgs
  <1> QED BY <1>1, <1>2, <1>3 DEF Moves

LEMMA VarDeclsMoves == ASSUME CallsInv, parseVarDecls PROVE Moves
  <1>1. tokens' = tokens BY DEF parseVarDecls
  <1>2. MovesIdx BY TestsMove DEF parseVarDecls, VarTokens, TypeTokens, getNextTok, MovesIdx
  <1>3. MovesCalls BY TestsMove, EndsMove, TopShape DEF parseVarDecls, In
  <1> QED BY <1>1, <1>2, <1>3 DEF Moves

LEMMA ArrayDeclsMoves == ASSUME CallsInv, parseArrayDecls PROVE Moves
  <1>1. tokens' = tokens BY DEF parseArrayDecls
  <1>2. MovesIdx BY TestsMove DEF parseArrayDecls
  <1>3. MovesCalls BY TestsMove, EndsMove, TopShape DEF parseArrayDecls, In
  <1> QED BY <1>1, <1>2, <1>3 DEF Moves

LEMMA StmtBlockMoves == ASSUME CallsInv, parseStmtBlock PROVE Moves
  <1>1. tokens' = tokens BY DEF parseStmtBlock
  <1>2. MovesIdx BY TestsMove DEF parseStmtBlock
  <1>3. MovesCalls BY TestsMove, EndsMove, TopShape DEF parseStmtBlock, In
  <1> QED BY <1>1, <1>2, <1>3 DEF Moves

LEMMA FnParamsMoves == ASSUME CallsInv, parseFnParams PROVE Moves
  <1>1. tokens' = tokens BY DEF parseFnParams
  <1>2. MovesIdx BY TestsMove DEF parseFnParams, ParamTokens, TypeTokens, getNextTok, MovesIdx
  <1>3. MovesCalls BY TestsMove, EndsMove, TopShape DEF parseFnParams, In
  <1> QED BY <1>1, <1>2, <1>3 DEF Moves

LEMMA ProgramMoves == ASSUME CallsInv, parseProgram PROVE Moves
  <1>1. tokens' = tokens BY DEF parseProgram
  <1>2. MovesIdx BY TestsMove DEF parseProgram
  <1>3. calls' = calls => MovesCalls BY DEF MovesCalls
  <1>4. MovesCalls BY <1>3, TestsMove, EndsMove, TopShape DEF parseProgram, In
  <1> QED BY <1>1, <1>2, <1>4 DEF Moves

-----------------------------------------------------------------------------
(* The functions that go through a row.                                    *)

LEMMA MatchTokenMoves == ASSUME CallsInv, MatchToken PROVE Moves
  <1>1. tokens' = tokens BY DEF MatchToken
  <1>2. InRow /\ ~RowEnded BY DEF MatchToken
  <1>3. "End" \notin Item.match
    <2>1. Closed(Row[Top.fn]) BY <1>2, RowsClosed DEF InRow
    <2>2. Top.at \in Nat \ {0} BY TopShape
    <2>3. Top.at \in 1..Len(Row[Top.fn]) BY <1>2, <2>1, <2>2 DEF RowEnded, Closed
    <2> QED BY <2>1, <2>3 DEF Item, Closed
  <1>4. Top.fn # "parseProgram" BY <1>2 DEF InRow, Row
  <1>5. CASE curTok \in Item.match
    <2>1. MovesIdx BY <1>3, <1>5 DEF MatchToken, getNextTok, MovesIdx
    <2>2. MovesCalls BY <1>5, EndsMove, TopShape DEF MatchToken, getNextTok
    <2> QED BY <1>1, <2>1, <2>2 DEF Moves
  <1>6. CASE curTok \notin Item.match
    <2>1. MovesIdx BY <1>6 DEF MatchToken, Stay, MovesIdx
    <2>2. MovesCalls BY <1>4, <1>6, EndsMove, TopShape DEF MatchToken, Fail
    <2> QED BY <1>1, <2>1, <2>2 DEF Moves
  <1> QED BY <1>5, <1>6

LEMMA CallItemMoves == ASSUME CallsInv, CallItem PROVE Moves
  BY EndsMove, TopShape DEF CallItem, Moves, MovesIdx

LEMMA TakeItemMoves == ASSUME CallsInv, TakeItem PROVE Moves
  <1>1. Top.fn # "parseProgram" BY DEF TakeItem, InRow, Row
  <1> QED BY <1>1, EndsMove, TopShape DEF TakeItem, Fail, Moves, MovesIdx

LEMMA EndRowMoves == ASSUME CallsInv, EndRow PROVE Moves
  <1>1. Top.fn # "parseProgram" BY DEF EndRow, InRow, Row
  <1> QED BY <1>1, EndsMove DEF EndRow, Moves, MovesIdx

-----------------------------------------------------------------------------
(* The functions that try alternatives.                                    *)

LEMMA TakeMoves == ASSUME CallsInv, Take PROVE Moves
  <1>1. tokens' = tokens BY DEF Take
  <1>2. MovesIdx BY DEF Take, Stay, getNextTok, MovesIdx
  <1>3. Return(ret.node) /\ Top.fn # "parseProgram" BY DEF Take, InChoice
  <1> QED BY <1>1, <1>2, <1>3, EndsMove DEF Moves

LEMMA TryMoves == ASSUME CallsInv, Try PROVE Moves
  <1>1. tokens' = tokens /\ curTokIdx' = Top.tokIdx BY DEF Try
  <1>2. PICK i \in Untried : Call(At(i + 1), Alternatives[i], Top.tokIdx) BY DEF Try
  <1>3. Top.at \in Nat \ {0} BY TopShape
  <1>4. i + 1 \in Nat \ {0} BY <1>3 DEF Untried
  <1>5. Later(At(i + 1)) BY <1>4, TopShape
  <1>6. MovesCalls BY <1>1, <1>2, <1>5, EndsMove
  <1> QED BY <1>1, <1>6 DEF Moves, MovesIdx

LEMMA NoAlternativeMoves == ASSUME CallsInv, NoAlternative PROVE Moves
  <1>1. tokens' = tokens BY DEF NoAlternative
  <1>2. MovesIdx BY DEF NoAlternative, Stay, MovesIdx
  <1>3. MovesCalls BY EndsMove DEF NoAlternative
  <1> QED BY <1>1, <1>2, <1>3 DEF Moves

LEMMA StepMoves == ASSUME CallsInv, Step PROVE Moves
  BY MatchTokenMoves, CallItemMoves, TakeItemMoves, EndRowMoves, TakeMoves, TryMoves,
     NoAlternativeMoves, FnArgsMoves, StringOrExprArgsMoves, VarDeclsMoves,
     ArrayDeclsMoves, StmtBlockMoves, FnParamsMoves, ProgramMoves DEF Step

-----------------------------------------------------------------------------
(* The invariant.                                                          *)

LEMMA InitInv == Init => ParserInv
  <1> SUFFICES ASSUME Init PROVE ParserInv OBVIOUS
  <1>1. tokens = <<>> /\ curTokIdx = 1 /\ calls = <<Frame("parseProgram", 1)>> BY DEF Init
  <1>2. Len(tokens) = 0 BY <1>1
  <1>3. InBuffer(tokens, 1) BY <1>2 DEF InBuffer
  <1>4. BufferInv BY <1>1, <1>2, <1>3 DEF BufferInv
  <1> DEFINE A == {"parseProgram", "none", <<>>}
  <1>5. Frame("parseProgram", 1) \in Shaped(A) BY DEF Frame, Shaped
  <1>6. calls \in Seq(Shaped(A)) BY <1>1, <1>5
  <1>7. Len(calls) = 1 /\ calls[1] = Frame("parseProgram", 1) BY <1>1
  <1>8. calls[1].fn = "parseProgram" /\ calls[1].tokIdx = 1 BY <1>7 DEF Frame
  <1>9. Nested(A, tokens, calls) BY <1>3, <1>6, <1>7, <1>8 DEF Nested
  <1>10. CallsInv BY <1>1, <1>7, <1>8, <1>9 DEF CallsInv, Top
  <1> QED BY <1>4, <1>10 DEF ParserInv

(* A buffer that grows holds every index it held.                          *)
LEMMA ReadInv ==
    ASSUME ParserInv, NEW t \in Tokens \cup {"End"}, ReadToken(t)
    PROVE  ParserInv'
  <1>1. /\ tokens \in Seq(Tokens \cup {"End"}) /\ tokens' = Append(tokens, t)
        /\ curTokIdx' = curTokIdx /\ calls' = calls /\ curTokIdx = Len(tokens) + 1
    BY DEF ParserInv, BufferInv, ReadToken
  <1>2. /\ Len(tokens) \in Nat /\ tokens' \in Seq(Tokens \cup {"End"})
        /\ Len(tokens') = Len(tokens) + 1
        /\ \A k \in 1..Len(tokens) : tokens'[k] = tokens[k]
    BY <1>1, PushLemma
  <1>3. ASSUME NEW i, InBuffer(tokens, i) PROVE InBuffer(tokens', i)
    <2>1. i \in 1..Len(tokens) + 1 BY <1>3 DEF InBuffer
    <2>2. ASSUME NEW k \in 1..Len(tokens'), tokens'[k] = "End" PROVE i <= k
      <3>1. CASE k = Len(tokens) + 1 BY <1>2, <2>1, <3>1
      <3>2. CASE k \in 1..Len(tokens) BY <1>2, <1>3, <2>2, <3>2 DEF InBuffer
      <3> QED BY <1>2, <3>1, <3>2
    <2> QED BY <1>2, <2>1, <2>2 DEF InBuffer
  <1>4. \A k \in 1..Len(tokens) : tokens[k] # "End"
    <2>1. \A k \in 1..Len(tokens) : tokens[k] = "End" => k = Len(tokens)
      BY DEF ParserInv, BufferInv
    <2>2. Len(tokens) # 0 => tokens # <<>> BY <1>1
    <2>3. tokens # <<>> => tokens[Len(tokens)] # "End" BY DEF ReadToken
    <2> QED BY <1>2, <2>1, <2>2, <2>3
  <1>5. BufferInv'
    <2>1. \A k \in 1..Len(tokens') : tokens'[k] = "End" => k = Len(tokens')
      BY <1>2, <1>4
    <2>2. InBuffer(tokens, curTokIdx) BY DEF ParserInv, BufferInv
    <2>3. InBuffer(tokens', curTokIdx') BY <1>1, <1>3, <2>2
    <2> QED BY <1>2, <2>1, <2>3 DEF BufferInv
  <1>6. CallsInv'
    <2>1. PICK A : Nested(A, tokens, calls) BY DEF ParserInv, CallsInv
    <2>2. Nested(A, tokens', calls) BY <1>3, <2>1 DEF Nested
    <2> QED BY <1>1, <2>2 DEF ParserInv, CallsInv, Top
  <1> QED BY <1>5, <1>6 DEF ParserInv

(* What the calls are after a move, and where in the buffer.               *)
LEMMA MovesIdxInv ==
    ASSUME ParserInv, MovesIdx
    PROVE  InBuffer(tokens, curTokIdx') /\ Top.tokIdx <= curTokIdx'
  <1>1. /\ InBuffer(tokens, curTokIdx) /\ Top.tokIdx <= curTokIdx /\ Len(tokens) \in Nat
        /\ \A k \in 1..Len(tokens) : tokens[k] = "End" => k = Len(tokens)
    BY LenProperties DEF ParserInv, BufferInv, CallsInv
  <1>2. Top.tokIdx \in Nat \ {0} /\ Len(calls) \in Nat \ {0} BY TopShape DEF ParserInv
  <1>3. CASE curTokIdx' = curTokIdx BY <1>1, <1>3
  <1>4. CASE Known /\ curTok # "End" /\ curTokIdx' = curTokIdx + 1
    <2>1. curTokIdx \in 1..Len(tokens) BY <1>1, <1>4 DEF Known, InBuffer
    <2>2. tokens[curTokIdx] # "End" BY <1>4 DEF curTok
    <2>3. \A k \in 1..Len(tokens) : tokens[k] = "End" => curTokIdx + 1 <= k
      BY <1>1, <2>1, <2>2 DEF InBuffer
    <2> QED BY <1>1, <1>2, <1>4, <2>1, <2>3 DEF InBuffer
  <1>5. CASE curTokIdx' = Top.tokIdx
    <2>1. Len(calls) \in 1..Len(calls) BY <1>2
    <2>2. InBuffer(tokens, Top.tokIdx) BY <2>1 DEF ParserInv, CallsInv, Nested, Top
    <2> QED BY <1>2, <1>5, <2>2
  <1> QED BY <1>3, <1>4, <1>5 DEF MovesIdx

(* A stack of nested calls without its last, and with one more.            *)
LEMMA NestedBelow ==
    ASSUME NEW A, NEW s, NEW cs, Nested(A, s, cs), cs # <<>>
    PROVE  LET below == SubSeq(cs, 1, Len(cs) - 1) IN
           /\ Nested(A, s, below) /\ Len(below) = Len(cs) - 1
           /\ below # <<>> => below[Len(below)].tokIdx <= cs[Len(cs)].tokIdx
  <1> DEFINE below == SubSeq(cs, 1, Len(cs) - 1)
  <1>1. cs \in Seq(Shaped(A)) BY DEF Nested
  <1>2. Len(cs) \in Nat /\ Len(cs) >= 1 BY <1>1, LenPositive
  <1>3. Len(cs) - 1 \in 0..Len(cs) BY <1>2
  <1>4. /\ below \in Seq(Shaped(A)) /\ Len(below) = Len(cs) - 1
        /\ \A d \in 1..Len(cs) - 1 : below[d] = cs[d]
    BY <1>1, <1>3, PrefixLemma
  <1> HIDE DEF below
  <1>5. below # <<>> => Len(below) >= 1 BY <1>4, LenPositive
  <1>6. Nested(A, s, below) BY <1>2, <1>4, <1>5 DEF Nested
  <1>7. below # <<>> => below[Len(below)].tokIdx <= cs[Len(cs)].tokIdx
    BY <1>2, <1>4, <1>5 DEF Nested
  <1> QED BY <1>4, <1>6, <1>7 DEF below

LEMMA NestedPush ==
    ASSUME NEW A, NEW s, NEW cs, Nested(A, s, cs), NEW f \in Shaped(A),
           InBuffer(s, f.tokIdx),
           cs = <<>> => f.fn = "parseProgram",
           cs # <<>> => cs[Len(cs)].tokIdx <= f.tokIdx
    PROVE  /\ Nested(A, s, Append(cs, f)) /\ Append(cs, f) # <<>>
           /\ Append(cs, f)[Len(Append(cs, f))] = f
  <1> DEFINE new == Append(cs, f)
  <1>1. cs \in Seq(Shaped(A)) BY DEF Nested
  <1>2. /\ new \in Seq(Shaped(A)) /\ new # <<>> /\ Len(cs) \in Nat
        /\ Len(new) = Len(cs) + 1 /\ new[Len(cs) + 1] = f
        /\ \A d \in 1..Len(cs) : new[d] = cs[d]
    BY <1>1, PushLemma
  <1> HIDE DEF new
  <1>3. cs # <<>> => Len(cs) >= 1 BY <1>1, LenPositive
  <1>4. cs = <<>> => Len(cs) = 0 OBVIOUS
  <1>5. new[1].fn = "parseProgram" BY <1>2, <1>3, <1>4 DEF Nested
  <1>6. \A d \in 1..Len(new) : InBuffer(s, new[d].tokIdx)
    <2> TAKE d \in 1..Len(new)
    <2>1. CASE d = Len(cs) + 1 BY <1>2, <2>1
    <2>2. CASE d \in 1..Len(cs) BY <1>2, <2>2 DEF Nested
    <2> QED BY <1>2, <2>1, <2>2
  <1>7. \A d \in 1..Len(new) - 1 : new[d].tokIdx <= new[d + 1].tokIdx
    <2> TAKE d \in 1..Len(new) - 1
    <2>1. CASE d = Len(cs) BY <1>2, <1>3, <1>4, <2>1
    <2>2. CASE d \in 1..Len(cs) - 1 BY <1>2, <2>2 DEF Nested
    <2> QED BY <1>2, <2>1, <2>2
  <1>8. Nested(A, s, new) BY <1>2, <1>5, <1>6, <1>7 DEF Nested
  <1> QED BY <1>2, <1>8 DEF new

(* A stack of calls of fewer shapes is one of more.                        *)
LEMMA NestedMore ==
    ASSUME NEW A, NEW B, A \subseteq B, NEW s, NEW cs, Nested(A, s, cs)
    PROVE  Nested(B, s, cs)
  <1>1. Shaped(A) \subseteq Shaped(B) BY DEF Shaped
  <1>2. cs \in Seq(Shaped(A)) BY DEF Nested
  <1>3. Len(cs) \in Nat /\ \A i \in 1..Len(cs) : cs[i] \in Shaped(B)
    BY <1>1, <1>2, LenProperties, ElementOfSeq
  <1>4. \A T : \A x \in Seq(T) : \A S : (\A i \in 1..Len(x) : x[i] \in S) => x \in Seq(S)
    OBVIOUS
  <1>5. cs \in Seq(Shaped(B)) BY <1>2, <1>3, <1>4
  <1> QED BY <1>5 DEF Nested

(* The innermost call, further on, in the place it had.                    *)
LEMMA OnwardInv ==
    ASSUME CallsInv, NEW f, Later(f)
    PROVE  \E A : /\ Nested(A, tokens, Append(Below, f)) /\ f \in Shaped(A)
                  /\ Append(Below, f) # <<>>
                  /\ Append(Below, f)[Len(Append(Below, f))] = f
                  /\ f.tokIdx = Top.tokIdx
  <1>1. PICK A : Nested(A, tokens, calls) BY DEF CallsInv
  <1>2. PICK k, o, nodes : k \in Nat \ {0} /\ f = Onward(k, o, nodes) BY DEF Later
  <1> DEFINE B == A \cup {o, nodes}
  <1>3. calls \in Seq(Shaped(A)) /\ calls # <<>> BY <1>1 DEF Nested, CallsInv
  <1>4. Len(calls) \in Nat /\ Len(calls) >= 1 BY <1>3, LenPositive
  <1>5. Top \in Shaped(A) BY <1>3, <1>4, ElementOfSeq DEF Top
  <1>6. f \in Shaped(B) /\ f.tokIdx = Top.tokIdx /\ f.fn = Top.fn
    BY <1>2, <1>5 DEF Onward, Shaped
  <1>7. Nested(B, tokens, calls) BY <1>1, NestedMore
  <1> HIDE DEF B
  <1>8. /\ Nested(B, tokens, Below) /\ Len(Below) = Len(calls) - 1
        /\ Below # <<>> => Below[Len(Below)].tokIdx <= Top.tokIdx
    BY <1>3, <1>7, NestedBelow DEF Below, Top
  <1>9. InBuffer(tokens, f.tokIdx) BY <1>4, <1>6, <1>7 DEF Nested, Top
  <1>10. Below = <<>> => f.fn = "parseProgram"
    <2>1. Below = <<>> => Len(calls) = 1 BY <1>4, <1>8
    <2> QED BY <1>3, <1>6, <1>7, <2>1 DEF Nested, Top
  <1> QED BY <1>6, <1>8, <1>9, <1>10, NestedPush

LEMMA MovesInv == ASSUME ParserInv, Moves PROVE ParserInv'
  <1>1. InBuffer(tokens, curTokIdx') /\ Top.tokIdx <= curTokIdx' BY MovesIdxInv DEF Moves
  <1>2. BufferInv' BY <1>1 DEF Moves, ParserInv, BufferInv
  <1>3. CallsInv BY DEF ParserInv
  <1>4. CASE calls' = calls
    <2>1. CallsInv' BY <1>1, <1>3, <1>4 DEF CallsInv, Top, Moves
    <2> QED BY <1>2, <2>1 DEF ParserInv
  <1>5. CASE calls' = Below /\ Top.fn # "parseProgram"
    <2>1. PICK A : Nested(A, tokens, calls) BY <1>3 DEF CallsInv
    <2>2. calls # <<>> BY <1>3 DEF CallsInv
    <2>3. /\ Nested(A, tokens, Below) /\ Len(Below) = Len(calls) - 1
          /\ Below # <<>> => Below[Len(Below)].tokIdx <= Top.tokIdx
      BY <2>1, <2>2, NestedBelow DEF Below, Top
    <2>4. Below # <<>>
      <3>1. Len(calls) \in Nat /\ Len(calls) >= 1 BY <2>1, <2>2, LenPositive DEF Nested
      <3>2. Len(calls) # 1 BY <1>5, <2>1, <2>2 DEF Nested, Top
      <3>3. Len(Below) # 0 BY <2>3, <3>1, <3>2
      <3> QED BY <3>3
    <2>5. Below[Len(Below)].tokIdx <= curTokIdx'
      <3>1. Below[Len(Below)].tokIdx \in Nat /\ Top.tokIdx \in Nat /\ curTokIdx' \in Nat
        <4>1. Below \in Seq(Shaped(A)) BY <2>3 DEF Nested
        <4>2. Len(Below) \in 1..Len(Below) BY <2>4, <4>1, LenPositive
        <4>3. Below[Len(Below)] \in Shaped(A) BY <4>1, <4>2, ElementOfSeq
        <4>4. Len(tokens) \in Nat BY LenProperties DEF ParserInv, BufferInv
        <4> QED BY <1>1, <1>3, <4>3, <4>4, TopShape DEF Shaped, InBuffer
      <3> QED BY <1>1, <2>3, <2>4, <3>1
    <2>6. CallsInv' BY <1>5, <2>3, <2>4, <2>5 DEF CallsInv, Top, Moves
    <2> QED BY <1>2, <2>6 DEF ParserInv
  <1>6. ASSUME NEW f, Later(f), calls' = Append(Below, f) PROVE ParserInv'
    <2>1. PICK A : /\ Nested(A, tokens, Append(Below, f)) /\ Append(Below, f) # <<>>
                   /\ Append(Below, f)[Len(Append(Below, f))] = f
                   /\ f.tokIdx = Top.tokIdx
      BY <1>3, <1>6, OnwardInv
    <2>2. CallsInv' BY <1>1, <1>6, <2>1 DEF CallsInv, Top, Moves
    <2> QED BY <1>2, <2>2 DEF ParserInv
  <1>7. ASSUME NEW f, NEW fn, Later(f),
               calls' = Append(Append(Below, f), Frame(fn, curTokIdx'))
        PROVE  ParserInv'
    <2> DEFINE new == Frame(fn, curTokIdx')
    <2>1. PICK A : /\ Nested(A, tokens, Append(Below, f)) /\ Append(Below, f) # <<>>
                   /\ Append(Below, f)[Len(Append(Below, f))] = f
                   /\ f.tokIdx = Top.tokIdx
      BY <1>3, <1>7, OnwardInv
    <2> DEFINE B == A \cup {fn, "none", <<>>}
    <2>2. Nested(B, tokens, Append(Below, f)) BY <2>1, NestedMore
    <2>3. curTokIdx' \in Nat \ {0}
      <3>1. Len(tokens) \in Nat BY LenProperties DEF ParserInv, BufferInv
      <3> QED BY <1>1, <3>1 DEF InBuffer
    <2>4. new \in Shaped(B) /\ new.tokIdx = curTokIdx' BY <2>3 DEF Frame, Shaped
    <2> DEFINE cs == Append(Below, f)
    <2>5. Nested(B, tokens, cs) BY <2>2
    <2>6. cs # <<>> /\ cs[Len(cs)].tokIdx <= new.tokIdx BY <1>1, <2>1, <2>4
    <2>7. InBuffer(tokens, new.tokIdx) BY <1>1, <2>4
    <2> HIDE DEF B, new, cs
    <2>8. /\ Nested(B, tokens, Append(cs, new)) /\ Append(cs, new) # <<>>
           /\ Append(cs, new)[Len(Append(cs, new))] = new
      BY <2>5, <2>4, <2>6, <2>7, NestedPush
    <2>9. /\ Nested(B, tokens, Append(Append(Below, f), new))
          /\ Append(Append(Below, f), new) # <<>>
          /\ Append(Append(Below, f), new)[Len(Append(Append(Below, f), new))] = new
      BY <2>8 DEF cs
    <2>10. calls' = Append(Append(Below, f), new) BY <1>7 DEF new
    <2>11. CallsInv' BY <2>3, <2>4, <2>9, <2>10 DEF CallsInv, Top, Moves
    <2> QED BY <1>2, <2>11 DEF ParserInv
  <1> QED BY <1>4, <1>5, <1>6, <1>7 DEF Moves, MovesCalls

(* ParserInv is inductive.                                                 *)
LEMMA Inductive == Spec => []ParserInv
  <1>1. ASSUME ParserInv, [Next]_vars PROVE ParserInv'
    <2>1. CASE \E t \in Tokens \cup {"End"} : ReadToken(t) BY <1>1, <2>1, ReadInv
    <2>2. CASE Step BY <1>1, <2>2, StepMoves, MovesInv DEF ParserInv
    <2>3. ASSUME UNCHANGED vars PROVE ParserInv'
      <3>1. tokens' = tokens /\ curTokIdx' = curTokIdx /\ calls' = calls BY <2>3 DEF vars
      <3>2. BufferInv' BY <1>1, <3>1 DEF ParserInv, BufferInv
      <3>3. CallsInv' BY <1>1, <3>1 DEF ParserInv, CallsInv, Top
      <3> QED BY <3>2, <3>3 DEF ParserInv
    <2>4. CASE Ended BY <2>3, <2>4 DEF Ended
    <2> QED BY <1>1, <2>1, <2>2, <2>3, <2>4 DEF Next
  <1> QED BY <1>1, InitInv, PTL DEF Spec

(* Whatever the tokens, the parser never indexes the buffer past End: each *)
(* function that consumes a token has seen that it is another one, and the *)
(* index that a failed alternative goes back to was in the buffer before   *)
(* (getNextTok, parser.cpp:41, checks nothing).                            *)
THEOREM BufferKept == Spec => []WithinBuffer
  <1>1. ParserInv => WithinBuffer BY DEF ParserInv, BufferInv, InBuffer, WithinBuffer
  <1> QED BY <1>1, Inductive, PTL

(* Whatever the tokens, a parse function is given an index no smaller than *)
(* its caller's, and curTok is never before the one the innermost function *)
(* started from: going back never undoes what a caller has consumed.       *)
THEOREM Nesting == Spec => []CallsNest
  <1>1. ParserInv => CallsNest
    BY DEF ParserInv, CallsInv, Nested, CallsNest
  <1> QED BY <1>1, Inductive, PTL

-----------------------------------------------------------------------------
(* What the tree holds.                                                    *)

(* From where on a function holds the operator or type it needs.           *)
HoldsFrom == [parseBinopExpr |-> 4, parseUnaryopExpr |-> 3, parseFnDef |-> 2,
              parseVarDecls |-> 2, parseFnParams |-> 3, parseArrayDecls |-> 5]

(* The functions that keep a null child, or for which it is not tested.    *)
KeepsNull == {"parseFnArgs", "parseIfStmt", "parseTernaryExpr", "parseArrayDecls",
              "parseReturnStmt", "parseProgram"}

(* The texts without a null child anywhere else.                           *)
GoodTexts == Seq(Tokens \cup KnownHoles)

Holds(fn, k, o) == /\ fn \in DOMAIN HoldsFrom /\ k >= HoldsFrom[fn] => o # "none"
                   /\ o = "End" => fn = "parseArrayDecls"

Sound(f) ==
    /\ f \in [fn : Functions, tokIdx : Nat \ {0}, at : Nat \ {0},
              op : Tokens \cup {"End", "none"}, kids : Seq(GoodTexts)]
    /\ Holds(f.fn, f.at, f.op)
    /\ f.fn \notin KeepsNull => \A i \in 1..Len(f.kids) : f.kids[i] # Null
    /\ f.fn \in DOMAIN Row => /\ f.at <= Len(Row[f.fn]) + 1
                              /\ Len(f.kids) = Built[f.fn][f.at]

(* A function that has called another one is at an item with a call, and   *)
(* the name of an array is not the text of End, since `[' has followed it. *)
Waits(f) ==
    /\ f.fn \in DOMAIN Row => f.at <= Len(Row[f.fn]) /\ Row[f.fn][f.at].call # "none"
    /\ f.op # "End"

TreeInv ==
    /\ \A d \in 1..Len(calls) : Sound(calls[d])
    /\ \A d \in 1..Len(calls) - 1 : Waits(calls[d])
    /\ ret \in [done : BOOLEAN, node : GoodTexts]
    /\ ret.done => Waits(Top)
    /\ Top.op = "End" => Known /\ curTok = "End"
    /\ phase \in {"parsing", "parsed", "error"}

(* The words of a text, and texts put together.                            *)
LEMMA WordsOfTexts ==
    /\ TypeTokens \cup BinOps \cup UnaryOps \subseteq Tokens
    /\ {"Number", "Id", "Literal_true", "Literal_false", "Literal_string",
        "Op_assignment", "Op_colon", "Op_question", "Comma", "PL", "PR", "CL", "CR",
        "SL", "SR", "Print", "Input", "If", "Else", "While", "For", "Return", "Sizeof",
        "Abort"} \subseteq Tokens
    /\ "End" \notin Tokens /\ "none" \notin Tokens
  BY DEF Tokens, TypeTokens, BinOps, UnaryOps

LEMMA TextsJoin ==
    /\ \A s, t \in GoodTexts : s \o t \in GoodTexts
    /\ <<>> \in GoodTexts
    /\ \A a \in Tokens \cup KnownHoles : <<a>> \in GoodTexts
    /\ \A a, b \in Tokens : <<a, b>> \in GoodTexts
    /\ \A a, b, c \in Tokens : <<a, b, c>> \in GoodTexts
  <1>1. ASSUME NEW s \in GoodTexts, NEW t \in GoodTexts PROVE s \o t \in GoodTexts
    <2> DEFINE W == Tokens \cup KnownHoles
    <2>1. s \in Seq(W) /\ t \in Seq(W) BY DEF GoodTexts
    <2> HIDE DEF W
    <2>2. s \o t \in Seq(W) BY ONLY <2>1, ConcatProperties
    <2> QED BY <2>2 DEF GoodTexts, W
  <1>2. <<>> \in GoodTexts BY DEF GoodTexts
  <1>3. \A S : \A a, b, c \in S : <<a>> \in Seq(S) /\ <<a, b>> \in Seq(S) /\ <<a, b, c>> \in Seq(S)
    OBVIOUS
  <1>4. \A a \in Tokens \cup KnownHoles : <<a>> \in GoodTexts BY <1>3, Zenon DEF GoodTexts
  <1>5. \A a \in Tokens : a \in Tokens \cup KnownHoles OBVIOUS
  <1>6. \A a, b, c \in Tokens : <<a, b>> \in GoodTexts /\ <<a, b, c>> \in GoodTexts
    BY <1>3, <1>5, Zenon DEF GoodTexts
  <1> QED BY <1>1, <1>2, <1>4, <1>6, Zenon

LEMMA ParenGood == ASSUME NEW t \in GoodTexts PROVE Paren(t) \in GoodTexts
  <1>1. <<"PL">> \in GoodTexts /\ <<"PR">> \in GoodTexts
    <2>1. "PL" \in Tokens \cup KnownHoles /\ "PR" \in Tokens \cup KnownHoles BY WordsOfTexts
    <2> QED BY <2>1, TextsJoin
  <1>2. <<"PL">> \o t \in GoodTexts BY <1>1, TextsJoin
  <1> QED BY <1>1, <1>2, TextsJoin DEF Paren

(* Run and Listed are recursive functions: Recursion says that they exist, *)
(* Upward what they come to.                                               *)
LEMMA RunGood == ASSUME NEW k \in Seq(GoodTexts) PROVE Run(k) \in GoodTexts
  <1> DEFINE N == Len(k)
             F == [p \in GoodTexts \X (1..N) |-> p[1] \o k[p[2]]]
             IsRun(g) == g = [i \in 0..N |-> IF i = 0 THEN <<>> ELSE g[i - 1] \o k[i]]
             upTo == CHOOSE g : IsRun(g)
  <1>1. N \in Nat /\ \A i \in 1..N : k[i] \in GoodTexts BY LenProperties, ElementOfSeq
  <1>2. F \in [GoodTexts \X (1..N) -> GoodTexts] BY <1>1, TextsJoin
  <1>3. \E g : IsRun(g)
    <2>1. <<>> \in GoodTexts BY TextsJoin
    <2>2. Recurs(N, GoodTexts, <<>>, F)
      <3> HIDE DEF F, N
      <3> QED BY ONLY <1>1, <1>2, <2>1, Recursion
    <2>3. PICK g \in [0..N -> GoodTexts] : g[0] = <<>> /\ \A i \in 1..N : g[i] = F[<<g[i - 1], i>>]
      BY <2>2 DEF Recurs
    <2>4. \A i \in 1..N : g[i] = g[i - 1] \o k[i]
      <3> TAKE i \in 1..N
      <3>1. i - 1 \in 0..N BY <1>1
      <3> QED BY <2>3, <3>1
    <2>5. \A i \in 0..N : i = 0 \/ i \in 1..N BY <1>1
    <2>6. \A i \in 0..N : g[i] = IF i = 0 THEN <<>> ELSE g[i - 1] \o k[i]
      BY <2>3, <2>4, <2>5
    <2> HIDE DEF F, N
    <2> QED BY <2>3, <2>6
  <1>4. Run(k) = upTo[N] BY DEF Run
  <1>5. IsRun(upTo)
    <2> HIDE DEF IsRun
    <2> QED BY <1>3
  <1> HIDE DEF upTo, N
  <1>6. upTo[0] = <<>> /\ \A i \in 1..N : upTo[i] = upTo[i - 1] \o k[i]
    <2>1. 0 \in 0..N /\ \A i \in 1..N : i \in 0..N /\ i # 0 BY <1>1
    <2> QED BY <1>5, <2>1
  <1>7. upTo[0] \in GoodTexts /\ \A i \in 1..N : upTo[i - 1] \in GoodTexts => upTo[i] \in GoodTexts
    BY <1>1, <1>6, TextsJoin
  <1>8. upTo[N] \in GoodTexts BY ONLY <1>1, <1>7, Upward
  <1> QED BY <1>4, <1>8

LEMMA ListedGood == ASSUME NEW k \in Seq(GoodTexts) PROVE Listed(k) \in GoodTexts
  <1> DEFINE N == Len(k)
             Sep(i) == IF i = 1 THEN <<>> ELSE <<"Comma">>
             F == [p \in GoodTexts \X (1..N) |-> p[1] \o Sep(p[2]) \o k[p[2]]]
             IsList(g) == g = [i \in 0..N |-> IF i = 0 THEN <<>> ELSE g[i - 1] \o Sep(i) \o k[i]]
             upTo == CHOOSE g : IsList(g)
  <1>1. N \in Nat /\ \A i \in 1..N : k[i] \in GoodTexts BY LenProperties, ElementOfSeq
  <1>0. \A i : Sep(i) \in GoodTexts
    <2>1. "Comma" \in Tokens \cup KnownHoles BY WordsOfTexts
    <2>2. <<>> \in GoodTexts /\ <<"Comma">> \in GoodTexts BY <2>1, TextsJoin, Zenon
    <2> QED BY <2>2, Zenon
  <1> HIDE DEF Sep
  <1>2. F \in [GoodTexts \X (1..N) -> GoodTexts] BY <1>0, <1>1, TextsJoin
  <1>3. \E g : IsList(g)
    <2>1. <<>> \in GoodTexts BY TextsJoin
    <2>2. Recurs(N, GoodTexts, <<>>, F)
      <3> HIDE DEF F, N
      <3> QED BY ONLY <1>1, <1>2, <2>1, Recursion
    <2>3. PICK g \in [0..N -> GoodTexts] : g[0] = <<>> /\ \A i \in 1..N : g[i] = F[<<g[i - 1], i>>]
      BY <2>2 DEF Recurs
    <2>4. \A i \in 1..N : g[i] = g[i - 1] \o Sep(i) \o k[i]
      <3> TAKE i \in 1..N
      <3>1. i - 1 \in 0..N BY <1>1
      <3> QED BY <2>3, <3>1
    <2>5. \A i \in 0..N : i = 0 \/ i \in 1..N BY <1>1
    <2>6. \A i \in 0..N : g[i] = IF i = 0 THEN <<>> ELSE g[i - 1] \o Sep(i) \o k[i]
      BY <2>3, <2>4, <2>5
    <2> HIDE DEF F, N
    <2> QED BY <2>3, <2>6
  <1>4. Listed(k) = upTo[N] BY DEF Listed, Sep
  <1>5. IsList(upTo)
    <2> HIDE DEF IsList
    <2> QED BY <1>3
  <1> HIDE DEF upTo, N
  <1>6. upTo[0] = <<>> /\ \A i \in 1..N : upTo[i] = upTo[i - 1] \o Sep(i) \o k[i]
    <2>1. 0 \in 0..N /\ \A i \in 1..N : i \in 0..N /\ i # 0 BY <1>1
    <2> QED BY <1>5, <2>1
  <1>7. upTo[0] \in GoodTexts /\ \A i \in 1..N : upTo[i - 1] \in GoodTexts => upTo[i] \in GoodTexts
    <2>1. ASSUME NEW i \in 1..N, upTo[i - 1] \in GoodTexts PROVE upTo[i] \in GoodTexts
      <3>1. upTo[i - 1] \o Sep(i) \in GoodTexts BY <1>0, <2>1, TextsJoin, Zenon
      <3>2. (upTo[i - 1] \o Sep(i)) \o k[i] \in GoodTexts BY <1>1, <3>1, TextsJoin, Zenon
      <3> QED BY <1>6, <3>2, Zenon
    <2> QED BY <1>6, <2>1, TextsJoin
  <1>8. upTo[N] \in GoodTexts BY ONLY <1>1, <1>7, Upward
  <1> QED BY <1>4, <1>8

(* Built is right: an item adds a child exactly if it has a call.          *)
Adds(fn, item, i, before, after) ==
    /\ before \in Nat
    /\ item.match \subseteq Tokens
    /\ item.call = "none" => item.match # {} /\ ~item.null /\ after = before
    /\ item.call # "none" => item.call \in Functions /\ after = before + 1
    /\ fn \notin KeepsNull => ~item.null
    /\ fn \in DOMAIN HoldsFrom /\ i + 1 = HoldsFrom[fn] =>
          item.call = "none" /\ \A t : item.match # {t}

Fits(fn, row, built) ==
    /\ Len(row) \in Nat \ {0} /\ Len(built) = Len(row) + 1 /\ built[1] = 0
    /\ \A i \in 1..Len(row) : Adds(fn, row[i], i, built[i], built[i + 1])

LEMMA RowsFit == \A fn \in DOMAIN Row : Fits(fn, Row[fn], Built[fn])
  <1>1. {"parseExpr", "parseFnArgs", "parseStringOrExprArgs", "parseStmtBlock",
         "parseFnParams"} \subseteq Functions
    BY DEF Functions
  <1>2. TypeTokens \subseteq Tokens /\ BinOps \subseteq Tokens /\ UnaryOps \subseteq Tokens
    BY WordsOfTexts
  <1>3. \A t : TypeTokens # {t} /\ BinOps # {t} /\ UnaryOps # {t}
    BY DEF TypeTokens, BinOps, UnaryOps
  <1>4. TypeTokens # {} /\ BinOps # {} /\ UnaryOps # {}
    BY DEF TypeTokens, BinOps, UnaryOps
  <1> USE WordsOfTexts DEF Fits, Adds, HoldsFrom, KeepsNull, Word, Match, Parse, May, After, Expr
  <1>5. Fits("parseTrueExpr", parseTrueExpr, Built["parseTrueExpr"])
    <2>1. Fits("parseTrueExpr", parseTrueExpr, <<0, 0>>) BY <1>1, <1>2, <1>3, <1>4 DEF parseTrueExpr
    <2> HIDE DEF Fits, Adds
    <2> QED BY <2>1 DEF Built
  <1>6. Fits("parseFalseExpr", parseFalseExpr, Built["parseFalseExpr"])
    <2>1. Fits("parseFalseExpr", parseFalseExpr, <<0, 0>>)
      <3>1. Adds("parseFalseExpr", Word("Literal_false"), 1, 0, 0) BY <1>1, <1>2, <1>3, <1>4
      <3> HIDE DEF Adds, Word, Match, Parse, May, After, Expr
      <3> QED BY <3>1 DEF parseFalseExpr
    <2> HIDE DEF Fits, Adds
    <2> QED BY <2>1 DEF Built
  <1>7. Fits("parseNumberExpr", parseNumberExpr, Built["parseNumberExpr"])
    <2>1. Fits("parseNumberExpr", parseNumberExpr, <<0, 0>>)
      BY <1>1, <1>2, <1>3, <1>4 DEF parseNumberExpr
    <2> HIDE DEF Fits, Adds
    <2> QED BY <2>1 DEF Built
  <1>8. Fits("parseIdentExpr", parseIdentExpr, Built["parseIdentExpr"])
    <2>1. Fits("parseIdentExpr", parseIdentExpr, <<0, 0>>)
      BY <1>1, <1>2, <1>3, <1>4 DEF parseIdentExpr
    <2> HIDE DEF Fits, Adds
    <2> QED BY <2>1 DEF Built
  <1>9. Fits("parseTernaryExpr", parseTernaryExpr, Built["parseTernaryExpr"])
    <2>1. Fits("parseTernaryExpr", parseTernaryExpr, <<0, 0, 1, 1, 2, 2, 3, 3>>)
      BY <1>1, <1>2, <1>3, <1>4 DEF parseTernaryExpr
    <2> HIDE DEF Fits, Adds
    <2> QED BY <2>1 DEF Built
  <1>10. Fits("parseSizeofExpr", parseSizeofExpr, Built["parseSizeofExpr"])
    <2>1. Fits("parseSizeofExpr", parseSizeofExpr, <<0, 0, 0, 1, 1>>)
      BY <1>1, <1>2, <1>3, <1>4 DEF parseSizeofExpr
    <2> HIDE DEF Fits, Adds
    <2> QED BY <2>1 DEF Built
  <1>11. Fits("parseInputExpr", parseInputExpr, Built["parseInputExpr"])
    <2>1. Fits("parseInputExpr", parseInputExpr, <<0, 0, 0, 0>>)
      BY <1>1, <1>2, <1>3, <1>4 DEF parseInputExpr
    <2> HIDE DEF Fits, Adds
    <2> QED BY <2>1 DEF Built
  <1>12. Fits("parseArrayExpr", parseArrayExpr, Built["parseArrayExpr"])
    <2>1. Fits("parseArrayExpr", parseArrayExpr, <<0, 0, 0, 1, 1>>)
      BY <1>1, <1>2, <1>3, <1>4 DEF parseArrayExpr
    <2> HIDE DEF Fits, Adds
    <2> QED BY <2>1 DEF Built
  <1>13. Fits("parseFncallExpr", parseFncallExpr, Built["parseFncallExpr"])
    <2>1. Fits("parseFncallExpr", parseFncallExpr, <<0, 0, 1>>)
      BY <1>1, <1>2, <1>3, <1>4 DEF parseFncallExpr
    <2> HIDE DEF Fits, Adds
    <2> QED BY <2>1 DEF Built
  <1>14. Fits("parseBinopExpr", parseBinopExpr, Built["parseBinopExpr"])
    <2>1. Fits("parseBinopExpr", parseBinopExpr, <<0, 0, 1, 1, 2, 2>>)
      <3>1. Adds("parseBinopExpr", Word("PL"), 1, 0, 0) BY <1>1, <1>2, <1>3, <1>4
      <3>2. Adds("parseBinopExpr", Expr, 2, 0, 1) BY <1>1, <1>2, <1>3, <1>4
      <3>3. Adds("parseBinopExpr", Match(BinOps), 3, 1, 1) BY <1>1, <1>2, <1>3, <1>4
      <3>4. Adds("parseBinopExpr", Expr, 4, 1, 2) BY <1>1, <1>2, <1>3, <1>4
      <3>5. Adds("parseBinopExpr", Word("PR"), 5, 2, 2) BY <1>1, <1>2, <1>3, <1>4
      <3> HIDE DEF Adds, Word, Match, Parse, May, After, Expr
      <3> QED BY <3>1, <3>2, <3>3, <3>4, <3>5 DEF parseBinopExpr
    <2> HIDE DEF Fits, Adds
    <2> QED BY <2>1 DEF Built
  <1>15. Fits("parseUnaryopExpr", parseUnaryopExpr, Built["parseUnaryopExpr"])
    <2>1. Fits("parseUnaryopExpr", parseUnaryopExpr, <<0, 0, 0, 1, 1>>)
      BY <1>1, <1>2, <1>3, <1>4 DEF parseUnaryopExpr
    <2> HIDE DEF Fits, Adds
    <2> QED BY <2>1 DEF Built
  <1>16. Fits("parseVarAssignment", parseVarAssignment, Built["parseVarAssignment"])
    <2>1. Fits("parseVarAssignment", parseVarAssignment, <<0, 0, 0, 1>>)
      BY <1>1, <1>2, <1>3, <1>4 DEF parseVarAssignment
    <2> HIDE DEF Fits, Adds
    <2> QED BY <2>1 DEF Built
  <1>17. Fits("parseArrayAssignment", parseArrayAssignment, Built["parseArrayAssignment"])
    <2>1. Fits("parseArrayAssignment", parseArrayAssignment, <<0, 0, 0, 1, 1, 1, 2>>)
      BY <1>1, <1>2, <1>3, <1>4 DEF parseArrayAssignment
    <2> HIDE DEF Fits, Adds
    <2> QED BY <2>1 DEF Built
  <1>18. Fits("parsePrintStmt", parsePrintStmt, Built["parsePrintStmt"])
    <2>1. Fits("parsePrintStmt", parsePrintStmt, <<0, 0, 1>>)
      BY <1>1, <1>2, <1>3, <1>4 DEF parsePrintStmt
    <2> HIDE DEF Fits, Adds
    <2> QED BY <2>1 DEF Built
  <1>19. Fits("parseAbortStmt", parseAbortStmt, Built["parseAbortStmt"])
    <2>1. Fits("parseAbortStmt", parseAbortStmt, <<0, 0, 1>>)
      BY <1>1, <1>2, <1>3, <1>4 DEF parseAbortStmt
    <2> HIDE DEF Fits, Adds
    <2> QED BY <2>1 DEF Built
  <1>20. Fits("parseIfStmt", parseIfStmt, Built["parseIfStmt"])
    <2>1. Fits("parseIfStmt", parseIfStmt, <<0, 0, 0, 1, 1, 2, 3>>)
      BY <1>1, <1>2, <1>3, <1>4 DEF parseIfStmt
    <2> HIDE DEF Fits, Adds
    <2> QED BY <2>1 DEF Built
  <1>21. Fits("parseWhileStmt", parseWhileStmt, Built["parseWhileStmt"])
    <2>1. Fits("parseWhileStmt", parseWhileStmt, <<0, 0, 0, 1, 1, 2>>)
      BY <1>1, <1>2, <1>3, <1>4 DEF parseWhileStmt
    <2> HIDE DEF Fits, Adds
    <2> QED BY <2>1 DEF Built
  <1>22. Fits("parseForStmt", parseForStmt, Built["parseForStmt"])
    <2>1. Fits("parseForStmt", parseForStmt, <<0, 0, 0, 1, 1, 2, 2, 3>>)
      BY <1>1, <1>2, <1>3, <1>4 DEF parseForStmt
    <2> HIDE DEF Fits, Adds
    <2> QED BY <2>1 DEF Built
  <1>23. Fits("parseReturnStmt", parseReturnStmt, Built["parseReturnStmt"])
    <2>1. Fits("parseReturnStmt", parseReturnStmt, <<0, 0, 1>>)
      BY <1>1, <1>2, <1>3, <1>4 DEF parseReturnStmt
    <2> HIDE DEF Fits, Adds
    <2> QED BY <2>1 DEF Built
  <1>24. Fits("parseFnDef", parseFnDef, Built["parseFnDef"])
    <2>1. Fits("parseFnDef", parseFnDef, <<0, 0, 0, 1, 2>>) BY <1>1, <1>2, <1>3, <1>4 DEF parseFnDef
    <2> HIDE DEF Fits, Adds
    <2> QED BY <2>1 DEF Built
  <1> HIDE DEF Fits
  <1> QED
    BY <1>5, <1>6, <1>7, <1>8, <1>9, <1>10, <1>11, <1>12, <1>13, <1>14, <1>15, <1>16, <1>17, <1>18,
       <1>19, <1>20, <1>21, <1>22, <1>23, <1>24 DEF Row

LEMMA OrGood ==
    ASSUME NEW n \in GoodTexts, NEW fn,
           n # Null \/ fn \in KeepsNull \ {"parseReturnStmt", "parseProgram"}
    PROVE  Or(n, fn) \in GoodTexts
  <1>1. CASE n # Null BY <1>1 DEF Or, Null
  <1>2. CASE n = Null
    <2>1. fn \in {"parseFnArgs", "parseIfStmt", "parseTernaryExpr", "parseArrayDecls"}
      BY <1>2 DEF KeepsNull
    <2>2. Hole(fn) \in Tokens \cup KnownHoles BY <2>1 DEF Hole, KnownHoles
    <2>3. <<Hole(fn)>> \in GoodTexts BY <2>2, TextsJoin, Zenon
    <2> QED BY <1>2, <2>3 DEF Or, Null
  <1> QED BY <1>1, <1>2

LEMMA OptionalGood ==
    ASSUME NEW w \in GoodTexts, NEW n \in GoodTexts PROVE Optional(w, n) \in GoodTexts
  BY TextsJoin DEF Optional

LEMMA ArrayTextGood ==
    ASSUME NEW t \in Tokens, NEW n \in GoodTexts PROVE ArrayText(t, n) \in GoodTexts
  <1>1. Or(n, "parseArrayDecls") \in GoodTexts BY OrGood DEF KeepsNull
  <1>2. "SL" \in Tokens /\ "SR" \in Tokens BY WordsOfTexts
  <1>3. <<t, "SL">> \in GoodTexts /\ <<"SR">> \in GoodTexts BY <1>2, TextsJoin
  <1>4. <<t, "SL">> \o Or(n, "parseArrayDecls") \in GoodTexts BY <1>1, <1>3, TextsJoin
  <1> QED BY <1>3, <1>4, TextsJoin DEF ArrayText

(* The node that a function of a row builds at its end.                    *)
LEMMA RowTextGood ==
    ASSUME NEW f, Sound(f), f.fn \in DOMAIN Row, f.at = Len(Row[f.fn]) + 1,
           f.fn = "parseIfStmt" => f.kids[2] # Null
    PROVE  Text(f.fn, f.op, f.kids) \in GoodTexts
  <1> DEFINE kids == f.kids
             k == [i \in DOMAIN kids |-> Or(kids[i], f.fn)]
  <1>1. kids \in Seq(GoodTexts) /\ f.op \in Tokens \cup {"End", "none"} BY DEF Sound
  <1>2. \A i \in 1..Len(kids) : kids[i] \in GoodTexts /\ i \in DOMAIN kids
    BY <1>1, ElementOfSeq, LenProperties
  <1>3. f.fn # "parseReturnStmt" => \A i \in 1..Len(kids) : k[i] \in GoodTexts
    <2> SUFFICES ASSUME f.fn # "parseReturnStmt", NEW i \in 1..Len(kids)
                 PROVE  k[i] \in GoodTexts
      OBVIOUS
    <2>1. kids[i] # Null \/ f.fn \in KeepsNull \ {"parseReturnStmt", "parseProgram"}
      <3>1. f.fn # "parseProgram" BY DEF Row
      <3> QED BY <3>1 DEF Sound
    <2>2. Or(kids[i], f.fn) \in GoodTexts BY <1>2, <2>1, OrGood
    <2> QED BY <1>2, <2>2
  <1>4. Len(kids) = Built[f.fn][Len(Row[f.fn]) + 1] BY DEF Sound
  <1>5. f.op # "End"
    <2>1. "parseArrayDecls" \notin DOMAIN Row BY DEF Row
    <2> QED BY <2>1 DEF Sound, Holds
  <1>6. \A t \in Tokens : <<t>> \in GoodTexts BY TextsJoin, Zenon
  <1>7. CASE f.fn = "parseTrueExpr"
    <2>1. Text(f.fn, f.op, kids) = <<"Literal_true">>
      BY <1>7 DEF Text
    <2>2. "Literal_true" \in Tokens BY WordsOfTexts
    <2> HIDE DEF k, kids
    <2>3. <<"Literal_true">> \in GoodTexts BY <2>2, TextsJoin
    <2> QED BY <2>1, <2>3 DEF kids
  <1>8. CASE f.fn = "parseFalseExpr"
    <2>1. Text(f.fn, f.op, kids) = <<"Literal_false">>
      BY <1>8 DEF Text
    <2>2. "Literal_false" \in Tokens BY WordsOfTexts
    <2> HIDE DEF k, kids
    <2>3. <<"Literal_false">> \in GoodTexts BY <2>2, TextsJoin
    <2> QED BY <2>1, <2>3 DEF kids
  <1>9. CASE f.fn = "parseNumberExpr"
    <2>1. Text(f.fn, f.op, kids) = <<"Number">>
      BY <1>9 DEF Text
    <2>2. "Number" \in Tokens BY WordsOfTexts
    <2> HIDE DEF k, kids
    <2>3. <<"Number">> \in GoodTexts BY <2>2, TextsJoin
    <2> QED BY <2>1, <2>3 DEF kids
  <1>10. CASE f.fn = "parseIdentExpr"
    <2>1. Text(f.fn, f.op, kids) = <<"Id">>
      BY <1>10 DEF Text
    <2>2. "Id" \in Tokens BY WordsOfTexts
    <2> HIDE DEF k, kids
    <2>3. <<"Id">> \in GoodTexts BY <2>2, TextsJoin
    <2> QED BY <2>1, <2>3 DEF kids
  <1>11. CASE f.fn = "parseTernaryExpr"
    <2>1. Text(f.fn, f.op, kids) = Paren(k[1] \o <<"Op_question">> \o k[2] \o <<"Op_colon">> \o k[3])
      BY <1>11 DEF Text
    <2>2. Len(kids) = 3 BY <1>4, <1>11 DEF Built, Row, parseTernaryExpr
    <2>3. k[1] \in GoodTexts /\ k[2] \in GoodTexts /\ k[3] \in GoodTexts BY <1>2, <1>3, <1>11, <2>2
    <2>4. "Op_colon" \in Tokens /\ "Op_question" \in Tokens BY WordsOfTexts
    <2> HIDE DEF k, kids
    <2>5. <<"Op_colon">> \in GoodTexts BY <2>3, <2>4, TextsJoin
    <2>6. <<"Op_question">> \in GoodTexts BY <2>3, <2>4, TextsJoin
    <2>7. k[1] \o <<"Op_question">> \in GoodTexts BY <2>3, <2>6, TextsJoin
    <2>8. k[1] \o <<"Op_question">> \o k[2] \in GoodTexts BY <2>7, <2>3, TextsJoin
    <2>9. k[1] \o <<"Op_question">> \o k[2] \o <<"Op_colon">> \in GoodTexts BY <2>8, <2>5, TextsJoin
    <2>10. k[1] \o <<"Op_question">> \o k[2] \o <<"Op_colon">> \o k[3] \in GoodTexts
      BY <2>9, <2>3, TextsJoin
    <2>11. Paren(k[1] \o <<"Op_question">> \o k[2] \o <<"Op_colon">> \o k[3]) \in GoodTexts
      BY <2>10, ParenGood
    <2> QED BY <2>1, <2>11 DEF kids
  <1>12. CASE f.fn = "parseSizeofExpr"
    <2>1. Text(f.fn, f.op, kids) = <<"Sizeof">> \o Paren(k[1])
      BY <1>12 DEF Text
    <2>2. Len(kids) = 1 BY <1>4, <1>12 DEF Built, Row, parseSizeofExpr
    <2>3. k[1] \in GoodTexts BY <1>2, <1>3, <1>12, <2>2
    <2>4. "Sizeof" \in Tokens BY WordsOfTexts
    <2> HIDE DEF k, kids
    <2>5. <<"Sizeof">> \in GoodTexts BY <2>3, <2>4, TextsJoin
    <2>6. Paren(k[1]) \in GoodTexts BY <2>3, ParenGood
    <2>7. <<"Sizeof">> \o Paren(k[1]) \in GoodTexts BY <2>5, <2>6, TextsJoin
    <2> QED BY <2>1, <2>7 DEF kids
  <1>13. CASE f.fn = "parseInputExpr"
    <2>1. Text(f.fn, f.op, kids) = <<"Input", "PL", "PR">>
      BY <1>13 DEF Text
    <2>2. "Input" \in Tokens /\ "PL" \in Tokens /\ "PR" \in Tokens BY WordsOfTexts
    <2> HIDE DEF k, kids
    <2>3. <<"Input", "PL", "PR">> \in GoodTexts BY <2>2, TextsJoin
    <2> QED BY <2>1, <2>3 DEF kids
  <1>14. CASE f.fn = "parseArrayExpr"
    <2>1. Text(f.fn, f.op, kids) = ArrayText("Id", k[1])
      BY <1>14 DEF Text
    <2>2. Len(kids) = 1 BY <1>4, <1>14 DEF Built, Row, parseArrayExpr
    <2>3. k[1] \in GoodTexts BY <1>2, <1>3, <1>14, <2>2
    <2>4. "Id" \in Tokens BY WordsOfTexts
    <2> HIDE DEF k, kids
    <2>5. ArrayText("Id", k[1]) \in GoodTexts BY <2>3, <2>4, ArrayTextGood
    <2> QED BY <2>1, <2>5 DEF kids
  <1>15. CASE f.fn = "parseFncallExpr"
    <2>1. Text(f.fn, f.op, kids) = <<"Id">> \o k[1]
      BY <1>15 DEF Text
    <2>2. Len(kids) = 1 BY <1>4, <1>15 DEF Built, Row, parseFncallExpr
    <2>3. k[1] \in GoodTexts BY <1>2, <1>3, <1>15, <2>2
    <2>4. "Id" \in Tokens BY WordsOfTexts
    <2> HIDE DEF k, kids
    <2>5. <<"Id">> \in GoodTexts BY <2>3, <2>4, TextsJoin
    <2>6. <<"Id">> \o k[1] \in GoodTexts BY <2>5, <2>3, TextsJoin
    <2> QED BY <2>1, <2>6 DEF kids
  <1>16. CASE f.fn = "parseBinopExpr"
    <2>1. Text(f.fn, f.op, kids) = Paren(k[1] \o <<f.op>> \o k[2])
      BY <1>16 DEF Text
    <2>2. Len(kids) = 2 BY <1>4, <1>16 DEF Built, Row, parseBinopExpr
    <2>3. k[1] \in GoodTexts /\ k[2] \in GoodTexts BY <1>2, <1>3, <1>16, <2>2
    <2>4. f.op \in Tokens
      <3>1. f.at >= HoldsFrom[f.fn] /\ f.fn \in DOMAIN HoldsFrom
        BY <1>16 DEF Row, parseBinopExpr, HoldsFrom
      <3> QED BY <1>1, <1>5, <3>1 DEF Sound, Holds
    <2> HIDE DEF k, kids
    <2>5. <<f.op>> \in GoodTexts BY <2>3, <2>4, TextsJoin
    <2>6. k[1] \o <<f.op>> \in GoodTexts BY <2>3, <2>5, TextsJoin
    <2>7. k[1] \o <<f.op>> \o k[2] \in GoodTexts BY <2>6, <2>3, TextsJoin
    <2>8. Paren(k[1] \o <<f.op>> \o k[2]) \in GoodTexts BY <2>7, ParenGood
    <2> QED BY <2>1, <2>8 DEF kids
  <1>17. CASE f.fn = "parseUnaryopExpr"
    <2>1. Text(f.fn, f.op, kids) = Paren(<<f.op>> \o k[1])
      BY <1>17 DEF Text
    <2>2. Len(kids) = 1 BY <1>4, <1>17 DEF Built, Row, parseUnaryopExpr
    <2>3. k[1] \in GoodTexts BY <1>2, <1>3, <1>17, <2>2
    <2>4. f.op \in Tokens
      <3>1. f.at >= HoldsFrom[f.fn] /\ f.fn \in DOMAIN HoldsFrom
        BY <1>17 DEF Row, parseUnaryopExpr, HoldsFrom
      <3> QED BY <1>1, <1>5, <3>1 DEF Sound, Holds
    <2> HIDE DEF k, kids
    <2>5. <<f.op>> \in GoodTexts BY <2>3, <2>4, TextsJoin
    <2>6. <<f.op>> \o k[1] \in GoodTexts BY <2>5, <2>3, TextsJoin
    <2>7. Paren(<<f.op>> \o k[1]) \in GoodTexts BY <2>6, ParenGood
    <2> QED BY <2>1, <2>7 DEF kids
  <1>18. CASE f.fn = "parseVarAssignment"
    <2>1. Text(f.fn, f.op, kids) = <<"Id", "Op_assignment">> \o k[1]
      BY <1>18 DEF Text
    <2>2. Len(kids) = 1 BY <1>4, <1>18 DEF Built, Row, parseVarAssignment
    <2>3. k[1] \in GoodTexts BY <1>2, <1>3, <1>18, <2>2
    <2>4. "Id" \in Tokens /\ "Op_assignment" \in Tokens BY WordsOfTexts
    <2> HIDE DEF k, kids
    <2>5. <<"Id", "Op_assignment">> \in GoodTexts BY <2>3, <2>4, TextsJoin
    <2>6. <<"Id", "Op_assignment">> \o k[1] \in GoodTexts BY <2>5, <2>3, TextsJoin
    <2> QED BY <2>1, <2>6 DEF kids
  <1>19. CASE f.fn = "parseArrayAssignment"
    <2>1. Text(f.fn, f.op, kids) = ArrayText("Id", k[1]) \o <<"Op_assignment">> \o k[2]
      BY <1>19 DEF Text
    <2>2. Len(kids) = 2 BY <1>4, <1>19 DEF Built, Row, parseArrayAssignment
    <2>3. k[1] \in GoodTexts /\ k[2] \in GoodTexts BY <1>2, <1>3, <1>19, <2>2
    <2>4. "Id" \in Tokens /\ "Op_assignment" \in Tokens BY WordsOfTexts
    <2> HIDE DEF k, kids
    <2>5. <<"Op_assignment">> \in GoodTexts BY <2>3, <2>4, TextsJoin
    <2>6. ArrayText("Id", k[1]) \in GoodTexts BY <2>3, <2>4, ArrayTextGood
    <2>7. ArrayText("Id", k[1]) \o <<"Op_assignment">> \in GoodTexts BY <2>6, <2>5, TextsJoin
    <2>8. ArrayText("Id", k[1]) \o <<"Op_assignment">> \o k[2] \in GoodTexts
      BY <2>7, <2>3, TextsJoin
    <2> QED BY <2>1, <2>8 DEF kids
  <1>20. CASE f.fn = "parsePrintStmt"
    <2>1. Text(f.fn, f.op, kids) = <<"Print">> \o k[1]
      BY <1>20 DEF Text
    <2>2. Len(kids) = 1 BY <1>4, <1>20 DEF Built, Row, parsePrintStmt
    <2>3. k[1] \in GoodTexts BY <1>2, <1>3, <1>20, <2>2
    <2>4. "Print" \in Tokens BY WordsOfTexts
    <2> HIDE DEF k, kids
    <2>5. <<"Print">> \in GoodTexts BY <2>3, <2>4, TextsJoin
    <2>6. <<"Print">> \o k[1] \in GoodTexts BY <2>5, <2>3, TextsJoin
    <2> QED BY <2>1, <2>6 DEF kids
  <1>21. CASE f.fn = "parseAbortStmt"
    <2>1. Text(f.fn, f.op, kids) = <<"Abort">> \o k[1]
      BY <1>21 DEF Text
    <2>2. Len(kids) = 1 BY <1>4, <1>21 DEF Built, Row, parseAbortStmt
    <2>3. k[1] \in GoodTexts BY <1>2, <1>3, <1>21, <2>2
    <2>4. "Abort" \in Tokens BY WordsOfTexts
    <2> HIDE DEF k, kids
    <2>5. <<"Abort">> \in GoodTexts BY <2>3, <2>4, TextsJoin
    <2>6. <<"Abort">> \o k[1] \in GoodTexts BY <2>5, <2>3, TextsJoin
    <2> QED BY <2>1, <2>6 DEF kids
  <1>22. CASE f.fn = "parseIfStmt"
    <2>1. Text(f.fn, f.op, kids) = <<"If">> \o Paren(k[1]) \o k[2] \o Optional(<<"Else">>, kids[3])
      BY <1>22 DEF Text
    <2>2. Len(kids) = 3 BY <1>4, <1>22 DEF Built, Row, parseIfStmt
    <2>3. k[1] \in GoodTexts /\ k[2] \in GoodTexts /\ kids[3] \in GoodTexts
      BY <1>2, <1>3, <1>22, <2>2
    <2>4. "Else" \in Tokens /\ "If" \in Tokens BY WordsOfTexts
    <2> HIDE DEF k, kids
    <2>5. <<"Else">> \in GoodTexts BY <2>3, <2>4, TextsJoin
    <2>6. <<"If">> \in GoodTexts BY <2>3, <2>4, TextsJoin
    <2>7. Paren(k[1]) \in GoodTexts BY <2>3, ParenGood
    <2>8. Optional(<<"Else">>, kids[3]) \in GoodTexts BY <2>3, <2>4, <2>5, <2>6, OptionalGood
    <2>9. <<"If">> \o Paren(k[1]) \in GoodTexts BY <2>6, <2>7, TextsJoin
    <2>10. <<"If">> \o Paren(k[1]) \o k[2] \in GoodTexts BY <2>9, <2>3, TextsJoin
    <2>11. <<"If">> \o Paren(k[1]) \o k[2] \o Optional(<<"Else">>, kids[3]) \in GoodTexts
      BY <2>10, <2>8, TextsJoin
    <2> QED BY <2>1, <2>11 DEF kids
  <1>23. CASE f.fn = "parseWhileStmt"
    <2>1. Text(f.fn, f.op, kids) = <<"While">> \o Paren(k[1]) \o k[2]
      BY <1>23 DEF Text
    <2>2. Len(kids) = 2 BY <1>4, <1>23 DEF Built, Row, parseWhileStmt
    <2>3. k[1] \in GoodTexts /\ k[2] \in GoodTexts BY <1>2, <1>3, <1>23, <2>2
    <2>4. "While" \in Tokens BY WordsOfTexts
    <2> HIDE DEF k, kids
    <2>5. <<"While">> \in GoodTexts BY <2>3, <2>4, TextsJoin
    <2>6. Paren(k[1]) \in GoodTexts BY <2>3, ParenGood
    <2>7. <<"While">> \o Paren(k[1]) \in GoodTexts BY <2>5, <2>6, TextsJoin
    <2>8. <<"While">> \o Paren(k[1]) \o k[2] \in GoodTexts BY <2>7, <2>3, TextsJoin
    <2> QED BY <2>1, <2>8 DEF kids
  <1>24. CASE f.fn = "parseForStmt"
    <2>1. Text(f.fn, f.op, kids) = <<"For">> \o Paren(k[1] \o <<"Op_colon">> \o k[2]) \o k[3]
      BY <1>24 DEF Text
    <2>2. Len(kids) = 3 BY <1>4, <1>24 DEF Built, Row, parseForStmt
    <2>3. k[1] \in GoodTexts /\ k[2] \in GoodTexts /\ k[3] \in GoodTexts BY <1>2, <1>3, <1>24, <2>2
    <2>4. "For" \in Tokens /\ "Op_colon" \in Tokens BY WordsOfTexts
    <2> HIDE DEF k, kids
    <2>5. <<"For">> \in GoodTexts BY <2>3, <2>4, TextsJoin
    <2>6. <<"Op_colon">> \in GoodTexts BY <2>3, <2>4, TextsJoin
    <2>7. k[1] \o <<"Op_colon">> \in GoodTexts BY <2>3, <2>6, TextsJoin
    <2>8. k[1] \o <<"Op_colon">> \o k[2] \in GoodTexts BY <2>7, <2>3, TextsJoin
    <2>9. Paren(k[1] \o <<"Op_colon">> \o k[2]) \in GoodTexts BY <2>8, ParenGood
    <2>10. <<"For">> \o Paren(k[1] \o <<"Op_colon">> \o k[2]) \in GoodTexts BY <2>5, <2>9, TextsJoin
    <2>11. <<"For">> \o Paren(k[1] \o <<"Op_colon">> \o k[2]) \o k[3] \in GoodTexts
      BY <2>10, <2>3, TextsJoin
    <2> QED BY <2>1, <2>11 DEF kids
  <1>25. CASE f.fn = "parseReturnStmt"
    <2>1. Text(f.fn, f.op, kids) = <<"Return">> \o Optional(<<>>, kids[1])
      BY <1>25 DEF Text
    <2>2. Len(kids) = 1 BY <1>4, <1>25 DEF Built, Row, parseReturnStmt
    <2>3. kids[1] \in GoodTexts BY <1>2, <2>2
    <2>4. "Return" \in Tokens BY WordsOfTexts
    <2> HIDE DEF k, kids
    <2>5. <<"Return">> \in GoodTexts BY <2>3, <2>4, TextsJoin
    <2>6. <<>> \in GoodTexts BY TextsJoin
    <2>7. Optional(<<>>, kids[1]) \in GoodTexts BY <2>3, <2>4, <2>5, <2>6, OptionalGood
    <2>8. <<"Return">> \o Optional(<<>>, kids[1]) \in GoodTexts BY <2>5, <2>7, TextsJoin
    <2> QED BY <2>1, <2>8 DEF kids
  <1>26. CASE f.fn = "parseFnDef"
    <2>1. Text(f.fn, f.op, kids) = <<f.op, "Id">> \o k[1] \o k[2]
      BY <1>26 DEF Text
    <2>2. Len(kids) = 2 BY <1>4, <1>26 DEF Built, Row, parseFnDef
    <2>3. k[1] \in GoodTexts /\ k[2] \in GoodTexts BY <1>2, <1>3, <1>26, <2>2
    <2>4. f.op \in Tokens
      <3>1. f.at >= HoldsFrom[f.fn] /\ f.fn \in DOMAIN HoldsFrom
        BY <1>26 DEF Row, parseFnDef, HoldsFrom
      <3> QED BY <1>1, <1>5, <3>1 DEF Sound, Holds
    <2>5. "Id" \in Tokens BY WordsOfTexts
    <2> HIDE DEF k, kids
    <2>6. <<f.op, "Id">> \in GoodTexts BY <2>3, <2>4, <2>5, TextsJoin
    <2>7. <<f.op, "Id">> \o k[1] \in GoodTexts BY <2>6, <2>3, TextsJoin
    <2>8. <<f.op, "Id">> \o k[1] \o k[2] \in GoodTexts BY <2>7, <2>3, TextsJoin
    <2> QED BY <2>1, <2>8 DEF kids
  <1> QED
    BY <1>7, <1>8, <1>9, <1>10, <1>11, <1>12, <1>13, <1>14, <1>15, <1>16, <1>17, <1>18, <1>19,
       <1>20, <1>21, <1>22, <1>23, <1>24, <1>25, <1>26 DEF Row

-----------------------------------------------------------------------------
(* Every step builds on what there is in one of a few ways.                *)

SeesEnd(f) == f.op = "End" => curTokIdx' <= Len(tokens) /\ tokens[curTokIdx'] = "End"

GoesOn  == \E f : Sound(f) /\ SeesEnd(f) /\ Go(f)
Calls   == \E f : \E fn \in Functions : Sound(f) /\ Waits(f) /\ Call(f, fn, curTokIdx')
Returns == \E n \in GoodTexts : Return(n) /\ Top.fn # "parseProgram"
Stops   == /\ Stay /\ UNCHANGED <<calls, ret>>
           /\ phase' \in {"parsed", "error"}

Builds == GoesOn \/ Calls \/ Returns \/ Stops

(* The innermost call, and the frames it goes on as if it is of no row.    *)
LEMMA TopSound ==
    ASSUME CallsInv, TreeInv
    PROVE  /\ Sound(Top) /\ Len(calls) \in Nat \ {0}
           /\ Top.tokIdx \in Nat \ {0} /\ Top.at \in Nat \ {0} /\ Top.fn \in Functions
           /\ Top.op \in Tokens \cup {"End", "none"} /\ Top.kids \in Seq(GoodTexts)
           /\ Top.fn # "parseArrayDecls" => Top.op # "End"
           /\ Top = At(Top.at)
  <1>1. Len(calls) \in Nat \ {0} BY TopShape
  <1>2. Len(calls) \in 1..Len(calls) BY <1>1
  <1>3. Sound(Top) BY <1>2 DEF TreeInv, Top
  <1>4. Top \in [fn : Functions, tokIdx : Nat \ {0}, at : Nat \ {0},
                 op : Tokens \cup {"End", "none"}, kids : Seq(GoodTexts)]
    BY <1>3 DEF Sound
  <1>5. Top = At(Top.at) BY <1>4 DEF At, Onward
  <1>6. Top.fn # "parseArrayDecls" => Top.op # "End" BY <1>3 DEF Sound, Holds
  <1> QED BY <1>1, <1>3, <1>4, <1>5, <1>6

LEMMA LoopSound ==
    ASSUME CallsInv, TreeInv, Top.fn \notin DOMAIN Row, NEW k \in Nat \ {0}
    PROVE  /\ Holds(Top.fn, k, Top.op) => Sound(At(k))
           /\ \A t \in Tokens \cup {"End"} :
                 (t = "End" => Top.fn = "parseArrayDecls") => Sound(Holding(k, t))
           /\ \A n \in GoodTexts :
                 /\ Holds(Top.fn, k, Top.op)
                 /\ n # Null \/ Top.fn \in KeepsNull
                 => Sound(With(k, n))
  <1> DEFINE fs == [fn : Functions, tokIdx : Nat \ {0}, at : Nat \ {0},
                    op : Tokens \cup {"End", "none"}, kids : Seq(GoodTexts)]
  <1>1. Top \in fs /\ (Top.fn \notin KeepsNull => \A i \in 1..Len(Top.kids) : Top.kids[i] # Null)
    BY TopSound DEF Sound
  <1>2. Holds(Top.fn, k, Top.op) => Sound(At(k))
    BY <1>1 DEF Sound, At, Onward
  <1>3. ASSUME NEW t \in Tokens \cup {"End"}, t = "End" => Top.fn = "parseArrayDecls"
        PROVE  Sound(Holding(k, t))
    <2>1. Holds(Top.fn, k, t) BY <1>3, WordsOfTexts DEF Holds
    <2> QED BY <1>1, <2>1 DEF Sound, Holding, Onward
  <1>4. ASSUME NEW n \in GoodTexts, Holds(Top.fn, k, Top.op), n # Null \/ Top.fn \in KeepsNull
        PROVE  Sound(With(k, n))
    <2> DEFINE kids == Append(Top.kids, n)
    <2>1. /\ kids \in Seq(GoodTexts) /\ Len(kids) = Len(Top.kids) + 1 /\ Len(Top.kids) \in Nat
          /\ kids[Len(Top.kids) + 1] = n
          /\ \A i \in 1..Len(Top.kids) : kids[i] = Top.kids[i]
      <3>1. Top.kids \in Seq(GoodTexts) BY <1>1
      <3> QED BY ONLY <3>1, n \in GoodTexts, PushLemma
    <2>2. With(k, n) = Onward(k, Top.op, kids) BY DEF With
    <2> HIDE DEF kids
    <2>3. Top.fn \notin KeepsNull => \A i \in 1..Len(kids) : kids[i] # Null
      <3> SUFFICES ASSUME Top.fn \notin KeepsNull, NEW i \in 1..Len(kids) PROVE kids[i] # Null
        OBVIOUS
      <3>1. CASE i = Len(Top.kids) + 1 BY <1>4, <2>1, <3>1
      <3>2. CASE i \in 1..Len(Top.kids) BY <1>1, <2>1, <3>2
      <3> QED BY <2>1, <3>1, <3>2
    <2> QED BY <1>1, <1>4, <2>1, <2>2, <2>3 DEF Sound, Onward
  <1> QED BY <1>2, <1>3, <1>4

(* A token that is consumed is not the End that an array's name may be.    *)
LEMMA Consumed ==
    ASSUME TreeInv, BufferInv
    PROVE  /\ Known => curTok \in Tokens \cup {"End"}
           /\ \A t : Consume(t) /\ t # "End" => Top.op # "End" /\ t = curTok
           /\ \A S : Miss(S) \/ Look(S) => curTokIdx' = curTokIdx
           /\ \A S : Miss(S) \/ Look(S) => (Top.op = "End" => curTokIdx' <= Len(tokens) /\ tokens[curTokIdx'] = "End")
  <1>1. Known => curTok \in Tokens \cup {"End"}
    <2>1. curTokIdx \in 1..Len(tokens) + 1 /\ Len(tokens) \in Nat
      BY LenProperties DEF BufferInv, InBuffer
    <2>2. Known => curTokIdx \in 1..Len(tokens) BY <2>1 DEF Known
    <2> QED BY <2>2, ElementOfSeq DEF BufferInv, curTok
  <1>2. \A t : Consume(t) /\ t # "End" => Top.op # "End" /\ t = curTok
    BY DEF TreeInv, Consume
  <1>3. \A S : Miss(S) \/ Look(S) => curTokIdx' = curTokIdx BY DEF Miss, Look, Stay
  <1>4. \A S : Miss(S) \/ Look(S) => (Top.op = "End" => curTokIdx' <= Len(tokens) /\ tokens[curTokIdx'] = "End")
    BY <1>3 DEF TreeInv, Known, curTok
  <1> QED BY <1>1, <1>2, <1>3, <1>4

(* The ways a step ends; and for a function that is of no row, with what   *)
(* it goes on.                                                             *)
LEMMA EndsBuild ==
    /\ \A f : Sound(f) /\ SeesEnd(f) /\ Go(f) => Builds
    /\ \A f : \A fn \in Functions : Sound(f) /\ Waits(f) /\ Call(f, fn, curTokIdx') => Builds
    /\ \A n \in GoodTexts : Return(n) /\ Top.fn # "parseProgram" => Builds
    /\ Stay /\ Throw => Builds
  BY DEF Builds, GoesOn, Calls, Returns, Stops, Throw

LEMMA LoopBuilds ==
    ASSUME CallsInv, TreeInv, Top.fn \notin DOMAIN Row, Top.fn # "parseArrayDecls"
    PROVE  /\ Go(Top) => Builds
           /\ \A fn \in Functions : Call(Top, fn, curTokIdx') => Builds
           /\ \A k \in Nat \ {0} : Holds(Top.fn, k, Top.op) =>
                 /\ Go(At(k)) => Builds
                 /\ \A fn \in Functions : Call(At(k), fn, curTokIdx') => Builds
                 /\ \A n \in GoodTexts : 
                       (n # Null \/ Top.fn \in KeepsNull) /\ Go(With(k, n)) => Builds
           /\ \A k \in Nat \ {0} : \A t \in Tokens : Go(Holding(k, t)) => Builds
           /\ Return(Null) /\ Top.fn # "parseProgram" => Builds
  <1>1. Top.op # "End" /\ Sound(Top) BY TopSound
  <1>2. SeesEnd(Top) /\ Waits(Top) BY <1>1 DEF SeesEnd, Waits
  <1>3. Null \in GoodTexts BY TextsJoin DEF Null
  <1>4. ASSUME NEW k \in Nat \ {0}, Holds(Top.fn, k, Top.op)
        PROVE  /\ Go(At(k)) => Builds
               /\ \A fn \in Functions : Call(At(k), fn, curTokIdx') => Builds
               /\ \A n \in GoodTexts : 
                     (n # Null \/ Top.fn \in KeepsNull) /\ Go(With(k, n)) => Builds
    <2>1. Sound(At(k)) /\ \A n \in GoodTexts : (n # Null \/ Top.fn \in KeepsNull) => Sound(With(k, n))
      BY <1>4, LoopSound
    <2>2. SeesEnd(At(k)) /\ Waits(At(k)) /\ \A n : SeesEnd(With(k, n))
      BY <1>1 DEF SeesEnd, Waits, At, With, Onward
    <2> QED BY <2>1, <2>2, EndsBuild
  <1>5. ASSUME NEW k \in Nat \ {0}, NEW t \in Tokens, Go(Holding(k, t)) PROVE Builds
    <2>1. t # "End" /\ t \in Tokens \cup {"End"} BY WordsOfTexts
    <2>2. Sound(Holding(k, t)) BY <2>1, LoopSound
    <2>3. SeesEnd(Holding(k, t)) BY <2>1 DEF SeesEnd, Holding, Onward
    <2> QED BY <1>5, <2>2, <2>3, EndsBuild
  <1> QED BY <1>1, <1>2, <1>3, <1>4, <1>5, EndsBuild

(* The node that a function that loops builds from its list.               *)
LEMMA LoopTextGood ==
    ASSUME NEW fn \in {"parseFnArgs", "parseStringOrExprArgs", "parseVarDecls",
                       "parseArrayDecls", "parseStmtBlock", "parseFnParams"},
           NEW op, fn = "parseVarDecls" => op \in Tokens,
           NEW kids \in Seq(GoodTexts),
           fn \notin KeepsNull => \A i \in 1..Len(kids) : kids[i] # Null
    PROVE  Text(fn, op, kids) \in GoodTexts
  <1> DEFINE k == [i \in DOMAIN kids |-> Or(kids[i], fn)]
  <1>1. DOMAIN kids = 1..Len(kids) /\ Len(kids) \in Nat BY LenProperties
  <1>2. \A i \in 1..Len(kids) : Or(kids[i], fn) \in GoodTexts
    <2> TAKE i \in 1..Len(kids)
    <2>1. kids[i] \in GoodTexts BY ElementOfSeq
    <2>2. kids[i] # Null \/ fn \in KeepsNull \ {"parseReturnStmt", "parseProgram"} OBVIOUS
    <2> QED BY <2>1, <2>2, OrGood
  <1>3. k \in Seq(GoodTexts)
    <2>1. \A S : \A n \in Nat : \A x : (\A i \in 1..n : x[i] \in S) /\ x = [i \in 1..n |-> x[i]] => x \in Seq(S)
      OBVIOUS
    <2> QED BY <1>1, <1>2, <2>1
  <1> HIDE DEF k
  <1>4. Run(k) \in GoodTexts /\ Listed(k) \in GoodTexts BY <1>3, RunGood, ListedGood
  <1>5. /\ <<"Type_array">> \in GoodTexts /\ <<"CL">> \in GoodTexts /\ <<"CR">> \in GoodTexts
        /\ fn = "parseVarDecls" => <<op>> \in GoodTexts
    <2>1. "Type_array" \in Tokens /\ "CL" \in Tokens /\ "CR" \in Tokens
      BY WordsOfTexts DEF TypeTokens
    <2> QED BY <2>1, TextsJoin
  <1>6. CASE fn = "parseVarDecls"
    <2>1. Text(fn, op, kids) = <<op>> \o Run(k) BY <1>6 DEF Text, k
    <2> QED BY <1>4, <1>5, <1>6, <2>1, TextsJoin
  <1>7. CASE fn = "parseArrayDecls"
    <2>1. Text(fn, op, kids) = <<"Type_array">> \o Listed(k) BY <1>7 DEF Text, k
    <2> QED BY <1>4, <1>5, <2>1, TextsJoin
  <1>8. CASE fn = "parseStmtBlock"
    <2>1. Text(fn, op, kids) = <<"CL">> \o Run(k) \o <<"CR">> BY <1>8 DEF Text, k
    <2>2. <<"CL">> \o Run(k) \in GoodTexts BY <1>4, <1>5, TextsJoin
    <2> QED BY <1>5, <2>1, <2>2, TextsJoin
  <1>9. CASE fn \in {"parseFnArgs", "parseStringOrExprArgs", "parseFnParams"}
    <2>1. Text(fn, op, kids) = Paren(Listed(k)) BY <1>9 DEF Text, k
    <2> QED BY <1>4, <2>1, ParenGood
  <1> QED BY <1>6, <1>7, <1>8, <1>9

LEMMA RetGood ==
    ASSUME TreeInv PROVE ret.node \in GoodTexts /\ ret.done \in BOOLEAN
  BY DEF TreeInv

LEMMA FnArgsBuilds == ASSUME ParserInv, TreeInv, parseFnArgs PROVE Builds
  <1>1. Top.fn = "parseFnArgs" BY DEF parseFnArgs, In
  <1>2. CallsInv /\ BufferInv BY DEF ParserInv
  <1>3. Top.fn \notin DOMAIN Row /\ Top.fn \in KeepsNull BY <1>1 DEF Row, KeepsNull
  <1>4. \A k : Holds(Top.fn, k, Top.op) BY <1>1, <1>2, TopSound DEF Holds, HoldsFrom
  <1>5. "parseExpr" \in Functions BY DEF Functions
  <1>6. Text(Top.fn, "none", Top.kids) \in GoodTexts
    BY <1>1, <1>2, <1>3, TopSound, LoopTextGood
  <1>7. \A t : Consume(t) => curTokIdx' = curTokIdx + 1 BY DEF Consume, getNextTok
  <1>8. \A S : Miss(S) => curTokIdx' = curTokIdx BY DEF Miss, Stay
  <1>9. /\ Go(At(2)) => Builds
        /\ Go(With(3, ret.node)) => Builds
        /\ Call(At(3), "parseExpr", curTokIdx') => Builds
        /\ Call(Top, "parseExpr", curTokIdx') => Builds
        /\ Return(Null) => Builds
        /\ Return(Text(Top.fn, "none", Top.kids)) => Builds
    BY <1>1, <1>2, <1>3, <1>4, <1>5, <1>6, LoopBuilds, EndsBuild, RetGood
  <1> QED BY <1>7, <1>8, <1>9 DEF parseFnArgs

LEMMA StringOrExprArgsBuilds == ASSUME ParserInv, TreeInv, parseStringOrExprArgs PROVE Builds
  <1>1. Top.fn = "parseStringOrExprArgs" BY DEF parseStringOrExprArgs, In
  <1>2. CallsInv /\ BufferInv BY DEF ParserInv
  <1>3. Top.fn \notin DOMAIN Row /\ Top.fn \notin KeepsNull BY <1>1 DEF Row, KeepsNull
  <1>4. \A k : Holds(Top.fn, k, Top.op) BY <1>1, <1>2, TopSound DEF Holds, HoldsFrom
  <1>5. "parseExpr" \in Functions BY DEF Functions
  <1>6. Text(Top.fn, "none", Top.kids) \in GoodTexts
    <2>1. \A i \in 1..Len(Top.kids) : Top.kids[i] # Null BY <1>2, <1>3, TopSound DEF Sound
    <2> QED BY <1>1, <1>2, <2>1, TopSound, LoopTextGood
  <1>7. \A S : Miss(S) => curTokIdx' = curTokIdx BY DEF Miss, Stay
  <1>8. <<"Literal_string">> \in GoodTexts /\ <<"Literal_string">> # Null
    <2>1. "Literal_string" \in Tokens BY WordsOfTexts
    <2> QED BY <2>1, TextsJoin DEF Null
  <1>9. /\ Go(At(2)) \/ Go(At(4)) => Builds
        /\ ret.node # Null /\ Go(With(3, ret.node)) => Builds
        /\ Go(With(3, <<"Literal_string">>)) => Builds
        /\ Call(Top, "parseExpr", curTokIdx') => Builds
        /\ Return(Null) => Builds
        /\ Return(Text(Top.fn, "none", Top.kids)) => Builds
    <2>1. Go(At(2)) \/ Go(At(4)) => Builds BY <1>1, <1>2, <1>3, <1>4, LoopBuilds
    <2>2. \A n \in GoodTexts : n # Null /\ Go(With(3, n)) => Builds
      BY <1>1, <1>2, <1>3, <1>4, LoopBuilds
    <2>3. Call(Top, "parseExpr", curTokIdx') => Builds BY <1>1, <1>2, <1>3, <1>5, LoopBuilds
    <2>4. Return(Null) => Builds BY <1>1, <1>2, <1>3, LoopBuilds
    <2>5. Return(Text(Top.fn, "none", Top.kids)) => Builds BY <1>1, <1>6, EndsBuild
    <2> QED BY <1>8, <2>1, <2>2, <2>3, <2>4, <2>5, RetGood
  <1>10. PushString => Builds BY <1>9 DEF PushString
  <1>11. \A S : Miss(S) /\ Call(Top, "parseExpr", curTokIdx) => Builds BY <1>7, <1>9
  <1>12. /\ Return(IF Top.kids = <<>> THEN Null ELSE Text(Top.fn, "none", Top.kids)) => Builds
         /\ (IF ret.node = Null THEN Return(Null) ELSE Go(With(3, ret.node))) => Builds
    BY <1>9
  <1> HIDE DEF Builds
  <1> QED BY <1>9, <1>10, <1>11, <1>12 DEF parseStringOrExprArgs

LEMMA VarDeclsBuilds == ASSUME ParserInv, TreeInv, parseVarDecls PROVE Builds
  <1>1. Top.fn = "parseVarDecls" BY DEF parseVarDecls, In
  <1>2. CallsInv /\ BufferInv BY DEF ParserInv
  <1>3. Top.fn \notin DOMAIN Row /\ Top.fn \notin KeepsNull BY <1>1 DEF Row, KeepsNull
  <1>4. Top.at \in {2, 3} => /\ Top.op \in Tokens
                             /\ \A k : Holds(Top.fn, k, Top.op)
    BY <1>1, <1>2, TopSound DEF Sound, Holds, HoldsFrom
  <1>5. Top.at \in {2, 3} => Text(Top.fn, Top.op, Top.kids) \in GoodTexts
    <2>1. \A i \in 1..Len(Top.kids) : Top.kids[i] # Null BY <1>2, <1>3, TopSound DEF Sound
    <2> QED BY <1>1, <1>2, <1>4, <2>1, TopSound, LoopTextGood
  <1>6. <<"Id">> \in GoodTexts /\ <<"Id">> # Null
    <2>1. "Id" \in Tokens BY WordsOfTexts
    <2> QED BY <2>1, TextsJoin DEF Null
  <1>7. \A t \in VarTokens : t \in Tokens BY WordsOfTexts DEF VarTokens
  <1>8. Top.at \in {2, 3} =>
           /\ Go(At(2)) => Builds
           /\ Go(With(3, <<"Id">>)) => Builds
           /\ Return(Text(Top.fn, Top.op, Top.kids)) => Builds
    BY <1>1, <1>2, <1>3, <1>4, <1>5, <1>6, LoopBuilds, EndsBuild
  <1>9. Return(Null) => Builds BY <1>1, <1>2, <1>3, LoopBuilds
  <1>10. curTok \in VarTokens /\ Go(Holding(2, curTok)) => Builds
    BY <1>1, <1>2, <1>3, <1>7, LoopBuilds
  <1> QED BY <1>8, <1>9, <1>10 DEF parseVarDecls

LEMMA StmtBlockBuilds == ASSUME ParserInv, TreeInv, parseStmtBlock PROVE Builds
  <1>1. Top.fn = "parseStmtBlock" BY DEF parseStmtBlock, In
  <1>2. CallsInv /\ BufferInv BY DEF ParserInv
  <1>3. Top.fn \notin DOMAIN Row /\ Top.fn \notin KeepsNull BY <1>1 DEF Row, KeepsNull
  <1>4. \A k : Holds(Top.fn, k, Top.op) BY <1>1, <1>2, TopSound DEF Holds, HoldsFrom
  <1>5. "parseStmt" \in Functions BY DEF Functions
  <1>6. Text(Top.fn, "none", Top.kids) \in GoodTexts
    <2>1. \A i \in 1..Len(Top.kids) : Top.kids[i] # Null BY <1>2, <1>3, TopSound DEF Sound
    <2> QED BY <1>1, <1>2, <2>1, TopSound, LoopTextGood
  <1>7. \A S : Miss(S) => curTokIdx' = curTokIdx BY DEF Miss, Stay
  <1>8. /\ Go(At(2)) \/ Go(At(3)) \/ Go(At(4)) \/ Go(Top) => Builds
        /\ ret.node # Null /\ Go(With(3, ret.node)) => Builds
        /\ Call(Top, "parseStmt", curTokIdx') => Builds
        /\ Return(Null) => Builds
        /\ Return(Text(Top.fn, "none", Top.kids)) => Builds
    BY <1>1, <1>2, <1>3, <1>4, <1>5, <1>6, LoopBuilds, EndsBuild, RetGood
  <1> QED BY <1>7, <1>8 DEF parseStmtBlock

LEMMA FnParamsBuilds == ASSUME ParserInv, TreeInv, parseFnParams PROVE Builds
  <1>1. Top.fn = "parseFnParams" BY DEF parseFnParams, In
  <1>2. CallsInv /\ BufferInv BY DEF ParserInv
  <1>3. Top.fn \notin DOMAIN Row /\ Top.fn \notin KeepsNull BY <1>1 DEF Row, KeepsNull
  <1>4. /\ Holds(Top.fn, 2, Top.op)
        /\ Top.at >= 3 => Top.op \in Tokens /\ \A k : Holds(Top.fn, k, Top.op)
    BY <1>1, <1>2, TopSound DEF Sound, Holds, HoldsFrom
  <1>5. Text(Top.fn, "none", Top.kids) \in GoodTexts
    <2>1. \A i \in 1..Len(Top.kids) : Top.kids[i] # Null BY <1>2, <1>3, TopSound DEF Sound
    <2> QED BY <1>1, <1>2, <2>1, TopSound, LoopTextGood
  <1>6. Top.at >= 3 => <<Top.op, "Id">> \in GoodTexts /\ <<Top.op, "Id">> # Null
    <2>1. "Id" \in Tokens BY WordsOfTexts
    <2> QED BY <1>4, <2>1, TextsJoin DEF Null
  <1>7. \A t \in ParamTokens : t \in Tokens BY WordsOfTexts DEF ParamTokens
  <1>8. /\ Go(At(2)) \/ Return(Null) => Builds
        /\ Return(Text(Top.fn, "none", Top.kids)) => Builds
    BY <1>1, <1>2, <1>3, <1>4, <1>5, LoopBuilds, EndsBuild
  <1>9. Top.at >= 3 => /\ Go(At(5)) => Builds
                       /\ Go(With(4, <<Top.op, "Id">>)) => Builds
    BY <1>1, <1>2, <1>3, <1>4, <1>6, LoopBuilds
  <1>10. curTok \in ParamTokens /\ Go(Holding(3, curTok)) => Builds
    BY <1>1, <1>2, <1>3, <1>7, LoopBuilds
  <1> QED BY <1>8, <1>9, <1>10 DEF parseFnParams

LEMMA ProgramBuilds == ASSUME ParserInv, TreeInv, parseProgram PROVE Builds
  <1>1. Top.fn = "parseProgram" BY DEF parseProgram, In
  <1>2. CallsInv /\ BufferInv BY DEF ParserInv
  <1>3. Top.fn \notin DOMAIN Row /\ Top.fn \in KeepsNull BY <1>1 DEF Row, KeepsNull
  <1>4. \A k : Holds(Top.fn, k, Top.op) BY <1>1, <1>2, TopSound DEF Holds, HoldsFrom
  <1>5. "parseFnDef" \in Functions BY DEF Functions, Row
  <1>6. \A S : Miss(S) \/ Look(S) => Stay BY DEF Miss, Look
  <1>7. \A S : Miss(S) => curTokIdx' = curTokIdx BY DEF Miss, Stay
  <1>8. /\ Go(At(3)) \/ Go(Top) => Builds
        /\ Go(With(2, ret.node)) => Builds
        /\ Call(Top, "parseFnDef", curTokIdx') => Builds
    BY <1>1, <1>2, <1>3, <1>4, <1>5, LoopBuilds, RetGood
  <1>9. /\ Stay /\ Throw => Builds
        /\ Stay /\ phase' = "parsed" /\ UNCHANGED <<calls, ret>> => Builds
    BY EndsBuild DEF Builds, Stops
  <1> QED BY <1>6, <1>7, <1>8, <1>9 DEF parseProgram

(* Only parseArrayDecls may hold the text of End, and then it is there.    *)
LEMMA ArrayDeclsBuilds == ASSUME ParserInv, TreeInv, parseArrayDecls PROVE Builds
  <1>1. Top.fn = "parseArrayDecls" BY DEF parseArrayDecls, In
  <1>2. CallsInv /\ BufferInv BY DEF ParserInv
  <1>3. Top.fn \notin DOMAIN Row /\ Top.fn \in KeepsNull /\ Top.fn # "parseProgram"
    BY <1>1 DEF Row, KeepsNull
  <1>4. /\ \A k \in {2, 3, 4} : Holds(Top.fn, k, Top.op)
        /\ Top.at = 5 => Top.op # "none"
    BY <1>1, <1>2, TopSound DEF Sound, Holds, HoldsFrom
  <1>5. /\ Top.op # "End" => SeesEnd(Top) /\ Waits(Top)
        /\ \A k, n : Top.op # "End" => SeesEnd(At(k)) /\ SeesEnd(With(k, n))
        /\ \A k : \A S : Miss(S) => SeesEnd(At(k))
    BY <1>2, <1>3, Consumed DEF SeesEnd, Waits, At, With, Onward
  <1>6. \A t : Consume(t) /\ t # "End" => Top.op # "End" /\ t = curTok BY <1>2, Consumed
  <1>7. \A k \in {2, 3, 4} : Sound(At(k)) BY <1>2, <1>3, <1>4, LoopSound
  <1>8. \A k \in {2, 3, 4} : \A t : Consume(t) /\ t # "End" /\ Go(At(k)) => Builds
    BY <1>5, <1>6, <1>7, EndsBuild
  <1>9. \A k \in {2, 3, 4} : \A S : Miss(S) /\ Go(At(k)) => Builds
    BY <1>5, <1>7, EndsBuild
  <1>10. Null \in GoodTexts BY TextsJoin DEF Null
  <1>11. Text(Top.fn, "none", Top.kids) \in GoodTexts
    BY <1>1, <1>2, <1>3, TopSound, LoopTextGood
  <1>12. /\ Return(Null) => Builds
         /\ Return(IF Top.kids = <<>> THEN Null ELSE Text(Top.fn, "none", Top.kids)) => Builds
    BY <1>3, <1>10, <1>11, EndsBuild
  <1>13. ASSUME Consume("Id") \/ Miss({"Id"}), Go(Holding(5, curTok)) PROVE Builds
    <2>1. Known BY <1>13 DEF Consume, Miss
    <2>2. curTok \in Tokens \cup {"End"} BY <1>2, <2>1, Consumed
    <2>3. Sound(Holding(5, curTok)) BY <1>1, <1>2, <1>3, <2>2, LoopSound
    <2>4. SeesEnd(Holding(5, curTok))
      BY <1>13, <2>1 DEF SeesEnd, Holding, Onward, Consume, Miss, Stay, Known, curTok
    <2> QED BY <1>13, <2>3, <2>4, EndsBuild
  <1>14. ASSUME Consume("SL"), Call(Top, "parseExpr", curTokIdx + 1) PROVE Builds
    <2>1. curTokIdx' = curTokIdx + 1 BY <1>14 DEF Consume, getNextTok
    <2>2. "parseExpr" \in Functions BY DEF Functions
    <2> QED BY <1>2, <1>5, <1>6, <1>14, <2>1, <2>2, TopSound, EndsBuild
  <1>15. ASSUME Top.at = 5, Consume("SR"), Go(With(3, ArrayText(Top.op, ret.node)))
         PROVE  Builds
    <2>1. Top.op \in Tokens BY <1>2, <1>4, <1>6, <1>15, TopSound
    <2>2. ArrayText(Top.op, ret.node) \in GoodTexts BY <2>1, ArrayTextGood, RetGood
    <2>3. Sound(With(3, ArrayText(Top.op, ret.node)))
      BY <1>2, <1>3, <1>4, <2>2, LoopSound
    <2> QED BY <1>5, <1>6, <1>15, <2>3, EndsBuild
  <1> HIDE DEF Builds
  <1> QED
    <2>1. CASE Top.at = 1 BY <1>8, <1>12, <2>1 DEF parseArrayDecls
    <2>2. CASE Top.at = 2 BY <1>8, <1>9, <2>2 DEF parseArrayDecls
    <2>3. CASE Top.at = 3 BY <1>8, <1>9, <1>12, <2>3 DEF parseArrayDecls
    <2>4. CASE Top.at = 4 BY <1>13, <2>4 DEF parseArrayDecls
    <2>5. CASE Top.at = 5 BY <1>9, <1>14, <1>15, <2>5 DEF parseArrayDecls
    <2> QED BY <2>1, <2>2, <2>3, <2>4, <2>5 DEF parseArrayDecls

-----------------------------------------------------------------------------
(* The functions of a row.                                                 *)

LEMMA RowTop ==
    ASSUME ParserInv, TreeInv, InRow
    PROVE  /\ Top.fn \in DOMAIN Row /\ Top.fn # "parseProgram" /\ Top.op # "End"
           /\ Len(Row[Top.fn]) \in Nat \ {0} /\ Top.at <= Len(Row[Top.fn]) + 1
           /\ ~RowEnded => /\ Top.at \in 1..Len(Row[Top.fn])
                           /\ Adds(Top.fn, Item, Top.at, Built[Top.fn][Top.at],
                                   Built[Top.fn][Top.at + 1])
  <1>1. Top.fn \in DOMAIN Row /\ CallsInv BY DEF InRow, ParserInv
  <1>2. "parseProgram" \notin DOMAIN Row /\ "parseArrayDecls" \notin DOMAIN Row BY DEF Row
  <1>3. Fits(Top.fn, Row[Top.fn], Built[Top.fn]) BY <1>1, RowsFit
  <1>4. Len(Row[Top.fn]) \in Nat \ {0} BY <1>3 DEF Fits
  <1>5. Top.at \in Nat \ {0} /\ Top.at <= Len(Row[Top.fn]) + 1 BY <1>1, TopSound DEF Sound
  <1>6. ~RowEnded => Top.at \in 1..Len(Row[Top.fn]) BY <1>4, <1>5 DEF RowEnded
  <1> QED BY <1>1, <1>2, <1>3, <1>4, <1>5, <1>6, TopSound DEF Fits, Item

LEMMA RowSound ==
    ASSUME ParserInv, TreeInv, InRow, ~RowEnded
    PROVE  /\ Item.call = "none" => 
                 \A t \in Item.match :
                    Sound(IF Item.match = {t} THEN At(Top.at + 1) ELSE Holding(Top.at + 1, t))
           /\ Item.call # "none" =>
                 /\ Waits(Top) /\ Item.call \in Functions
                 /\ \A n \in GoodTexts : n # Null \/ Item.null => Sound(With(Top.at + 1, n))
  <1> DEFINE fs == [fn : Functions, tokIdx : Nat \ {0}, at : Nat \ {0},
                    op : Tokens \cup {"End", "none"}, kids : Seq(GoodTexts)]
             new == Top.at + 1
             built == Built[Top.fn]
  <1>1. CallsInv BY DEF ParserInv
  <1>2. /\ Top \in fs /\ Holds(Top.fn, Top.at, Top.op)
        /\ Top.fn \notin KeepsNull => \A i \in 1..Len(Top.kids) : Top.kids[i] # Null
        /\ Len(Top.kids) = built[Top.at]
    BY <1>1, RowTop, TopSound DEF Sound
  <1>3. /\ Top.fn \in DOMAIN Row /\ Top.op # "End"
        /\ Top.at \in 1..Len(Row[Top.fn]) /\ Len(Row[Top.fn]) \in Nat
        /\ Adds(Top.fn, Item, Top.at, built[Top.at], built[new])
    BY RowTop
  <1>4. new \in Nat \ {0} /\ new <= Len(Row[Top.fn]) + 1 BY <1>3
  <1>5. Top.fn \in DOMAIN HoldsFrom /\ new >= HoldsFrom[Top.fn] =>
           new = HoldsFrom[Top.fn] \/ Top.at >= HoldsFrom[Top.fn]
    <2>1. \A fn \in DOMAIN HoldsFrom : HoldsFrom[fn] \in Nat BY DEF HoldsFrom
    <2> QED BY <1>3, <2>1
  <1>6. ASSUME Item.call = "none", NEW t \in Item.match
        PROVE  Sound(IF Item.match = {t} THEN At(new) ELSE Holding(new, t))
    <2>1. t \in Tokens /\ built[new] = built[Top.at] BY <1>3, <1>6 DEF Adds
    <2>2. t # "End" /\ t # "none" BY <2>1, WordsOfTexts
    <2>3. CASE Item.match = {t}
      <3>1. Holds(Top.fn, new, Top.op) BY <1>2, <1>3, <1>5, <2>3 DEF Holds, Adds
      <3>2. Sound(At(new)) BY <1>2, <1>3, <1>4, <2>1, <3>1 DEF Sound, At, Onward
      <3> QED BY <2>3, <3>2
    <2>4. CASE Item.match # {t}
      <3>1. Holds(Top.fn, new, t) BY <2>2 DEF Holds
      <3>2. Sound(Holding(new, t)) BY <1>2, <1>4, <2>1, <3>1 DEF Sound, Holding, Onward
      <3> QED BY <2>4, <3>2
    <2> QED BY <2>3, <2>4
  <1>7. ASSUME Item.call # "none", NEW n \in GoodTexts, n # Null \/ Item.null
        PROVE  Sound(With(new, n))
    <2> DEFINE kids == Append(Top.kids, n)
    <2>1. /\ kids \in Seq(GoodTexts) /\ Len(kids) = Len(Top.kids) + 1 /\ Len(Top.kids) \in Nat
          /\ kids[Len(Top.kids) + 1] = n
          /\ \A i \in 1..Len(Top.kids) : kids[i] = Top.kids[i]
      <3>1. Top.kids \in Seq(GoodTexts) BY <1>2
      <3> QED BY ONLY <3>1, n \in GoodTexts, PushLemma
    <2>2. With(new, n) = Onward(new, Top.op, kids) BY DEF With
    <2> HIDE DEF kids
    <2>3. Top.fn \notin KeepsNull => \A i \in 1..Len(kids) : kids[i] # Null
      <3> SUFFICES ASSUME Top.fn \notin KeepsNull, NEW i \in 1..Len(kids) PROVE kids[i] # Null
        OBVIOUS
      <3>1. CASE i = Len(Top.kids) + 1 BY <1>3, <1>7, <2>1, <3>1 DEF Adds
      <3>2. CASE i \in 1..Len(Top.kids) BY <1>2, <2>1, <3>2
      <3> QED BY <2>1, <3>1, <3>2
    <2>4. Holds(Top.fn, new, Top.op) BY <1>2, <1>3, <1>5, <1>7 DEF Holds, Adds
    <2>5. Len(kids) = built[new] BY <1>2, <1>3, <1>7, <2>1 DEF Adds
    <2> QED BY <1>2, <1>4, <2>1, <2>2, <2>3, <2>4, <2>5 DEF Sound, Onward
  <1>8. Item.call # "none" => Waits(Top) /\ Item.call \in Functions
    BY <1>3 DEF Waits, Adds, Item
  <1> QED BY <1>6, <1>7, <1>8

LEMMA MatchTokenBuilds == ASSUME ParserInv, TreeInv, MatchToken PROVE Builds
  <1>1. InRow /\ ~RowEnded /\ Item.match # {} BY DEF MatchToken
  <1>2. Top.fn # "parseProgram" /\ Top.op # "End" /\ CallsInv BY <1>1, RowTop DEF ParserInv
  <1>3. Null \in GoodTexts BY TextsJoin DEF Null
  <1>4. CASE curTok \in Item.match
    <2>1. curTokIdx' = curTokIdx + 1 BY <1>4 DEF MatchToken, getNextTok
    <2> DEFINE f == IF Item.match = {curTok} THEN At(Top.at + 1) ELSE Holding(Top.at + 1, curTok)
    <2>2. CASE Item.call = "none"
      <3>1. Go(f) BY <1>4, <2>2 DEF MatchToken
      <3>2. Sound(f) BY <1>1, <1>4, <2>2, RowSound
      <3>3. f.op # "End"
        <4>1. Item.match \subseteq Tokens BY <1>1, RowTop DEF Adds
        <4> QED BY <1>2, <1>4, <4>1, WordsOfTexts DEF At, Holding, Onward
      <3> HIDE DEF f
      <3> QED BY <3>1, <3>2, <3>3, EndsBuild DEF SeesEnd
    <2>3. CASE Item.call # "none"
      <3>1. Call(Top, Item.call, curTokIdx') BY <1>4, <2>1, <2>3 DEF MatchToken
      <3>2. Sound(Top) /\ Waits(Top) /\ Item.call \in Functions
        BY <1>1, <1>2, <2>3, RowSound, TopSound
      <3> QED BY <3>1, <3>2, EndsBuild
    <2> QED BY <2>2, <2>3
  <1>5. CASE curTok \notin Item.match
    <2>1. Stay /\ (IF Item.null THEN Go(With(Top.at + 1, Null)) ELSE Fail)
      BY <1>5 DEF MatchToken
    <2>2. CASE Item.null
      <3>1. Item.call # "none" BY <1>1, <2>2, RowTop DEF Adds
      <3>2. Sound(With(Top.at + 1, Null)) BY <1>1, <1>3, <2>2, <3>1, RowSound
      <3>3. SeesEnd(With(Top.at + 1, Null)) BY <1>2 DEF SeesEnd, With, Onward
      <3> QED BY <2>1, <2>2, <3>2, <3>3, EndsBuild
    <2>3. CASE ~Item.null BY <1>2, <1>3, <2>1, <2>3, EndsBuild DEF Fail
    <2> QED BY <2>2, <2>3
  <1> QED BY <1>4, <1>5

LEMMA CallItemBuilds == ASSUME ParserInv, TreeInv, CallItem PROVE Builds
  <1>1. InRow /\ ~RowEnded /\ Item.match = {} /\ CallsInv BY DEF CallItem, ParserInv
  <1>2. Item.call # "none" BY <1>1, RowTop DEF Adds
  <1>3. Sound(Top) /\ Waits(Top) /\ Item.call \in Functions BY <1>1, <1>2, RowSound, TopSound
  <1>4. Call(Top, Item.call, curTokIdx') BY DEF CallItem
  <1> QED BY <1>3, <1>4, EndsBuild

LEMMA TakeItemBuilds == ASSUME ParserInv, TreeInv, TakeItem PROVE Builds
  <1>1. InRow /\ ~RowEnded /\ ret.done /\ Stay BY DEF TakeItem, Stay
  <1>2. Top.fn # "parseProgram" /\ Top.op # "End" BY <1>1, RowTop
  <1>3. Null \in GoodTexts /\ ret.node \in GoodTexts BY TextsJoin, RetGood DEF Null
  <1>4. CASE ret.node = Null /\ ~Item.null
    BY <1>1, <1>2, <1>3, <1>4, EndsBuild DEF TakeItem, Fail
  <1>5. CASE ret.node # Null \/ Item.null
    <2>1. Waits(Top) BY <1>1 DEF TreeInv
    <2>2. Item.call # "none" BY <1>1, <2>1, RowTop DEF Waits, Item
    <2>3. Sound(With(Top.at + 1, ret.node)) BY <1>1, <1>3, <1>5, <2>2, RowSound
    <2>4. SeesEnd(With(Top.at + 1, ret.node)) BY <1>2 DEF SeesEnd, With, Onward
    <2> QED BY <1>5, <2>3, <2>4, EndsBuild DEF TakeItem
  <1> QED BY <1>4, <1>5

LEMMA EndRowBuilds == ASSUME ParserInv, TreeInv, EndRow PROVE Builds
  <1>1. InRow /\ RowEnded /\ CallsInv BY DEF EndRow, ParserInv
  <1>2. /\ Top.fn # "parseProgram" /\ Top.fn \in DOMAIN Row
        /\ Len(Row[Top.fn]) \in Nat /\ Top.at <= Len(Row[Top.fn]) + 1
    BY <1>1, RowTop
  <1>3. Top.at = Len(Row[Top.fn]) + 1 BY <1>1, <1>2, TopSound DEF RowEnded
  <1>4. Null \in GoodTexts BY TextsJoin DEF Null
  <1>5. ~(Top.fn = "parseIfStmt" /\ Top.kids[2] = Null) =>
           Text(Top.fn, Top.op, Top.kids) \in GoodTexts
    BY <1>1, <1>2, <1>3, TopSound, RowTextGood
  <1> QED BY <1>2, <1>4, <1>5, EndsBuild DEF EndRow

-----------------------------------------------------------------------------
(* The functions that try alternatives.                                    *)

LEMMA ChoiceTop ==
    ASSUME ParserInv, TreeInv, InChoice
    PROVE  /\ CallsInv /\ Top.fn \in {"parseExpr", "parseStmt"} /\ Top.fn \notin DOMAIN Row
           /\ Top.op # "End" /\ Top.fn # "parseProgram"
           /\ \A k : Holds(Top.fn, k, Top.op)
  <1>1. CallsInv /\ Top.fn \in {"parseExpr", "parseStmt"} BY DEF ParserInv, InChoice
  <1>2. "parseExpr" \notin DOMAIN Row /\ "parseStmt" \notin DOMAIN Row BY DEF Row
  <1>3. Top.op # "End" BY <1>1, TopSound
  <1>4. \A k : Holds(Top.fn, k, Top.op) BY <1>1, <1>3 DEF Holds, HoldsFrom
  <1> QED BY <1>1, <1>2, <1>3, <1>4

LEMMA TakeBuilds == ASSUME ParserInv, TreeInv, Take PROVE Builds
  <1>1. InChoice /\ Return(ret.node) BY DEF Take
  <1> QED BY <1>1, ChoiceTop, RetGood, EndsBuild

LEMMA TryBuilds == ASSUME ParserInv, TreeInv, Try PROVE Builds
  <1>1. InChoice /\ curTokIdx' = Top.tokIdx BY DEF Try
  <1>2. PICK i \in Untried : Call(At(i + 1), Alternatives[i], Top.tokIdx) BY DEF Try
  <1>3. Top.at \in Nat \ {0} BY <1>1, ChoiceTop, TopSound
  <1>4. Len(Alternatives) \in Nat /\ \A j \in 1..Len(Alternatives) : Alternatives[j] \in Functions
    <2>1. /\ Len(ExprAlternatives) \in Nat
          /\ \A j \in 1..Len(ExprAlternatives) : ExprAlternatives[j] \in Functions
      BY DEF ExprAlternatives, Functions, Row
    <2>2. /\ Len(StmtAlternatives) \in Nat
          /\ \A j \in 1..Len(StmtAlternatives) : StmtAlternatives[j] \in Functions
      BY DEF StmtAlternatives, Functions, Row
    <2> QED BY <2>1, <2>2 DEF Alternatives
  <1>5. i \in 1..Len(Alternatives) /\ i + 1 \in Nat \ {0} BY <1>3, <1>4 DEF Untried
  <1> QED BY <1>1, <1>2, <1>4, <1>5, ChoiceTop, LoopBuilds

LEMMA NoAlternativeBuilds == ASSUME ParserInv, TreeInv, NoAlternative PROVE Builds
  <1>1. InChoice BY DEF NoAlternative
  <1>2. Null \in GoodTexts BY TextsJoin DEF Null
  <1> QED BY <1>1, <1>2, ChoiceTop, EndsBuild DEF NoAlternative

LEMMA StepBuilds == ASSUME ParserInv, TreeInv, Step PROVE Builds
  BY MatchTokenBuilds, CallItemBuilds, TakeItemBuilds, EndRowBuilds, TakeBuilds, TryBuilds,
     NoAlternativeBuilds, FnArgsBuilds, StringOrExprArgsBuilds, VarDeclsBuilds,
     ArrayDeclsBuilds, StmtBlockBuilds, FnParamsBuilds, ProgramBuilds DEF Step

-----------------------------------------------------------------------------
(* A call that begins has built nothing yet.                               *)
LEMMA FrameSound ==
    ASSUME NEW fn \in Functions, NEW i \in Nat \ {0}
    PROVE  Sound(Frame(fn, i)) /\ Frame(fn, i).op = "none"
  <1> DEFINE f == Frame(fn, i)
  <1>1. /\ f.fn = fn /\ f.at = 1 /\ f.op = "none" /\ f.kids = <<>> /\ Len(f.kids) = 0
        /\ f \in [fn : Functions, tokIdx : Nat \ {0}, at : Nat \ {0},
                  op : Tokens \cup {"End", "none"}, kids : Seq(GoodTexts)]
    BY DEF Frame
  <1> HIDE DEF f
  <1>2. Holds(fn, 1, "none")
    <2>1. \A x \in DOMAIN HoldsFrom : HoldsFrom[x] \in Nat /\ ~(1 >= HoldsFrom[x]) BY DEF HoldsFrom
    <2> QED BY <2>1 DEF Holds
  <1>3. fn \in DOMAIN Row => 1 <= Len(Row[fn]) + 1 /\ Built[fn][1] = 0 BY RowsFit DEF Fits
  <1>4. Sound(f) BY <1>1, <1>2, <1>3 DEF Sound
  <1> QED BY <1>1, <1>4 DEF f

LEMMA InitTree == Init => TreeInv
  <1> SUFFICES ASSUME Init PROVE TreeInv OBVIOUS
  <1>1. calls = <<Frame("parseProgram", 1)>> /\ ret = Running /\ phase = "parsing" BY DEF Init
  <1>2. "parseProgram" \in Functions BY DEF Functions
  <1>3. Len(calls) = 1 /\ calls[1] = Frame("parseProgram", 1) BY <1>1
  <1>4. Sound(calls[1]) /\ calls[1].op = "none" BY <1>2, <1>3, FrameSound
  <1>5. ret \in [done : BOOLEAN, node : GoodTexts] /\ ~ret.done
    <2>1. <<>> \in GoodTexts BY TextsJoin
    <2> QED BY <1>1, <2>1 DEF Running, Null
  <1> QED BY <1>1, <1>3, <1>4, <1>5 DEF TreeInv, Top

(* The calls below the innermost one, and with others on top of them.      *)
LEMMA BelowSound ==
    ASSUME ParserInv, TreeInv
    PROVE  /\ Len(Below) = Len(calls) - 1 /\ Len(calls) \in Nat \ {0}
           /\ \A d \in 1..Len(Below) : Sound(Below[d]) /\ Waits(Below[d])
           /\ \E S : Below \in Seq(S)
  <1>1. PICK A : calls \in Seq(Shaped(A)) BY DEF ParserInv, CallsInv, Nested
  <1>2. Len(calls) \in Nat \ {0} BY TopShape DEF ParserInv
  <1>3. Len(calls) - 1 \in 0..Len(calls) BY <1>2
  <1>4. /\ Below \in Seq(Shaped(A)) /\ Len(Below) = Len(calls) - 1
        /\ \A d \in 1..Len(calls) - 1 : Below[d] = calls[d]
    BY <1>1, <1>3, PrefixLemma DEF Below
  <1>5. \A d \in 1..Len(Below) : Sound(Below[d]) /\ Waits(Below[d])
    BY <1>2, <1>4 DEF TreeInv
  <1> QED BY <1>2, <1>4, <1>5

LEMMA PushSound ==
    ASSUME NEW S, NEW cs \in Seq(S), \A d \in 1..Len(cs) : Sound(cs[d]) /\ Waits(cs[d]),
           NEW f, Sound(f)
    PROVE  LET new == Append(cs, f) IN
           /\ Len(new) \in Nat /\ new[Len(new)] = f
           /\ \A d \in 1..Len(new) : Sound(new[d])
           /\ \A d \in 1..Len(new) - 1 : Waits(new[d])
           /\ \E T : new \in Seq(T)
  <1> DEFINE new == Append(cs, f)
             T == S \cup {f}
  <1>1. cs \in Seq(T) BY SeqMonotonic
  <1>2. /\ new \in Seq(T) /\ Len(cs) \in Nat /\ Len(new) = Len(cs) + 1
        /\ new[Len(cs) + 1] = f /\ \A d \in 1..Len(cs) : new[d] = cs[d]
    <2>1. f \in T OBVIOUS
    <2> HIDE DEF T
    <2> QED BY <1>1, <2>1, PushLemma
  <1> HIDE DEF new, T
  <1>3. \A d \in 1..Len(new) : d \in 1..Len(cs) \/ d = Len(cs) + 1 BY <1>2
  <1>4. \A d \in 1..Len(new) - 1 : d \in 1..Len(cs) BY <1>2
  <1> QED BY <1>2, <1>3, <1>4 DEF new

LEMMA BuildsTree == ASSUME ParserInv, TreeInv, Step PROVE TreeInv'
  <1>1. Moves /\ Builds BY StepMoves, StepBuilds DEF ParserInv
  <1>2. tokens' = tokens BY <1>1 DEF Moves
  <1>3. PICK S : Below \in Seq(S) BY BelowSound
  <1>4. /\ Len(Below) = Len(calls) - 1 /\ Len(calls) \in Nat \ {0}
        /\ \A d \in 1..Len(Below) : Sound(Below[d]) /\ Waits(Below[d])
    BY BelowSound
  <1>5. phase \in {"parsing", "parsed", "error"} BY DEF TreeInv
  <1>6. Running \in [done : BOOLEAN, node : GoodTexts] /\ ~Running.done
    BY TextsJoin DEF Running, Null
  <1>7. ParserInv' BY <1>1, MovesInv
  <1>8. CASE GoesOn
    <2>1. PICK f : Sound(f) /\ SeesEnd(f) /\ Go(f) BY <1>8 DEF GoesOn
    <2>2. calls' = Append(Below, f) /\ ret' = Running /\ phase' = phase BY <2>1 DEF Go
    <2>3. /\ calls'[Len(calls')] = f
          /\ \A d \in 1..Len(calls') : Sound(calls'[d])
          /\ \A d \in 1..Len(calls') - 1 : Waits(calls'[d])
      BY <1>3, <1>4, <2>1, <2>2, PushSound
    <2>4. f.op = "End" => (Known /\ curTok = "End")'
      BY <1>2, <2>1 DEF SeesEnd, Known, curTok
    <2> QED BY <1>5, <1>6, <2>2, <2>3, <2>4 DEF TreeInv, Top
  <1>9. CASE Calls
    <2>1. PICK f : \E fn \in Functions : Sound(f) /\ Waits(f) /\ Call(f, fn, curTokIdx')
      BY <1>9 DEF Calls
    <2>2. PICK fn \in Functions : Sound(f) /\ Waits(f) /\ Call(f, fn, curTokIdx') BY <2>1
    <2> DEFINE below == Append(Below, f)
               g == Frame(fn, curTokIdx')
    <2>3. calls' = Append(below, g) /\ ret' = Running /\ phase' = phase BY <2>2 DEF Call
    <2>4. PICK T : below \in Seq(T) BY <1>3, <1>4, <2>2, PushSound
    <2>5. \A d \in 1..Len(below) : Sound(below[d]) /\ Waits(below[d])
      <3>1. /\ Len(below) \in Nat /\ below[Len(below)] = f
            /\ \A d \in 1..Len(below) : Sound(below[d])
            /\ \A d \in 1..Len(below) - 1 : Waits(below[d])
        BY <1>3, <1>4, <2>2, PushSound
      <3> HIDE DEF below
      <3>2. \A d \in 1..Len(below) : d \in 1..Len(below) - 1 \/ d = Len(below) BY <3>1
      <3> QED BY <2>2, <3>1, <3>2
    <2>6. curTokIdx' \in Nat \ {0}
      <3>1. Len(tokens) \in Nat BY LenProperties DEF ParserInv, BufferInv
      <3> QED BY <1>2, <1>7, <3>1 DEF ParserInv, BufferInv, InBuffer
    <2>7. Sound(g) /\ g.op = "none" BY <2>6, FrameSound
    <2> HIDE DEF below, g
    <2>8. /\ calls'[Len(calls')] = g
          /\ \A d \in 1..Len(calls') : Sound(calls'[d])
          /\ \A d \in 1..Len(calls') - 1 : Waits(calls'[d])
      BY <2>3, <2>4, <2>5, <2>7, PushSound
    <2> QED BY <1>5, <1>6, <2>3, <2>7, <2>8 DEF TreeInv, Top
  <1>10. CASE Returns
    <2>1. PICK n \in GoodTexts : Return(n) BY <1>10 DEF Returns
    <2>2. calls' = Below /\ ret' = Done(n) /\ phase' = phase BY <2>1 DEF Return
    <2>3. Len(calls') \in Nat \ {0}
      <3>1. (\E A : calls \in Seq(Shaped(A)) /\ calls # <<>>)'
        BY <1>7 DEF ParserInv, CallsInv, Nested
      <3>2. PICK A : calls' \in Seq(A) /\ calls' # <<>> BY <3>1
      <3>3. Len(calls') \in Nat /\ Len(calls') >= 1 BY <3>2, LenPositive
      <3> QED BY <3>3
    <2>4. ret' \in [done : BOOLEAN, node : GoodTexts] BY <2>2 DEF Done
    <2>5. Sound(Top') /\ Waits(Top') BY <1>4, <2>2, <2>3 DEF Top
    <2>6. Top'.op # "End" BY <2>5 DEF Waits
    <2> QED BY <1>4, <1>5, <2>2, <2>3, <2>4, <2>5, <2>6 DEF TreeInv
  <1>11. CASE Stops
    BY <1>2, <1>11 DEF Stops, Stay, TreeInv, Top, Known, curTok
  <1> QED BY <1>1, <1>8, <1>9, <1>10, <1>11 DEF Builds

(* A token is read only where there is none yet.                           *)
LEMMA ReadTree ==
    ASSUME ParserInv, TreeInv, NEW t \in Tokens \cup {"End"}, ReadToken(t)
    PROVE  TreeInv'
  <1>1. UNCHANGED <<curTokIdx, calls, ret, phase>> /\ curTokIdx = Len(tokens) + 1
    BY DEF ReadToken
  <1>2. Len(tokens) \in Nat BY LenProperties DEF ParserInv, BufferInv
  <1>3. Top.op # "End" BY <1>1, <1>2 DEF TreeInv, Known
  <1> QED BY <1>1, <1>3 DEF TreeInv, Top

LEMMA TreeInductive == Spec => [](ParserInv /\ TreeInv)
  <1>1. Init => TreeInv BY InitTree
  <1>2. ASSUME ParserInv, TreeInv, [Next]_vars PROVE TreeInv'
    <2>1. CASE \E t \in Tokens \cup {"End"} : ReadToken(t) BY <1>2, <2>1, ReadTree
    <2>2. CASE Step BY <1>2, <2>2, BuildsTree
    <2>3. ASSUME UNCHANGED vars PROVE TreeInv'
      <3>1. UNCHANGED <<tokens, curTokIdx, calls, ret, phase>> BY <2>3 DEF vars
      <3> QED BY <1>2, <3>1 DEF TreeInv, Top, Known, curTok
    <2>4. CASE Ended BY <2>3, <2>4 DEF Ended
    <2> QED BY <1>2, <2>1, <2>2, <2>3, <2>4 DEF Next
  <1> QED BY <1>1, <1>2, Inductive, PTL DEF Spec

(* Whatever the tokens, every call is of a parse function, with the token  *)
(* or type and the children it can have built where it is, and every text  *)
(* is one of tokens: no function reads a child it has not parsed, or an    *)
(* operator it has not seen.                                               *)
THEOREM TypeCorrect == Spec => []TypeOK
  <1>1. ASSUME ParserInv, TreeInv PROVE TypeOK
    <2>1. /\ BufferInv /\ CallsInv /\ CallsNest /\ Len(tokens) \in Nat
      BY <1>1, LenProperties DEF ParserInv, BufferInv, CallsInv, Nested, CallsNest
    <2>2. tokens \in Seq(Tokens \cup {"End"}) /\ curTokIdx \in Nat \ {0}
      BY <2>1 DEF BufferInv, InBuffer
    <2>3. PICK A : calls \in Seq(Shaped(A)) /\ calls # <<>> /\ calls[1].fn = "parseProgram"
      BY <2>1 DEF CallsInv, Nested
    <2>4. GoodTexts \subseteq Texts /\ Seq(GoodTexts) \subseteq Seq(Texts)
      <3>1. GoodTexts \subseteq Texts BY SeqMonotonic DEF GoodTexts, Texts
      <3> QED BY <3>1, SeqMonotonic
    <2>5. \A d \in 1..Len(calls) : calls[d] \in Frames
      BY <1>1, <2>4 DEF TreeInv, Sound, Frames
    <2>6. calls \in Seq(Frames)
      <3>1. \A T : \A x \in Seq(T) : \A S : (\A i \in 1..Len(x) : x[i] \in S) => x \in Seq(S)
        OBVIOUS
      <3> QED BY <2>3, <2>5, <3>1
    <2>7. ret \in [done : BOOLEAN, node : Texts] BY <1>1, <2>4 DEF TreeInv
    <2> QED BY <1>1, <2>1, <2>2, <2>3, <2>6, <2>7 DEF TypeOK, TreeInv
  <1> QED BY <1>1, TreeInductive, PTL

(* Whatever the tokens, a node that a parse function returns, accepted in  *)
(* the end or not, has no null child but at the four places where the code *)
(* does not test for one.                                                  *)
THEOREM NullsPlaced == Spec => []NullsKnown
  <1>1. ASSUME TreeInv PROVE NullsKnown
    <2>1. "nullOther" \notin Tokens \cup KnownHoles
      BY DEF Tokens, TypeTokens, BinOps, UnaryOps, KnownHoles
    <2>2. ret.node \in Seq(Tokens \cup KnownHoles) BY <1>1 DEF TreeInv, GoodTexts
    <2> QED BY <2>1, <2>2, ElementOfSeq DEF NullsKnown
  <1> QED BY <1>1, TreeInductive, PTL

(* What is proved of any tokens is so of every goal's that TLC tries.      *)
THEOREM GoalsParsed == SentenceSpec => Spec
  <1>1. InitSentence => Init /\ goal \in Goals BY DEF InitSentence
  <1>2. ASSUME goal \in Goals, [NextSentence]_<<vars, text>>
        PROVE  (goal \in Goals)' /\ [Next]_vars
    <2>1. CASE Derive
      <3>1. goal' = goal /\ UNCHANGED vars BY <2>1 DEF Derive
      <3> QED BY <1>2, <3>1
    <2>2. CASE Write
      <3>1. goal' = goal /\ Head(pending) \in Tokens \cup {"End"} /\ ReadToken(Head(pending))
        BY <2>2 DEF Write
      <3> QED BY <1>2, <3>1 DEF Next
    <2>3. CASE WriteAny
      <3>1. goal' = goal BY <2>3 DEF WriteAny, text
      <3>2. goal.alphabet \subseteq Tokens BY <1>2, GoalsAssumption
      <3>3. \E t \in Tokens \cup {"End"} : ReadToken(t) BY <2>3, <3>2 DEF WriteAny
      <3> QED BY <1>2, <3>1, <3>3 DEF Next
    <2>4. CASE (Step \/ Ended) /\ UNCHANGED text
      <3>1. goal' = goal BY <2>4 DEF text
      <3> QED BY <1>2, <2>4, <3>1 DEF Next
    <2>5. CASE UNCHANGED <<vars, text>>
      <3>1. goal' = goal /\ UNCHANGED vars BY <2>5 DEF text
      <3> QED BY <1>2, <3>1
    <2> QED BY <1>2, <2>1, <2>2, <2>3, <2>4, <2>5 DEF NextSentence
  <1> QED BY <1>1, <1>2, PTL DEF SentenceSpec, Spec

-----------------------------------------------------------------------------
(* What the recursive functions of a text come to, step by step.           *)

LEMMA ChosenSteps ==
    ASSUME NEW S, NEW s \in Seq(S), NEW I
    PROVE  /\ Chosen(s, I) \in [0..Len(s) -> Seq(S)]
           /\ Chosen(s, I)[0] = <<>>
           /\ \A i \in 1..Len(s) : Chosen(s, I)[i] =
                 IF i \in I THEN Append(Chosen(s, I)[i - 1], s[i]) ELSE Chosen(s, I)[i - 1]
  <1> DEFINE N == Len(s)
             Next1(x, i) == IF i \in I THEN Append(x, s[i]) ELSE x
             F == [p \in Seq(S) \X (1..N) |-> Next1(p[1], p[2])]
             IsIt(g) == g = [i \in 0..N |-> IF i = 0 THEN <<>> ELSE Next1(g[i - 1], i)]
             upTo == CHOOSE g : IsIt(g)
  <1>1. N \in Nat /\ \A i \in 1..N : s[i] \in S BY LenProperties, ElementOfSeq
  <1>2. \A x \in Seq(S) : \A i \in 1..N : Next1(x, i) \in Seq(S)
    <2> TAKE x \in Seq(S)
    <2> TAKE i \in 1..N
    <2>1. Append(x, s[i]) \in Seq(S) BY <1>1, AppendProperties
    <2> QED BY <2>1
  <1>4. Chosen(s, I) = upTo BY DEF Chosen
  <1> HIDE DEF Next1
  <1>5. F \in [Seq(S) \X (1..N) -> Seq(S)] BY <1>2
  <1>6. PICK g \in [0..N -> Seq(S)] : g[0] = <<>> /\ \A i \in 1..N : g[i] = F[<<g[i - 1], i>>]
    <2>1. <<>> \in Seq(S) OBVIOUS
    <2>2. Recurs(N, Seq(S), <<>>, F)
      <3> HIDE DEF F, N
      <3> QED BY ONLY <1>1, <1>5, <2>1, Recursion
    <2> QED BY <2>2 DEF Recurs
  <1>7. \A i \in 1..N : g[i] = Next1(g[i - 1], i)
    <2> TAKE i \in 1..N
    <2>1. i - 1 \in 0..N BY <1>1
    <2> QED BY <1>6, <2>1
  <1>8. IsIt(g)
    <2>1. \A i \in 0..N : i = 0 \/ i \in 1..N BY <1>1
    <2> HIDE DEF F, N
    <2> QED BY <1>6, <1>7, <2>1
  <1>9. IsIt(upTo)
    <2> HIDE DEF IsIt
    <2> QED BY <1>8
  <1> HIDE DEF upTo, F
  <1>10. /\ upTo[0] = <<>> /\ DOMAIN upTo = 0..N
         /\ \A i \in 1..N : upTo[i] = Next1(upTo[i - 1], i)
    <2>1. 0 \in 0..N /\ \A i \in 1..N : i \in 0..N /\ i # 0 BY <1>1
    <2> HIDE DEF N
    <2> QED BY <1>9, <2>1
  <1>11. ASSUME NEW n \in 0..N PROVE upTo[n] \in Seq(S)
    <2>1. upTo[0] \in Seq(S) BY <1>10
    <2>2. \A i \in 1..n : upTo[i - 1] \in Seq(S) => upTo[i] \in Seq(S) BY <1>1, <1>2, <1>10
    <2>3. n \in Nat BY <1>1
    <2> QED BY ONLY <2>1, <2>2, <2>3, Upward
  <1>12. upTo \in [0..N -> Seq(S)]
    <2>1. upTo = [i \in 0..N |-> upTo[i]] BY <1>9, <1>10
    <2> QED BY <1>11, <2>1
  <1> QED BY <1>4, <1>10, <1>12 DEF Next1

(* What is chosen up to n depends on nothing after n.                      *)
Agree(s, I, t, J, n) == \A i \in 1..n : s[i] = t[i] /\ (i \in I <=> i \in J)

LEMMA ChosenPrefix ==
    ASSUME NEW S, NEW s \in Seq(S), NEW t \in Seq(S), NEW I, NEW J,
           NEW n \in Nat, n <= Len(s), n <= Len(t),
           Agree(s, I, t, J, n)
    PROVE  Chosen(s, I)[n] = Chosen(t, J)[n]
  <1> DEFINE A == Chosen(s, I)
             B == Chosen(t, J)
             h == [i \in 0..n |-> IF A[i] = B[i] THEN 0 ELSE 1]
  <1>1. Len(s) \in Nat /\ Len(t) \in Nat BY LenProperties
  <1>2. A[0] = <<>> /\ B[0] = <<>> BY ChosenSteps
  <1>3. ASSUME NEW i \in 1..n PROVE A[i - 1] = B[i - 1] => A[i] = B[i]
    <2>1. i \in 1..Len(s) /\ i \in 1..Len(t) BY <1>1
    <2>4. s[i] = t[i] /\ (i \in I <=> i \in J) BY DEF Agree
    <2>2. A[i] = IF i \in I THEN Append(A[i - 1], s[i]) ELSE A[i - 1] BY <2>1, ChosenSteps
    <2>3. B[i] = IF i \in J THEN Append(B[i - 1], t[i]) ELSE B[i - 1] BY <2>1, ChosenSteps
    <2> HIDE DEF A, B
    <2> QED BY <2>2, <2>3, <2>4
  <1> HIDE DEF A, B
  <1>4. h[0] \in {0}
    <2>1. 0 \in 0..n OBVIOUS
    <2> QED BY <1>2, <2>1
  <1>5. \A i \in 1..n : h[i - 1] \in {0} => h[i] \in {0}
    <2> TAKE i \in 1..n
    <2>1. i \in 0..n /\ i - 1 \in 0..n OBVIOUS
    <2> QED BY <1>3, <2>1
  <1>6. h[n] \in {0}
    <2> HIDE DEF h
    <2> QED BY ONLY n \in Nat, <1>4, <1>5, Upward
  <1>7. n \in 0..n OBVIOUS
  <1>8. A[n] = B[n] BY <1>6, <1>7
  <1> QED BY <1>8 DEF A, B

LEMMA DepthSteps ==
    ASSUME NEW S, NEW s \in Seq(S)
    PROVE  /\ Depth(s) \in [0..Len(s) -> Int]
           /\ Depth(s)[0] = 0
           /\ \A i \in 1..Len(s) : Depth(s)[i] = Depth(s)[i - 1] + Opened(s[i])
  <1> DEFINE N == Len(s)
             F == [p \in Int \X (1..N) |-> p[1] + Opened(s[p[2]])]
             IsIt(g) == g = [i \in 0..N |-> IF i = 0 THEN 0 ELSE g[i - 1] + Opened(s[i])]
             upTo == CHOOSE g : IsIt(g)
  <1>1. N \in Nat BY LenProperties
  <1>2. \A x \in Int : \A i \in 1..N : x + Opened(s[i]) \in Int BY DEF Opened
  <1>4. Depth(s) = upTo BY DEF Depth
  <1>5. F \in [Int \X (1..N) -> Int] BY <1>2
  <1>6. PICK g \in [0..N -> Int] : g[0] = 0 /\ \A i \in 1..N : g[i] = F[<<g[i - 1], i>>]
    <2>2. Recurs(N, Int, 0, F)
      <3> HIDE DEF F, N
      <3> QED BY ONLY <1>1, <1>5, 0 \in Int, Recursion
    <2> QED BY <2>2 DEF Recurs
  <1>7. \A i \in 1..N : g[i] = g[i - 1] + Opened(s[i])
    <2> TAKE i \in 1..N
    <2>1. i - 1 \in 0..N BY <1>1
    <2> QED BY <1>6, <2>1
  <1>8. IsIt(g)
    <2>1. \A i \in 0..N : i = 0 \/ i \in 1..N BY <1>1
    <2> HIDE DEF F, N
    <2> QED BY <1>6, <1>7, <2>1
  <1>9. IsIt(upTo)
    <2> HIDE DEF IsIt
    <2> QED BY <1>8
  <1> HIDE DEF upTo, F
  <1>10. /\ upTo[0] = 0 /\ DOMAIN upTo = 0..N
         /\ \A i \in 1..N : upTo[i] = upTo[i - 1] + Opened(s[i])
    <2>1. 0 \in 0..N /\ \A i \in 1..N : i \in 0..N /\ i # 0 BY <1>1
    <2> HIDE DEF N
    <2> QED BY <1>9, <2>1
  <1>11. ASSUME NEW n \in 0..N PROVE upTo[n] \in Int
    <2>1. upTo[0] \in Int BY <1>10
    <2>2. \A i \in 1..n : upTo[i - 1] \in Int => upTo[i] \in Int BY <1>1, <1>2, <1>10
    <2>3. n \in Nat BY <1>1
    <2> QED BY ONLY <2>1, <2>2, <2>3, Upward
  <1>12. upTo \in [0..N -> Int]
    <2>1. upTo = [i \in 0..N |-> upTo[i]] BY <1>9, <1>10
    <2> QED BY <1>11, <2>1
  <1> QED BY <1>4, <1>10, <1>12

(* Run and Listed, up to each of the texts.                                *)
RunTo(k) ==
    LET upTo[i \in 0..Len(k)] ==
          IF i = 0 THEN <<>> ELSE upTo[i - 1] \o k[i]
    IN  upTo

Separator(i) == IF i = 1 THEN <<>> ELSE <<"Comma">>
ListTo(k) ==
    LET upTo[i \in 0..Len(k)] ==
          IF i = 0 THEN <<>>
          ELSE upTo[i - 1] \o (IF i = 1 THEN <<>> ELSE <<"Comma">>) \o k[i]
    IN  upTo

LEMMA RunSteps ==
    ASSUME NEW S, NEW k \in Seq(Seq(S))
    PROVE  /\ RunTo(k) \in [0..Len(k) -> Seq(S)]
           /\ RunTo(k)[0] = <<>>
           /\ \A i \in 1..Len(k) : RunTo(k)[i] = RunTo(k)[i - 1] \o k[i]
           /\ Run(k) = RunTo(k)[Len(k)]
  <1> DEFINE N == Len(k)
             F == [p \in Seq(S) \X (1..N) |-> p[1] \o k[p[2]]]
             IsIt(g) == g = [i \in 0..N |-> IF i = 0 THEN <<>> ELSE g[i - 1] \o k[i]]
             upTo == CHOOSE g : IsIt(g)
  <1>1. N \in Nat /\ \A i \in 1..N : k[i] \in Seq(S) BY LenProperties, ElementOfSeq
  <1>2. \A x \in Seq(S) : \A i \in 1..N : x \o k[i] \in Seq(S) BY <1>1, ConcatProperties
  <1>4. RunTo(k) = upTo /\ Run(k) = upTo[N] BY DEF RunTo, Run
  <1>5. F \in [Seq(S) \X (1..N) -> Seq(S)] BY <1>2
  <1>6. PICK g \in [0..N -> Seq(S)] : g[0] = <<>> /\ \A i \in 1..N : g[i] = F[<<g[i - 1], i>>]
    <2>1. <<>> \in Seq(S) OBVIOUS
    <2>2. Recurs(N, Seq(S), <<>>, F)
      <3> HIDE DEF F, N
      <3> QED BY ONLY <1>1, <1>5, <2>1, Recursion
    <2> QED BY <2>2 DEF Recurs
  <1>7. \A i \in 1..N : g[i] = g[i - 1] \o k[i]
    <2> TAKE i \in 1..N
    <2>1. i - 1 \in 0..N BY <1>1
    <2> QED BY <1>6, <2>1
  <1>8. IsIt(g)
    <2>1. \A i \in 0..N : i = 0 \/ i \in 1..N BY <1>1
    <2> HIDE DEF F, N
    <2> QED BY <1>6, <1>7, <2>1
  <1>9. IsIt(upTo)
    <2> HIDE DEF IsIt
    <2> QED BY <1>8
  <1> HIDE DEF upTo, F
  <1>10. /\ upTo[0] = <<>> /\ DOMAIN upTo = 0..N
         /\ \A i \in 1..N : upTo[i] = upTo[i - 1] \o k[i]
    <2>1. 0 \in 0..N /\ \A i \in 1..N : i \in 0..N /\ i # 0 BY <1>1
    <2> HIDE DEF N
    <2> QED BY <1>9, <2>1
  <1>11. ASSUME NEW n \in 0..N PROVE upTo[n] \in Seq(S)
    <2>1. upTo[0] \in Seq(S) BY <1>10
    <2>2. ASSUME NEW i \in 1..n, upTo[i - 1] \in Seq(S) PROVE upTo[i] \in Seq(S)
      <3>1. i \in 1..N BY <1>1
      <3>2. upTo[i] = upTo[i - 1] \o k[i] BY <1>10, <3>1
      <3> HIDE DEF N
      <3> QED BY <1>2, <2>2, <3>1, <3>2
    <2>3. n \in Nat BY <1>1
    <2> QED BY ONLY <2>1, <2>2, <2>3, Upward
  <1>12. upTo \in [0..N -> Seq(S)]
    <2>1. upTo = [i \in 0..N |-> upTo[i]] BY <1>9, <1>10
    <2> QED BY <1>11, <2>1
  <1> QED BY <1>4, <1>10, <1>12

LEMMA ListSteps ==
    ASSUME NEW S, "Comma" \in S, NEW k \in Seq(Seq(S))
    PROVE  /\ ListTo(k) \in [0..Len(k) -> Seq(S)]
           /\ ListTo(k)[0] = <<>>
           /\ \A i \in 1..Len(k) : ListTo(k)[i] = ListTo(k)[i - 1] \o Separator(i) \o k[i]
           /\ Listed(k) = ListTo(k)[Len(k)]
  <1> DEFINE N == Len(k)
             F == [p \in Seq(S) \X (1..N) |-> p[1] \o Separator(p[2]) \o k[p[2]]]
             IsIt(g) == g = [i \in 0..N |-> IF i = 0 THEN <<>> ELSE g[i - 1] \o Separator(i) \o k[i]]
             upTo == CHOOSE g : IsIt(g)
  <1>1. N \in Nat /\ \A i \in 1..N : k[i] \in Seq(S) BY LenProperties, ElementOfSeq
  <1>2. \A x \in Seq(S) : \A i \in 1..N : x \o Separator(i) \o k[i] \in Seq(S)
    <2> TAKE x \in Seq(S)
    <2> TAKE i \in 1..N
    <2>1. <<"Comma">> \in Seq(S) /\ <<>> \in Seq(S) OBVIOUS
    <2>2. Separator(i) \in Seq(S) BY <2>1 DEF Separator
    <2>3. x \o Separator(i) \in Seq(S) BY <2>2, ConcatProperties
    <2> QED BY <1>1, <2>3, ConcatProperties
  <1>4. ListTo(k) = upTo /\ Listed(k) = upTo[N] BY DEF ListTo, Listed, Separator
  <1>5. F \in [Seq(S) \X (1..N) -> Seq(S)] BY <1>2
  <1>6. PICK g \in [0..N -> Seq(S)] : g[0] = <<>> /\ \A i \in 1..N : g[i] = F[<<g[i - 1], i>>]
    <2>1. <<>> \in Seq(S) OBVIOUS
    <2>2. Recurs(N, Seq(S), <<>>, F)
      <3> HIDE DEF F, N
      <3> QED BY ONLY <1>1, <1>5, <2>1, Recursion
    <2> QED BY <2>2 DEF Recurs
  <1>7. \A i \in 1..N : g[i] = g[i - 1] \o Separator(i) \o k[i]
    <2> TAKE i \in 1..N
    <2>1. i - 1 \in 0..N BY <1>1
    <2> QED BY <1>6, <2>1
  <1>8. IsIt(g)
    <2>1. \A i \in 0..N : i = 0 \/ i \in 1..N BY <1>1
    <2> HIDE DEF F, N
    <2> QED BY <1>6, <1>7, <2>1
  <1>9. IsIt(upTo)
    <2> HIDE DEF IsIt
    <2> QED BY <1>8
  <1> HIDE DEF upTo, F
  <1>10. /\ upTo[0] = <<>> /\ DOMAIN upTo = 0..N
         /\ \A i \in 1..N : upTo[i] = upTo[i - 1] \o Separator(i) \o k[i]
    <2>1. 0 \in 0..N /\ \A i \in 1..N : i \in 0..N /\ i # 0 BY <1>1
    <2> HIDE DEF N
    <2> QED BY <1>9, <2>1
  <1>11. ASSUME NEW n \in 0..N PROVE upTo[n] \in Seq(S)
    <2>1. upTo[0] \in Seq(S) BY <1>10
    <2>2. ASSUME NEW i \in 1..n, upTo[i - 1] \in Seq(S) PROVE upTo[i] \in Seq(S)
      <3>1. i \in 1..N BY <1>1
      <3>2. upTo[i] = upTo[i - 1] \o Separator(i) \o k[i] BY <1>10, <3>1
      <3> HIDE DEF N
      <3> QED BY <1>2, <2>2, <3>1, <3>2
    <2>3. n \in Nat BY <1>1
    <2> QED BY ONLY <2>1, <2>2, <2>3, Upward
  <1>12. upTo \in [0..N -> Seq(S)]
    <2>1. upTo = [i \in 0..N |-> upTo[i]] BY <1>9, <1>10
    <2> QED BY <1>11, <2>1
  <1> QED BY <1>4, <1>10, <1>12

(* A further text.                                                         *)
LEMMA RunAppend ==
    ASSUME NEW S, NEW k \in Seq(Seq(S)), NEW x \in Seq(S)
    PROVE  /\ Run(k) \in Seq(S) /\ Run(<<>>) = <<>>
           /\ Run(Append(k, x)) = Run(k) \o x
  <1> DEFINE m == Append(k, x)
             A == RunTo(k)
             B == RunTo(m)
             n == Len(k)
             h == [i \in 0..n |-> IF A[i] = B[i] THEN 0 ELSE 1]
  <1>1. /\ n \in Nat /\ m \in Seq(Seq(S)) /\ Len(m) = n + 1 /\ m[n + 1] = x
        /\ \A i \in 1..n : m[i] = k[i]
    BY PushLemma
  <1>2. /\ A \in [0..n -> Seq(S)] /\ A[0] = <<>> /\ Run(k) = A[n]
        /\ \A i \in 1..n : A[i] = A[i - 1] \o k[i]
    BY RunSteps
  <1> HIDE DEF m
  <1>3. /\ B[0] = <<>> /\ Run(m) = B[n + 1]
        /\ \A i \in 1..n + 1 : B[i] = B[i - 1] \o m[i]
    BY <1>1, RunSteps
  <1> HIDE DEF A, B, n
  <1>4. h[0] \in {0}
    <2>1. 0 \in 0..n BY <1>1
    <2> QED BY <1>2, <1>3, <2>1
  <1>5. \A i \in 1..n : h[i - 1] \in {0} => h[i] \in {0}
    <2> TAKE i \in 1..n
    <2>1. i \in 0..n /\ i - 1 \in 0..n /\ i \in 1..n + 1 BY <1>1
    <2>2. A[i] = A[i - 1] \o k[i] /\ B[i] = B[i - 1] \o k[i] BY <1>1, <1>2, <1>3, <2>1
    <2> QED BY <2>1, <2>2
  <1>6. h[n] \in {0}
    <2> HIDE DEF h
    <2> QED BY ONLY <1>1, <1>4, <1>5, Upward
  <1>7. n \in 0..n /\ n + 1 \in 1..n + 1 /\ n + 1 - 1 = n BY <1>1
  <1>8. A[n] = B[n] BY <1>6, <1>7
  <1>9. Run(m) = Run(k) \o x
    <2>1. ASSUME NEW q, q = n + 1 PROVE B[q] = B[n] \o m[q]
      <3>1. q \in 1..n + 1 /\ q - 1 = n BY <1>1, <2>1
      <3>2. B[q] = B[q - 1] \o m[q] BY <1>3, <3>1
      <3> QED BY <3>1, <3>2, Zenon
    <2> QED BY <1>1, <1>2, <1>3, <1>8, <2>1, Zenon
  <1>10. Run(<<>>) = <<>>
    <2>1. <<>> \in Seq(Seq(S)) /\ Len(<<>>) = 0 OBVIOUS
    <2> QED BY <2>1, RunSteps
  <1>11. Run(k) \in Seq(S) BY <1>2, <1>7
  <1> QED BY <1>9, <1>10, <1>11 DEF m

LEMMA ListedAppend ==
    ASSUME NEW S, "Comma" \in S, NEW k \in Seq(Seq(S)), NEW x \in Seq(S)
    PROVE  /\ Listed(k) \in Seq(S) /\ Listed(<<>>) = <<>>
           /\ Listed(Append(k, x)) = Listed(k) \o (IF k = <<>> THEN <<>> ELSE <<"Comma">>) \o x
  <1> DEFINE m == Append(k, x)
             A == ListTo(k)
             B == ListTo(m)
             n == Len(k)
             h == [i \in 0..n |-> IF A[i] = B[i] THEN 0 ELSE 1]
  <1>1. /\ n \in Nat /\ m \in Seq(Seq(S)) /\ Len(m) = n + 1 /\ m[n + 1] = x
        /\ \A i \in 1..n : m[i] = k[i]
    BY PushLemma
  <1>2. /\ A \in [0..n -> Seq(S)] /\ A[0] = <<>> /\ Listed(k) = A[n]
        /\ \A i \in 1..n : A[i] = A[i - 1] \o Separator(i) \o k[i]
    BY ListSteps
  <1> HIDE DEF m
  <1>3. /\ B[0] = <<>> /\ Listed(m) = B[n + 1]
        /\ \A i \in 1..n + 1 : B[i] = B[i - 1] \o Separator(i) \o m[i]
    BY <1>1, ListSteps
  <1> HIDE DEF A, B
  <1>4. h[0] \in {0}
    <2>1. 0 \in 0..n BY <1>1
    <2> QED BY <1>2, <1>3, <2>1
  <1>5. \A i \in 1..n : h[i - 1] \in {0} => h[i] \in {0}
    <2> TAKE i \in 1..n
    <2>1. i \in 0..n /\ i - 1 \in 0..n /\ i \in 1..n + 1 BY <1>1
    <2>2. /\ A[i] = A[i - 1] \o Separator(i) \o k[i]
          /\ B[i] = B[i - 1] \o Separator(i) \o k[i]
      BY <1>1, <1>2, <1>3, <2>1
    <2> QED BY <2>1, <2>2
  <1>6. h[n] \in {0}
    <2> HIDE DEF h, n
    <2> QED BY ONLY <1>1, <1>4, <1>5, Upward
  <1>7. n \in 0..n /\ n + 1 \in 1..n + 1 /\ n + 1 - 1 = n BY <1>1
  <1>8. A[n] = B[n] BY <1>6, <1>7
  <1>9. Separator(n + 1) = IF k = <<>> THEN <<>> ELSE <<"Comma">>
    <2>1. n = 0 <=> k = <<>> BY <1>1, EmptySeq, LenPositive
    <2>2. n + 1 = 1 <=> n = 0 BY <1>1
    <2> QED BY <2>1, <2>2 DEF Separator
  <1>10. Listed(m) = Listed(k) \o (IF k = <<>> THEN <<>> ELSE <<"Comma">>) \o x
    <2> HIDE DEF n
    <2>1. ASSUME NEW q, q = n + 1 PROVE B[q] = B[n] \o Separator(q) \o m[q]
      <3>1. q \in 1..n + 1 /\ q - 1 = n BY <1>1, <2>1
      <3>2. B[q] = B[q - 1] \o Separator(q) \o m[q] BY <1>3, <3>1
      <3> QED BY <3>1, <3>2, Zenon
    <2> QED BY <1>1, <1>2, <1>3, <1>8, <1>9, <2>1, Zenon
  <1>11. Listed(<<>>) = <<>>
    <2>1. <<>> \in Seq(Seq(S)) /\ Len(<<>>) = 0 OBVIOUS
    <2> QED BY <2>1, ListSteps
  <1>12. Listed(k) \in Seq(S) BY <1>2, <1>7
  <1> QED BY <1>10, <1>11, <1>12 DEF m

-----------------------------------------------------------------------------
(* A text without its holes.                                               *)

LEMMA FillGood ==
    ASSUME NEW s \in GoodTexts
    PROVE  Fill(s) \in GoodTexts /\ Fill(<<>>) = <<>>
  <1> DEFINE I == {i \in 1..Len(s) : s[i] \notin KnownHoles}
             J == {i \in 1..Len(<<>>) : <<>>[i] \notin KnownHoles}
  <1>1. Len(s) \in Nat BY LenProperties DEF GoodTexts
  <1>2. Chosen(s, I) \in [0..Len(s) -> GoodTexts] BY ChosenSteps DEF GoodTexts
  <1>3. Fill(s) = Chosen(s, I)[Len(s)] BY DEF Fill
  <1>4. <<>> \in GoodTexts /\ Len(<<>>) = 0 BY DEF GoodTexts
  <1>5. Fill(<<>>) = Chosen(<<>>, J)[0] BY <1>4 DEF Fill
  <1> HIDE DEF I, J
  <1>6. Chosen(<<>>, J)[0] = <<>> BY <1>4, ChosenSteps DEF GoodTexts
  <1>7. Len(s) \in 0..Len(s) BY <1>1
  <1> QED BY <1>2, <1>3, <1>5, <1>6, <1>7

LEMMA FillAppend ==
    ASSUME NEW s \in GoodTexts, NEW a \in Tokens \cup KnownHoles
    PROVE  Fill(Append(s, a)) = IF a \in KnownHoles THEN Fill(s) ELSE Append(Fill(s), a)
  <1> DEFINE W == Tokens \cup KnownHoles
             t == Append(s, a)
             n == Len(s)
             I == {i \in 1..Len(s) : s[i] \notin KnownHoles}
             J == {i \in 1..Len(t) : t[i] \notin KnownHoles}
  <1>1. s \in Seq(W) BY DEF GoodTexts
  <1>2. Fill(s) = Chosen(s, I)[n] /\ Fill(t) = Chosen(t, J)[Len(t)] BY DEF Fill
  <1>3. /\ t \in Seq(W) /\ n \in Nat /\ Len(t) = n + 1 /\ t[n + 1] = a
        /\ \A i \in 1..n : t[i] = s[i]
    <2> HIDE DEF W
    <2> QED BY <1>1, PushLemma DEF W
  <1>4. Agree(s, I, t, J, n) BY <1>3 DEF Agree
  <1>5. n + 1 \in J <=> a \notin KnownHoles BY <1>3
  <1> HIDE DEF I, J, W, t, n
  <1>6. Chosen(s, I)[n] = Chosen(t, J)[n]
    <2>1. n <= Len(s) /\ n <= Len(t) BY <1>3 DEF n
    <2> QED BY <1>1, <1>3, <1>4, <2>1, ChosenPrefix
  <1>7. n + 1 \in 1..Len(t) /\ n + 1 - 1 = n BY <1>3
  <1>8. ASSUME NEW q, q = n + 1
        PROVE  Chosen(t, J)[q] = IF q \in J THEN Append(Chosen(t, J)[n], t[q]) ELSE Chosen(t, J)[n]
    <2>1. q \in 1..Len(t) /\ q - 1 = n BY <1>3, <1>8
    <2>2. Chosen(t, J)[q] = IF q \in J THEN Append(Chosen(t, J)[q - 1], t[q]) ELSE Chosen(t, J)[q - 1]
      BY <1>3, <2>1, ChosenSteps
    <2> QED BY <2>1, <2>2, Zenon
  <1>9. Fill(t) = IF a \in KnownHoles THEN Fill(s) ELSE Append(Fill(s), a)
    BY <1>2, <1>3, <1>5, <1>6, <1>8, Zenon
  <1> QED BY <1>9 DEF t

LEMMA FillJoin ==
    ASSUME NEW s \in GoodTexts, NEW t \in GoodTexts
    PROVE  Fill(s \o t) = Fill(s) \o Fill(t)
  <1> DEFINE W == Tokens \cup KnownHoles
             n == Len(t)
             u(i) == SubSeq(t, 1, i)
             h == [i \in 0..n |-> IF Fill(s \o u(i)) = Fill(s) \o Fill(u(i)) THEN 0 ELSE 1]
  <1>1. s \in Seq(W) /\ t \in Seq(W) /\ n \in Nat BY LenProperties DEF GoodTexts
  <1>2. \A i \in 0..n : u(i) \in Seq(W)
    <2> HIDE DEF W
    <2> QED BY <1>1, PrefixLemma
  <1>3. ASSUME NEW i \in 1..n PROVE i - 1 \in 0..n /\ t[i] \in W /\ u(i) = Append(u(i - 1), t[i])
    <2> HIDE DEF W
    <2>1. t[i] \in W BY <1>1, ElementOfSeq
    <2>2. i - 1 \in 0..n /\ i \in 0..n BY <1>1
    <2>3. /\ u(i) \in Seq(W) /\ Len(u(i)) = i /\ \A j \in 1..i : u(i)[j] = t[j]
          /\ u(i - 1) \in Seq(W) /\ Len(u(i - 1)) = i - 1 /\ \A j \in 1..i - 1 : u(i - 1)[j] = t[j]
      BY <1>1, <2>2, PrefixLemma
    <2> DEFINE v == Append(u(i - 1), t[i])
    <2>4. /\ v \in Seq(W) /\ Len(v) = i /\ v[i] = t[i]
          /\ \A j \in 1..i - 1 : v[j] = t[j]
      <3> HIDE DEF u
      <3>1. /\ v \in Seq(W) /\ Len(v) = i - 1 + 1 /\ v[i - 1 + 1] = t[i]
            /\ \A j \in 1..i - 1 : v[j] = u(i - 1)[j]
        BY <2>1, <2>3, PushLemma
      <3>2. i - 1 + 1 = i OBVIOUS
      <3> HIDE DEF v
      <3> QED BY <2>3, <3>1, <3>2
    <2> HIDE DEF v, u
    <2>5. \A j \in 1..i : j = i \/ j \in 1..i - 1 OBVIOUS
    <2>6. u(i) = v BY <2>3, <2>4, <2>5, SeqEqual
    <2> QED BY <2>1, <2>2, <2>6 DEF v
  <1>4. u(0) = <<>> /\ u(n) = t
    <2>1. u(0) = <<>> BY SubSeqEmpty
    <2>2. u(n) = t
      <3> HIDE DEF W
      <3> QED BY <1>1, SubSeqFull
    <2> QED BY <2>1, <2>2
  <1>5. Fill(s) \in Seq(W) /\ Fill(<<>>) = <<>> BY FillGood DEF GoodTexts
  <1> HIDE DEF u
  <1>6. h[0] = 0
    <2>1. s \o <<>> = s /\ Fill(s) \o <<>> = Fill(s)
      <3> HIDE DEF W
      <3> QED BY <1>1, <1>5, ConcatEmptySeq
    <2>2. 0 \in 0..n BY <1>1
    <2> QED BY <1>4, <1>5, <2>1, <2>2
  <1>7. ASSUME NEW i \in 1..n, Fill(s \o u(i - 1)) = Fill(s) \o Fill(u(i - 1))
        PROVE  Fill(s \o u(i)) = Fill(s) \o Fill(u(i))
    <2> DEFINE x == u(i - 1)
               a == t[i]
    <2>1. x \in Seq(W) /\ a \in W /\ u(i) = Append(x, a) BY <1>2, <1>3
    <2>2. x \in GoodTexts BY <2>1 DEF GoodTexts
    <2>3. Fill(x) \in Seq(W) BY <2>2, FillGood DEF GoodTexts
    <2> HIDE DEF x, a
    <2>4. s \o Append(x, a) = Append(s \o x, a) /\ s \o x \in Seq(W)
      <3> HIDE DEF W
      <3>1. Append(x, a) = x \o <<a>> /\ <<a>> \in Seq(W) BY <2>1, AppendIsConcat
      <3>2. s \o x \in Seq(W) BY <1>1, <2>1, ConcatProperties
      <3>3. Append(s \o x, a) = (s \o x) \o <<a>> BY <2>1, <3>2, AppendIsConcat
      <3>0. s \in Seq(W) /\ x \in Seq(W) /\ <<a>> \in Seq(W) BY <1>1, <2>1, <3>1
      <3>4. (s \o x) \o <<a>> = s \o (x \o <<a>>) BY ONLY <3>0, ConcatAssociative
      <3> QED BY <3>1, <3>2, <3>3, <3>4
    <2>5. Fill(s) \o Append(Fill(x), a) = Append(Fill(s) \o Fill(x), a)
      <3> HIDE DEF W
      <3>1. Append(Fill(x), a) = Fill(x) \o <<a>> /\ <<a>> \in Seq(W) BY <2>1, <2>3, AppendIsConcat
      <3>2. Fill(s) \o Fill(x) \in Seq(W) BY <1>5, <2>3, ConcatProperties
      <3>3. Append(Fill(s) \o Fill(x), a) = (Fill(s) \o Fill(x)) \o <<a>>
        BY <2>1, <3>2, AppendIsConcat
      <3>4. (Fill(s) \o Fill(x)) \o <<a>> = Fill(s) \o (Fill(x) \o <<a>>)
        BY <1>5, <2>3, <3>1, ConcatAssociative
      <3> QED BY <3>1, <3>3, <3>4
    <2>6. Fill(Append(x, a)) = IF a \in KnownHoles THEN Fill(x) ELSE Append(Fill(x), a)
      BY <2>1, <2>2, FillAppend
    <2>7. Fill(Append(s \o x, a)) = IF a \in KnownHoles THEN Fill(s \o x) ELSE Append(Fill(s \o x), a)
      BY <2>1, <2>4, FillAppend DEF GoodTexts
    <2>8. Fill(s \o x) = Fill(s) \o Fill(x) BY <1>7 DEF x
    <2> QED BY <2>1, <2>4, <2>5, <2>6, <2>7, <2>8, Zenon
  <1>8. h[0] \in {0} /\ \A i \in 1..n : h[i - 1] \in {0} => h[i] \in {0}
    <2>1. \A i \in 1..n : i \in 0..n /\ i - 1 \in 0..n BY <1>1
    <2> QED BY <1>6, <1>7, <2>1
  <1>9. h[n] \in {0}
    <2> HIDE DEF h, n
    <2> QED BY ONLY <1>1, <1>8, Upward
  <1>10. n \in 0..n BY <1>1
  <1>11. Fill(s \o u(n)) = Fill(s) \o Fill(u(n)) BY <1>9, <1>10
  <1> QED BY <1>4, <1>11

(* Tokens are no holes.                                                    *)
LEMMA HolesApart == Tokens \cap KnownHoles = {}
  BY DEF Tokens, KnownHoles, TypeTokens, BinOps, UnaryOps

LEMMA FillToken == ASSUME NEW t \in Tokens PROVE Fill(<<t>>) = <<t>> /\ <<t>> \in GoodTexts
  <1>1. <<>> \in GoodTexts /\ Fill(<<>>) = <<>> BY TextsJoin, FillGood
  <1>2. t \in Tokens \cup KnownHoles /\ t \notin KnownHoles BY HolesApart
  <1>3. Fill(Append(<<>>, t)) = Append(Fill(<<>>), t) BY <1>1, <1>2, FillAppend
  <1>4. Append(<<>>, t) = <<t>> OBVIOUS
  <1>5. <<t>> \in GoodTexts BY <1>2, TextsJoin
  <1> QED BY <1>1, <1>3, <1>4, <1>5

(* A null child is filled where the parser lets one through.               *)
LEMMA FillOr ==
    ASSUME NEW n \in GoodTexts, NEW fn,
           n # Null \/ fn \in {"parseFnArgs", "parseIfStmt", "parseTernaryExpr", "parseArrayDecls"}
    PROVE  Fill(Or(n, fn)) = Fill(n) /\ Or(n, fn) \in GoodTexts
  <1>1. CASE n # Null BY <1>1 DEF Or, Null
  <1>2. CASE n = Null
    <2>1. Or(n, fn) = <<Hole(fn)>> BY <1>2 DEF Or, Null
    <2>2. Hole(fn) \in KnownHoles BY <1>2 DEF Hole, KnownHoles
    <2>3. <<>> \in GoodTexts /\ Fill(<<>>) = <<>> BY TextsJoin, FillGood
    <2>4. Fill(Append(<<>>, Hole(fn))) = <<>> BY <2>2, <2>3, FillAppend
    <2>5. Append(<<>>, Hole(fn)) = <<Hole(fn)>> OBVIOUS
    <2>6. <<Hole(fn)>> \in GoodTexts BY <2>2, TextsJoin
    <2> QED BY <1>2, <2>1, <2>3, <2>4, <2>5, <2>6 DEF Null
  <1> QED BY <1>1, <1>2

(* The children, filled; and one more.                                     *)
LEMMA FillsGood ==
    ASSUME NEW k \in Seq(GoodTexts)
    PROVE  /\ Fills(k) \in Seq(GoodTexts) /\ Len(Fills(k)) = Len(k)
           /\ \A i \in 1..Len(k) : Fills(k)[i] = Fill(k[i]) /\ k[i] \in GoodTexts
           /\ Fills(<<>>) = <<>> /\ (Fills(k) = <<>> <=> k = <<>>)
  <1> DEFINE N == Len(k)
             f == [i \in 1..N |-> Fill(k[i])]
  <1>1. N \in Nat /\ DOMAIN k = 1..N /\ \A i \in 1..N : k[i] \in GoodTexts
    BY LenProperties, ElementOfSeq
  <1>2. Fills(k) = f BY <1>1 DEF Fills
  <1>3. \A i \in 1..N : f[i] = Fill(k[i]) /\ f[i] \in GoodTexts BY <1>1, FillGood
  <1>4. f \in [1..N -> GoodTexts] BY <1>3
  <1>5. f \in Seq(GoodTexts) /\ Len(f) = N
    <2> HIDE DEF f, N
    <2>1. f \in UNION {[1..n -> GoodTexts] : n \in Nat} BY <1>1, <1>4
    <2>2. f \in Seq(GoodTexts) BY <2>1, SeqDef
    <2>3. Len(f) \in Nat /\ 1..Len(f) = 1..N BY <1>4, <2>2, LenProperties
    <2>4. (N > 0 => N \in 1..Len(f)) /\ (Len(f) > 0 => Len(f) \in 1..N) BY <1>1, <2>3
    <2> QED BY <1>1, <2>2, <2>3, <2>4
  <1> HIDE DEF f
  <1>6. f = <<>> <=> k = <<>> BY <1>1, <1>5, EmptySeq, LenPositive
  <1>7. Fills(<<>>) = <<>> BY DEF Fills
  <1> QED BY <1>1, <1>2, <1>3, <1>5, <1>6, <1>7

LEMMA FillsAppend ==
    ASSUME NEW k \in Seq(GoodTexts), NEW n \in GoodTexts
    PROVE  Fills(Append(k, n)) = Append(Fills(k), Fill(n))
  <1> DEFINE m == Append(k, n)
             p == Append(Fills(k), Fill(n))
             N == Len(k)
  <1>1. /\ m \in Seq(GoodTexts) /\ N \in Nat /\ Len(m) = N + 1 /\ m[N + 1] = n
        /\ \A i \in 1..N : m[i] = k[i]
    BY PushLemma
  <1>2. Fills(k) \in Seq(GoodTexts) /\ Len(Fills(k)) = N /\ Fill(n) \in GoodTexts
    BY FillsGood, FillGood
  <1>3. /\ p \in Seq(GoodTexts) /\ Len(p) = N + 1 /\ p[N + 1] = Fill(n)
        /\ \A i \in 1..N : p[i] = Fills(k)[i]
    BY <1>2, PushLemma
  <1>4. \A i \in 1..N : Fills(k)[i] = Fill(k[i]) BY FillsGood
  <1> HIDE DEF m, p, N
  <1>5. /\ Fills(m) \in Seq(GoodTexts) /\ Len(Fills(m)) = N + 1
        /\ \A i \in 1..N + 1 : Fills(m)[i] = Fill(m[i])
    BY <1>1, FillsGood
  <1>6. ASSUME NEW i \in 1..N + 1 PROVE Fills(m)[i] = p[i]
    <2>1. CASE i = N + 1 BY <1>1, <1>3, <1>5, <2>1
    <2>2. CASE i \in 1..N BY <1>1, <1>3, <1>4, <1>5, <2>2
    <2> QED BY <1>1, <2>1, <2>2
  <1>7. Fills(m) = p BY <1>1, <1>3, <1>5, <1>6, SeqEqual
  <1> QED BY <1>7 DEF m, p

LEMMA FillRun == ASSUME NEW k \in Seq(GoodTexts) PROVE Fill(Run(k)) = Run(Fills(k))
  <1> DEFINE N == Len(k)
             W == Tokens \cup KnownHoles
             A == RunTo(k)
             B == RunTo(Fills(k))
             h == [i \in 0..N |-> IF Fill(A[i]) = B[i] THEN 0 ELSE 1]
  <1>1. k \in Seq(Seq(W)) /\ N \in Nat BY LenProperties DEF GoodTexts
  <1>2. /\ Fills(k) \in Seq(Seq(W)) /\ Len(Fills(k)) = N
        /\ \A i \in 1..N : Fills(k)[i] = Fill(k[i]) /\ k[i] \in GoodTexts
    BY FillsGood DEF GoodTexts
  <1> HIDE DEF W, N
  <1>3. /\ A \in [0..N -> Seq(W)] /\ A[0] = <<>> /\ Run(k) = A[N]
        /\ \A i \in 1..N : A[i] = A[i - 1] \o k[i]
    BY <1>1, RunSteps DEF N
  <1>4. /\ B[0] = <<>> /\ Run(Fills(k)) = B[N]
        /\ \A i \in 1..N : B[i] = B[i - 1] \o Fills(k)[i]
    BY <1>2, RunSteps
  <1> HIDE DEF A, B
  <1>5. h[0] \in {0}
    <2>1. 0 \in 0..N /\ Fill(<<>>) = <<>> BY <1>1, TextsJoin, FillGood
    <2> QED BY <1>3, <1>4, <2>1
  <1>6. \A i \in 1..N : h[i - 1] \in {0} => h[i] \in {0}
    <2> SUFFICES ASSUME NEW i \in 1..N, Fill(A[i - 1]) = B[i - 1] PROVE Fill(A[i]) = B[i]
      <3>1. \A i \in 1..N : i \in 0..N /\ i - 1 \in 0..N BY <1>1
      <3> QED BY <3>1
    <2>1. i - 1 \in 0..N /\ A[i - 1] \in GoodTexts BY <1>1, <1>3 DEF GoodTexts, W
    <2>2. Fill(A[i - 1] \o k[i]) = Fill(A[i - 1]) \o Fill(k[i]) BY <1>2, <2>1, FillJoin
    <2> QED BY <1>2, <1>3, <1>4, <2>2
  <1>7. h[N] \in {0}
    <2> HIDE DEF h
    <2> QED BY ONLY <1>1, <1>5, <1>6, Upward
  <1>8. N \in 0..N BY <1>1
  <1> QED BY <1>3, <1>4, <1>7, <1>8

LEMMA FillListed == ASSUME NEW k \in Seq(GoodTexts) PROVE Fill(Listed(k)) = Listed(Fills(k))
  <1> DEFINE N == Len(k)
             W == Tokens \cup KnownHoles
             A == ListTo(k)
             B == ListTo(Fills(k))
             h == [i \in 0..N |-> IF Fill(A[i]) = B[i] THEN 0 ELSE 1]
  <1>1. k \in Seq(Seq(W)) /\ N \in Nat /\ "Comma" \in Tokens /\ "Comma" \in W
    BY LenProperties, WordsOfTexts DEF GoodTexts
  <1>2. /\ Fills(k) \in Seq(Seq(W)) /\ Len(Fills(k)) = N
        /\ \A i \in 1..N : Fills(k)[i] = Fill(k[i]) /\ k[i] \in GoodTexts
    BY FillsGood DEF GoodTexts
  <1> HIDE DEF W, N
  <1>3. /\ A \in [0..N -> Seq(W)] /\ A[0] = <<>> /\ Listed(k) = A[N]
        /\ \A i \in 1..N : A[i] = A[i - 1] \o Separator(i) \o k[i]
    BY <1>1, ListSteps DEF N
  <1>4. /\ B[0] = <<>> /\ Listed(Fills(k)) = B[N]
        /\ \A i \in 1..N : B[i] = B[i - 1] \o Separator(i) \o Fills(k)[i]
    BY <1>1, <1>2, ListSteps
  <1>9. \A i : Separator(i) \in GoodTexts /\ Fill(Separator(i)) = Separator(i)
    BY <1>1, TextsJoin, FillGood, FillToken DEF Separator
  <1> HIDE DEF A, B
  <1>5. h[0] \in {0}
    <2>1. 0 \in 0..N /\ Fill(<<>>) = <<>> BY <1>1, TextsJoin, FillGood
    <2> QED BY <1>3, <1>4, <2>1
  <1>6. \A i \in 1..N : h[i - 1] \in {0} => h[i] \in {0}
    <2> SUFFICES ASSUME NEW i \in 1..N, Fill(A[i - 1]) = B[i - 1] PROVE Fill(A[i]) = B[i]
      <3>1. \A i \in 1..N : i \in 0..N /\ i - 1 \in 0..N BY <1>1
      <3> QED BY <3>1
    <2>1. i - 1 \in 0..N /\ A[i - 1] \in GoodTexts BY <1>1, <1>3 DEF GoodTexts, W
    <2>2. /\ A[i - 1] \o Separator(i) \in GoodTexts
          /\ Fill(A[i - 1] \o Separator(i)) = Fill(A[i - 1]) \o Separator(i)
      BY <1>9, <2>1, TextsJoin, FillJoin
    <2>3. Fill(A[i - 1] \o Separator(i) \o k[i]) = Fill(A[i - 1] \o Separator(i)) \o Fill(k[i])
      BY <1>2, <2>2, FillJoin
    <2> QED BY <1>2, <1>3, <1>4, <2>2, <2>3
  <1>7. h[N] \in {0}
    <2> HIDE DEF h
    <2> QED BY ONLY <1>1, <1>5, <1>6, Upward
  <1>8. N \in 0..N BY <1>1
  <1> QED BY <1>3, <1>4, <1>7, <1>8

(* The children with holes for those that are null.                        *)
LEMMA FillsOr ==
    ASSUME NEW kids \in Seq(GoodTexts), NEW fn,
           \/ \A i \in 1..Len(kids) : kids[i] # Null
           \/ fn \in {"parseFnArgs", "parseIfStmt", "parseTernaryExpr", "parseArrayDecls"}
    PROVE  LET k == [i \in DOMAIN kids |-> Or(kids[i], fn)]
           IN  /\ k \in Seq(GoodTexts) /\ Fills(k) = Fills(kids)
               /\ \A i \in 1..Len(kids) : k[i] \in GoodTexts /\ Fill(k[i]) = Fill(kids[i])
  <1> DEFINE N == Len(kids)
             k == [i \in 1..N |-> Or(kids[i], fn)]
  <1>1. N \in Nat /\ DOMAIN kids = 1..N /\ \A i \in 1..N : kids[i] \in GoodTexts
    BY LenProperties, ElementOfSeq
  <1>2. \A i \in 1..N : k[i] \in GoodTexts /\ Fill(k[i]) = Fill(kids[i])
    BY <1>1, FillOr
  <1>3. k \in [1..N -> GoodTexts] BY <1>2
  <1>4. k \in Seq(GoodTexts) /\ Len(k) = N
    <2> HIDE DEF k, N
    <2>1. k \in UNION {[1..n -> GoodTexts] : n \in Nat} BY <1>1, <1>3
    <2>2. k \in Seq(GoodTexts) BY <2>1, SeqDef
    <2>3. Len(k) \in Nat /\ 1..Len(k) = 1..N BY <1>3, <2>2, LenProperties
    <2>4. (N > 0 => N \in 1..Len(k)) /\ (Len(k) > 0 => Len(k) \in 1..N) BY <1>1, <2>3
    <2> QED BY <1>1, <2>2, <2>3, <2>4
  <1> HIDE DEF k
  <1>5. Fills(k) = Fills(kids)
    <2>1. /\ Fills(k) \in Seq(GoodTexts) /\ Len(Fills(k)) = N
          /\ \A i \in 1..N : Fills(k)[i] = Fill(k[i])
      BY <1>4, FillsGood
    <2>2. /\ Fills(kids) \in Seq(GoodTexts) /\ Len(Fills(kids)) = N
          /\ \A i \in 1..N : Fills(kids)[i] = Fill(kids[i])
      BY FillsGood
    <2> QED BY <1>2, <2>1, <2>2, SeqEqual
  <1> QED BY <1>1, <1>2, <1>4, <1>5 DEF k

-----------------------------------------------------------------------------
(* What a row says at its end is the text of the node that it builds.      *)

LEMMA SeqOfLength ==
    ASSUME NEW S, NEW n \in Nat, NEW X \in [1..n -> S]
    PROVE  X \in Seq(S) /\ Len(X) = n
  <1>1. X \in UNION {[1..m -> S] : m \in Nat} OBVIOUS
  <1>2. X \in Seq(S) BY <1>1, SeqDef
  <1>3. Len(X) \in Nat /\ 1..Len(X) = 1..n BY <1>2, LenProperties
  <1>4. (n > 0 => n \in 1..Len(X)) /\ (Len(X) > 0 => Len(X) \in 1..n) BY <1>3
  <1> QED BY <1>2, <1>3, <1>4

(* Up to seven texts, one after the other.                                 *)
LEMMA RunPlaces ==
    ASSUME NEW S, NEW X \in Seq(Seq(S)), NEW n \in Nat, Len(X) = n
    PROVE  /\ Run(X) = RunTo(X)[n]
           /\ n >= 1 => RunTo(X)[1] = X[1]
           /\ \A i \in 2..n : RunTo(X)[i] = RunTo(X)[i - 1] \o X[i]
  <1> DEFINE A == RunTo(X)
  <1>1. A[0] = <<>> /\ Run(X) = A[n] /\ \A i \in 1..n : A[i] = A[i - 1] \o X[i]
    BY RunSteps
  <1> HIDE DEF A
  <1>2. ASSUME n >= 1 PROVE A[1] = X[1]
    <2>1. 1 \in 1..n BY <1>2
    <2>2. X[1] \in Seq(S) BY <2>1, ElementOfSeq
    <2>3. ASSUME NEW q, q = 1 PROVE A[q] = A[0] \o X[q]
      <3>1. q \in 1..n /\ q - 1 = 0 BY <2>1, <2>3
      <3>2. A[q] = A[q - 1] \o X[q] BY <1>1, <3>1
      <3> QED BY <3>1, <3>2, Zenon
    <2>4. A[1] = A[0] \o X[1] BY <2>3, Zenon
    <2>5. <<>> \o X[1] = X[1] BY <2>2, ConcatEmptySeq
    <2> QED BY <1>1, <2>4, <2>5, Zenon
  <1>3. \A i \in 2..n : i \in 1..n OBVIOUS
  <1>4. \A i \in 2..n : A[i] = A[i - 1] \o X[i] BY <1>1, <1>3
  <1> QED BY <1>1, <1>2, <1>4 DEF A

LEMMA RunOf1 == ASSUME NEW S, NEW X \in Seq(Seq(S)), Len(X) = 1 PROVE Run(X) = X[1]
  <1> DEFINE A == RunTo(X)
  <1>1. Run(X) = A[1] /\ (1 >= 1 => A[1] = X[1]) /\ \A i \in 2..1 : A[i] = A[i - 1] \o X[i]
    BY ONLY X \in Seq(Seq(S)), Len(X) = 1, 1 \in Nat, RunPlaces
  <1> HIDE DEF A
  <1>2. A[1] = X[1] BY <1>1
  <1> QED BY <1>1, <1>2, Zenon

LEMMA RunOf2 == ASSUME NEW S, NEW X \in Seq(Seq(S)), Len(X) = 2 PROVE Run(X) = X[1] \o X[2]
  <1> DEFINE A == RunTo(X)
  <1>1. Run(X) = A[2] /\ (2 >= 1 => A[1] = X[1]) /\ \A i \in 2..2 : A[i] = A[i - 1] \o X[i]
    BY ONLY X \in Seq(Seq(S)), Len(X) = 2, 2 \in Nat, RunPlaces
  <1> HIDE DEF A
  <1>2. A[1] = X[1] BY <1>1
  <1>3. A[2] = A[1] \o X[2] BY <1>1
  <1> QED BY <1>1, <1>2, <1>3, Zenon

LEMMA RunOf3 == ASSUME NEW S, NEW X \in Seq(Seq(S)), Len(X) = 3 PROVE Run(X) = X[1] \o X[2] \o X[3]
  <1> DEFINE A == RunTo(X)
  <1>1. Run(X) = A[3] /\ (3 >= 1 => A[1] = X[1]) /\ \A i \in 2..3 : A[i] = A[i - 1] \o X[i]
    BY ONLY X \in Seq(Seq(S)), Len(X) = 3, 3 \in Nat, RunPlaces
  <1> HIDE DEF A
  <1>2. A[1] = X[1] BY <1>1
  <1>3. A[2] = A[1] \o X[2] BY <1>1
  <1>4. A[3] = A[2] \o X[3] BY <1>1
  <1> QED BY <1>1, <1>2, <1>3, <1>4, Zenon

LEMMA RunOf4 ==
    ASSUME NEW S, NEW X \in Seq(Seq(S)), Len(X) = 4
    PROVE  Run(X) = X[1] \o X[2] \o X[3] \o X[4]
  <1> DEFINE A == RunTo(X)
  <1>1. Run(X) = A[4] /\ (4 >= 1 => A[1] = X[1]) /\ \A i \in 2..4 : A[i] = A[i - 1] \o X[i]
    BY ONLY X \in Seq(Seq(S)), Len(X) = 4, 4 \in Nat, RunPlaces
  <1> HIDE DEF A
  <1>2. A[1] = X[1] BY <1>1
  <1>3. A[2] = A[1] \o X[2] BY <1>1
  <1>4. A[3] = A[2] \o X[3] BY <1>1
  <1>5. A[4] = A[3] \o X[4] BY <1>1
  <1> QED BY <1>1, <1>2, <1>3, <1>4, <1>5, Zenon

LEMMA RunOf5 ==
    ASSUME NEW S, NEW X \in Seq(Seq(S)), Len(X) = 5
    PROVE  Run(X) = X[1] \o X[2] \o X[3] \o X[4] \o X[5]
  <1> DEFINE A == RunTo(X)
  <1>1. Run(X) = A[5] /\ (5 >= 1 => A[1] = X[1]) /\ \A i \in 2..5 : A[i] = A[i - 1] \o X[i]
    BY ONLY X \in Seq(Seq(S)), Len(X) = 5, 5 \in Nat, RunPlaces
  <1> HIDE DEF A
  <1>2. A[1] = X[1] BY <1>1
  <1>3. A[2] = A[1] \o X[2] BY <1>1
  <1>4. A[3] = A[2] \o X[3] BY <1>1
  <1>5. A[4] = A[3] \o X[4] BY <1>1
  <1>6. A[5] = A[4] \o X[5] BY <1>1
  <1> QED BY <1>1, <1>2, <1>3, <1>4, <1>5, <1>6, Zenon

LEMMA RunOf6 ==
    ASSUME NEW S, NEW X \in Seq(Seq(S)), Len(X) = 6
    PROVE  Run(X) = X[1] \o X[2] \o X[3] \o X[4] \o X[5] \o X[6]
  <1> DEFINE A == RunTo(X)
  <1>1. Run(X) = A[6] /\ (6 >= 1 => A[1] = X[1]) /\ \A i \in 2..6 : A[i] = A[i - 1] \o X[i]
    BY ONLY X \in Seq(Seq(S)), Len(X) = 6, 6 \in Nat, RunPlaces
  <1> HIDE DEF A
  <1>2. A[1] = X[1] BY <1>1
  <1>3. A[2] = A[1] \o X[2] BY <1>1
  <1>4. A[3] = A[2] \o X[3] BY <1>1
  <1>5. A[4] = A[3] \o X[4] BY <1>1
  <1>6. A[5] = A[4] \o X[5] BY <1>1
  <1>7. A[6] = A[5] \o X[6] BY <1>1
  <1>8. A[4] = X[1] \o X[2] \o X[3] \o X[4] BY <1>2, <1>3, <1>4, <1>5, Zenon
  <1> QED BY <1>1, <1>6, <1>7, <1>8, Zenon

LEMMA RunOf7 ==
    ASSUME NEW S, NEW X \in Seq(Seq(S)), Len(X) = 7
    PROVE  Run(X) = X[1] \o X[2] \o X[3] \o X[4] \o X[5] \o X[6] \o X[7]
  <1> DEFINE A == RunTo(X)
  <1>1. Run(X) = A[7] /\ (7 >= 1 => A[1] = X[1]) /\ \A i \in 2..7 : A[i] = A[i - 1] \o X[i]
    BY ONLY X \in Seq(Seq(S)), Len(X) = 7, 7 \in Nat, RunPlaces
  <1> HIDE DEF A
  <1>2. A[1] = X[1] BY <1>1
  <1>3. A[2] = A[1] \o X[2] BY <1>1
  <1>4. A[3] = A[2] \o X[3] BY <1>1
  <1>5. A[4] = A[3] \o X[4] BY <1>1
  <1>6. A[5] = A[4] \o X[5] BY <1>1
  <1>7. A[6] = A[5] \o X[6] BY <1>1
  <1>8. A[7] = A[6] \o X[7] BY <1>1
  <1>9. A[4] = X[1] \o X[2] \o X[3] \o X[4] BY <1>2, <1>3, <1>4, <1>5, Zenon
  <1> QED BY <1>1, <1>6, <1>7, <1>8, <1>9, Zenon

(* Parentheses do not matter.                                              *)
Assoc(a, b, c)           == a \o (b \o c) = a \o b \o c
Assoc4(a, b, c, d)       == a \o (b \o c \o d) = a \o b \o c \o d
Assoc6(a, b, c, d, e, f) == a \o (b \o c \o d \o e \o f) = a \o b \o c \o d \o e \o f

LEMMA Flat3 ==
    ASSUME NEW a \in GoodTexts, NEW b \in GoodTexts, NEW c \in GoodTexts
    PROVE  Assoc(a, b, c)
  <1> DEFINE S == Tokens \cup KnownHoles
  <1>1. a \in Seq(S) /\ b \in Seq(S) /\ c \in Seq(S) BY DEF GoodTexts
  <1> HIDE DEF S
  <1>2. a \o (b \o c) = a \o b \o c BY ONLY <1>1, ConcatAssociative
  <1> QED BY <1>2 DEF Assoc

LEMMA Flat4 ==
    ASSUME NEW a \in GoodTexts, NEW b \in GoodTexts, NEW c \in GoodTexts, NEW d \in GoodTexts
    PROVE  Assoc4(a, b, c, d)
  <1>1. b \o c \in GoodTexts BY TextsJoin
  <1>2. Assoc(a, b \o c, d) /\ Assoc(a, b, c) BY <1>1, Flat3
  <1> QED BY <1>2, Zenon DEF Assoc, Assoc4

LEMMA Flat6 ==
    ASSUME NEW a \in GoodTexts, NEW b \in GoodTexts, NEW c \in GoodTexts, NEW d \in GoodTexts,
           NEW e \in GoodTexts, NEW f \in GoodTexts
    PROVE  Assoc6(a, b, c, d, e, f)
  <1>1. b \o c \in GoodTexts BY TextsJoin
  <1>2. b \o c \o d \in GoodTexts BY <1>1, TextsJoin
  <1>3. b \o c \o d \o e \in GoodTexts BY <1>2, TextsJoin
  <1>4. Assoc4(a, b, c, d) BY Flat4
  <1>5. Assoc(a, b \o c \o d, e) BY <1>2, Flat3
  <1>6. Assoc(a, b \o c \o d \o e, f) BY <1>3, Flat3
  <1> QED BY <1>4, <1>5, <1>6, Zenon DEF Assoc, Assoc4, Assoc6

LEMMA OnlyOne == ASSUME NEW t PROVE Only({t}) = t
  BY DEF Only

(* The text of an item, with the hole of a null child.                     *)
Piece(fn, i, op, kids) ==
    LET item == Row[fn][i]
        node == kids[Built[fn][i] + 1]
    IN  IF item.call = "none"
        THEN IF item.match = {Only(item.match)} THEN <<Only(item.match)>> ELSE <<op>>
        ELSE IF item.match # {}
        THEN IF node = Null THEN <<>> ELSE <<Only(item.match)>> \o node
        ELSE IF fn = "parseReturnStmt" THEN node ELSE Or(node, fn)

Pieces(fn, op, kids) == [i \in 1..Len(Row[fn]) |-> Piece(fn, i, op, kids)]

RowText(fn, op, kids) == Run([i \in 1..Len(Row[fn]) |-> ItemText(fn, i, op, kids)])

(* The children of a row at its end.                                       *)
RowKids(fn, op, kids) ==
    /\ fn \in DOMAIN Row /\ kids \in Seq(GoodTexts)
    /\ Len(kids) = Built[fn][Len(Row[fn]) + 1]
    /\ fn \notin KeepsNull => \A i \in 1..Len(kids) : kids[i] # Null
    /\ fn \in DOMAIN HoldsFrom => op \in Tokens

(* Each item matches one token, or an operator or a type; or its child is  *)
(* among those of the function.                                            *)
Formed(fn, item, before, last) ==
    /\ item.call = "none" => \/ item.match = {Only(item.match)}
                             \/ fn \in DOMAIN HoldsFrom
    /\ item.call # "none" => /\ before + 1 \in 1..last
                             /\ item.match \in {{}, {"Else"}}

FormedRow(fn, row, built) ==
    /\ Len(row) \in Nat
    /\ \A i \in 1..Len(row) : Formed(fn, row[i], built[i], built[Len(row) + 1])

LEMMA ItemKinds ==
    /\ \A t : Word(t).call = "none" /\ Word(t).match = {t} /\ Only({t}) = t
    /\ \A S : Match(S).call = "none" /\ Match(S).match = S
    /\ \A g : Parse(g).call = g /\ Parse(g).match = {}
    /\ \A g : May(g).call = g /\ May(g).match = {}
    /\ \A t, g : After(t, g).call = g /\ After(t, g).match = {t} /\ {t} # {}
  BY OnlyOne DEF Word, Match, Parse, May, After

LEMMA WordFormed == ASSUME NEW t, NEW fn, NEW b, NEW n PROVE Formed(fn, Word(t), b, n)
  <1>1. Word(t).call = "none" /\ Word(t).match = {t} /\ Only({t}) = t BY ItemKinds
  <1>2. Word(t).match = {Only(Word(t).match)} BY <1>1, Zenon
  <1> QED BY <1>1, <1>2 DEF Formed

LEMMA RowsFormed == \A fn \in DOMAIN Row : FormedRow(fn, Row[fn], Built[fn])
  <1> USE DEF Expr, HoldsFrom
  <1>1. FormedRow("parseTrueExpr", parseTrueExpr, Built["parseTrueExpr"])
    <2>1. Formed("parseTrueExpr", Word("Literal_true"), 0, 0) BY WordFormed
    <2> HIDE DEF Expr
    <2> QED BY <2>1 DEF FormedRow, Built, parseTrueExpr
  <1>2. FormedRow("parseFalseExpr", parseFalseExpr, Built["parseFalseExpr"])
    <2>1. Formed("parseFalseExpr", Word("Literal_false"), 0, 0) BY WordFormed
    <2> HIDE DEF Expr
    <2> QED BY <2>1 DEF FormedRow, Built, parseFalseExpr
  <1>3. FormedRow("parseNumberExpr", parseNumberExpr, Built["parseNumberExpr"])
    <2>1. Formed("parseNumberExpr", Word("Number"), 0, 0) BY WordFormed
    <2> HIDE DEF Expr
    <2> QED BY <2>1 DEF FormedRow, Built, parseNumberExpr
  <1>4. FormedRow("parseIdentExpr", parseIdentExpr, Built["parseIdentExpr"])
    <2>1. Formed("parseIdentExpr", Word("Id"), 0, 0) BY WordFormed
    <2> HIDE DEF Expr
    <2> QED BY <2>1 DEF FormedRow, Built, parseIdentExpr
  <1>5. FormedRow("parseTernaryExpr", parseTernaryExpr, Built["parseTernaryExpr"])
    <2>1. Formed("parseTernaryExpr", Word("PL"), 0, 3) BY WordFormed
    <2>2. Formed("parseTernaryExpr", Expr, 0, 3) BY ItemKinds DEF Formed
    <2>3. Formed("parseTernaryExpr", Word("Op_question"), 1, 3) BY WordFormed
    <2>4. Formed("parseTernaryExpr", Expr, 1, 3) BY ItemKinds DEF Formed
    <2>5. Formed("parseTernaryExpr", Word("Op_colon"), 2, 3) BY WordFormed
    <2>6. Formed("parseTernaryExpr", May("parseExpr"), 2, 3) BY ItemKinds DEF Formed
    <2>7. Formed("parseTernaryExpr", Word("PR"), 3, 3) BY WordFormed
    <2> HIDE DEF Expr
    <2> QED BY <2>1, <2>2, <2>3, <2>4, <2>5, <2>6, <2>7 DEF FormedRow, Built, parseTernaryExpr
  <1>6. FormedRow("parseSizeofExpr", parseSizeofExpr, Built["parseSizeofExpr"])
    <2>1. Formed("parseSizeofExpr", Word("Sizeof"), 0, 1) BY WordFormed
    <2>2. Formed("parseSizeofExpr", Word("PL"), 0, 1) BY WordFormed
    <2>3. Formed("parseSizeofExpr", Expr, 0, 1) BY ItemKinds DEF Formed
    <2>4. Formed("parseSizeofExpr", Word("PR"), 1, 1) BY WordFormed
    <2> HIDE DEF Expr
    <2> QED BY <2>1, <2>2, <2>3, <2>4 DEF FormedRow, Built, parseSizeofExpr
  <1>7. FormedRow("parseInputExpr", parseInputExpr, Built["parseInputExpr"])
    <2>1. Formed("parseInputExpr", Word("Input"), 0, 0) BY WordFormed
    <2>2. Formed("parseInputExpr", Word("PL"), 0, 0) BY WordFormed
    <2>3. Formed("parseInputExpr", Word("PR"), 0, 0) BY WordFormed
    <2> HIDE DEF Expr
    <2> QED BY <2>1, <2>2, <2>3 DEF FormedRow, Built, parseInputExpr
  <1>8. FormedRow("parseArrayExpr", parseArrayExpr, Built["parseArrayExpr"])
    <2>1. Formed("parseArrayExpr", Word("Id"), 0, 1) BY WordFormed
    <2>2. Formed("parseArrayExpr", Word("SL"), 0, 1) BY WordFormed
    <2>3. Formed("parseArrayExpr", Expr, 0, 1) BY ItemKinds DEF Formed
    <2>4. Formed("parseArrayExpr", Word("SR"), 1, 1) BY WordFormed
    <2> HIDE DEF Expr
    <2> QED BY <2>1, <2>2, <2>3, <2>4 DEF FormedRow, Built, parseArrayExpr
  <1>9. FormedRow("parseFncallExpr", parseFncallExpr, Built["parseFncallExpr"])
    <2>1. Formed("parseFncallExpr", Word("Id"), 0, 1) BY WordFormed
    <2>2. Formed("parseFncallExpr", Parse("parseFnArgs"), 0, 1) BY ItemKinds DEF Formed
    <2> HIDE DEF Expr
    <2> QED BY <2>1, <2>2 DEF FormedRow, Built, parseFncallExpr
  <1>10. FormedRow("parseBinopExpr", parseBinopExpr, Built["parseBinopExpr"])
    <2>1. Formed("parseBinopExpr", Word("PL"), 0, 2) BY WordFormed
    <2>2. Formed("parseBinopExpr", Expr, 0, 2) BY ItemKinds DEF Formed
    <2>3. Formed("parseBinopExpr", Match(BinOps), 1, 2) BY ItemKinds DEF Formed
    <2>4. Formed("parseBinopExpr", Expr, 1, 2) BY ItemKinds DEF Formed
    <2>5. Formed("parseBinopExpr", Word("PR"), 2, 2) BY WordFormed
    <2> HIDE DEF Expr
    <2> QED BY <2>1, <2>2, <2>3, <2>4, <2>5 DEF FormedRow, Built, parseBinopExpr
  <1>11. FormedRow("parseUnaryopExpr", parseUnaryopExpr, Built["parseUnaryopExpr"])
    <2>1. Formed("parseUnaryopExpr", Word("PL"), 0, 1) BY WordFormed
    <2>2. Formed("parseUnaryopExpr", Match(UnaryOps), 0, 1) BY ItemKinds DEF Formed
    <2>3. Formed("parseUnaryopExpr", Expr, 0, 1) BY ItemKinds DEF Formed
    <2>4. Formed("parseUnaryopExpr", Word("PR"), 1, 1) BY WordFormed
    <2> HIDE DEF Expr
    <2> QED BY <2>1, <2>2, <2>3, <2>4 DEF FormedRow, Built, parseUnaryopExpr
  <1>12. FormedRow("parseVarAssignment", parseVarAssignment, Built["parseVarAssignment"])
    <2>1. Formed("parseVarAssignment", Word("Id"), 0, 1) BY WordFormed
    <2>2. Formed("parseVarAssignment", Word("Op_assignment"), 0, 1) BY WordFormed
    <2>3. Formed("parseVarAssignment", Expr, 0, 1) BY ItemKinds DEF Formed
    <2> HIDE DEF Expr
    <2> QED BY <2>1, <2>2, <2>3 DEF FormedRow, Built, parseVarAssignment
  <1>13. FormedRow("parseArrayAssignment", parseArrayAssignment, Built["parseArrayAssignment"])
    <2>1. Formed("parseArrayAssignment", Word("Id"), 0, 2) BY WordFormed
    <2>2. Formed("parseArrayAssignment", Word("SL"), 0, 2) BY WordFormed
    <2>3. Formed("parseArrayAssignment", Expr, 0, 2) BY ItemKinds DEF Formed
    <2>4. Formed("parseArrayAssignment", Word("SR"), 1, 2) BY WordFormed
    <2>5. Formed("parseArrayAssignment", Word("Op_assignment"), 1, 2) BY WordFormed
    <2>6. Formed("parseArrayAssignment", Expr, 1, 2) BY ItemKinds DEF Formed
    <2> HIDE DEF Expr
    <2> QED BY <2>1, <2>2, <2>3, <2>4, <2>5, <2>6 DEF FormedRow, Built, parseArrayAssignment
  <1>14. FormedRow("parsePrintStmt", parsePrintStmt, Built["parsePrintStmt"])
    <2>1. Formed("parsePrintStmt", Word("Print"), 0, 1) BY WordFormed
    <2>2. Formed("parsePrintStmt", Parse("parseStringOrExprArgs"), 0, 1) BY ItemKinds DEF Formed
    <2> HIDE DEF Expr
    <2> QED BY <2>1, <2>2 DEF FormedRow, Built, parsePrintStmt
  <1>15. FormedRow("parseAbortStmt", parseAbortStmt, Built["parseAbortStmt"])
    <2>1. Formed("parseAbortStmt", Word("Abort"), 0, 1) BY WordFormed
    <2>2. Formed("parseAbortStmt", Parse("parseStringOrExprArgs"), 0, 1) BY ItemKinds DEF Formed
    <2> HIDE DEF Expr
    <2> QED BY <2>1, <2>2 DEF FormedRow, Built, parseAbortStmt
  <1>16. FormedRow("parseIfStmt", parseIfStmt, Built["parseIfStmt"])
    <2>1. Formed("parseIfStmt", Word("If"), 0, 3) BY WordFormed
    <2>2. Formed("parseIfStmt", Word("PL"), 0, 3) BY WordFormed
    <2>3. Formed("parseIfStmt", May("parseExpr"), 0, 3) BY ItemKinds DEF Formed
    <2>4. Formed("parseIfStmt", Word("PR"), 1, 3) BY WordFormed
    <2>5. Formed("parseIfStmt", May("parseStmtBlock"), 1, 3) BY ItemKinds DEF Formed
    <2>6. Formed("parseIfStmt", After("Else", "parseStmtBlock"), 2, 3) BY ItemKinds DEF Formed
    <2> HIDE DEF Expr
    <2> QED BY <2>1, <2>2, <2>3, <2>4, <2>5, <2>6 DEF FormedRow, Built, parseIfStmt
  <1>17. FormedRow("parseWhileStmt", parseWhileStmt, Built["parseWhileStmt"])
    <2>1. Formed("parseWhileStmt", Word("While"), 0, 2) BY WordFormed
    <2>2. Formed("parseWhileStmt", Word("PL"), 0, 2) BY WordFormed
    <2>3. Formed("parseWhileStmt", Expr, 0, 2) BY ItemKinds DEF Formed
    <2>4. Formed("parseWhileStmt", Word("PR"), 1, 2) BY WordFormed
    <2>5. Formed("parseWhileStmt", Parse("parseStmtBlock"), 1, 2) BY ItemKinds DEF Formed
    <2> HIDE DEF Expr
    <2> QED BY <2>1, <2>2, <2>3, <2>4, <2>5 DEF FormedRow, Built, parseWhileStmt
  <1>18. FormedRow("parseForStmt", parseForStmt, Built["parseForStmt"])
    <2>1. Formed("parseForStmt", Word("For"), 0, 3) BY WordFormed
    <2>2. Formed("parseForStmt", Word("PL"), 0, 3) BY WordFormed
    <2>3. Formed("parseForStmt", Expr, 0, 3) BY ItemKinds DEF Formed
    <2>4. Formed("parseForStmt", Word("Op_colon"), 1, 3) BY WordFormed
    <2>5. Formed("parseForStmt", Expr, 1, 3) BY ItemKinds DEF Formed
    <2>6. Formed("parseForStmt", Word("PR"), 2, 3) BY WordFormed
    <2>7. Formed("parseForStmt", Parse("parseStmtBlock"), 2, 3) BY ItemKinds DEF Formed
    <2> HIDE DEF Expr
    <2> QED BY <2>1, <2>2, <2>3, <2>4, <2>5, <2>6, <2>7 DEF FormedRow, Built, parseForStmt
  <1>19. FormedRow("parseReturnStmt", parseReturnStmt, Built["parseReturnStmt"])
    <2>1. Formed("parseReturnStmt", Word("Return"), 0, 1) BY WordFormed
    <2>2. Formed("parseReturnStmt", May("parseExpr"), 0, 1) BY ItemKinds DEF Formed
    <2> HIDE DEF Expr
    <2> QED BY <2>1, <2>2 DEF FormedRow, Built, parseReturnStmt
  <1>20. FormedRow("parseFnDef", parseFnDef, Built["parseFnDef"])
    <2>1. Formed("parseFnDef", Match(TypeTokens), 0, 2) BY ItemKinds DEF Formed
    <2>2. Formed("parseFnDef", Word("Id"), 0, 2) BY WordFormed
    <2>3. Formed("parseFnDef", Parse("parseFnParams"), 0, 2) BY ItemKinds DEF Formed
    <2>4. Formed("parseFnDef", Parse("parseStmtBlock"), 1, 2) BY ItemKinds DEF Formed
    <2> HIDE DEF Expr
    <2> QED BY <2>1, <2>2, <2>3, <2>4 DEF FormedRow, Built, parseFnDef
  <1> QED
    BY <1>1, <1>2, <1>3, <1>4, <1>5, <1>6, <1>7, <1>8, <1>9, <1>10, <1>11, <1>12, <1>13, <1>14,
       <1>15, <1>16, <1>17, <1>18, <1>19, <1>20 DEF Row

(* Filled, the pieces are what the items say.                              *)
LEMMA PieceFilled ==
    ASSUME NEW fn, NEW op, NEW kids, RowKids(fn, op, kids), NEW i \in 1..Len(Row[fn])
    PROVE  /\ Piece(fn, i, op, kids) \in GoodTexts
           /\ Fill(Piece(fn, i, op, kids)) = ItemText(fn, i, op, kids)
  <1> DEFINE item == Row[fn][i]
             node == kids[Built[fn][i] + 1]
  <1>1. /\ Formed(fn, item, Built[fn][i], Len(kids)) /\ kids \in Seq(GoodTexts)
        /\ Adds(fn, item, i, Built[fn][i], Built[fn][i + 1])
    BY RowsFormed, RowsFit DEF FormedRow, RowKids, Fits
  <1> HIDE DEF item
  <1>2. CASE item.call = "none"
    <2> DEFINE t == IF item.match = {Only(item.match)} THEN Only(item.match) ELSE op
    <2>1. t \in Tokens
      <3>1. CASE item.match = {Only(item.match)} BY <1>1, <3>1 DEF Adds
      <3>2. CASE item.match # {Only(item.match)} BY <1>1, <1>2, <3>2 DEF Formed, RowKids
      <3> QED BY <3>1, <3>2
    <2>2. Piece(fn, i, op, kids) = <<t>> /\ ItemText(fn, i, op, kids) = <<t>>
      BY <1>2 DEF Piece, ItemText, item
    <2> HIDE DEF t
    <2> QED BY <2>1, <2>2, FillToken
  <1>3. CASE item.call # "none"
    <2>1. node \in GoodTexts BY <1>1, <1>3, ElementOfSeq DEF Formed
    <2>2. item.match = {} \/ item.match = {"Else"} BY <1>1, <1>3 DEF Formed
    <2>3. CASE item.match = {}
      <3>1. CASE fn = "parseReturnStmt"
        <4>1. Piece(fn, i, op, kids) = node /\ ItemText(fn, i, op, kids) = Fill(node)
          BY <1>3, <2>3, <3>1 DEF Piece, ItemText, item
        <4> QED BY <2>1, <4>1
      <3>2. CASE fn # "parseReturnStmt"
        <4>1. Piece(fn, i, op, kids) = Or(node, fn) /\ ItemText(fn, i, op, kids) = Fill(node)
          BY <1>3, <2>3, <3>2 DEF Piece, ItemText, item
        <4>2. node # Null \/ fn \in {"parseFnArgs", "parseIfStmt", "parseTernaryExpr", "parseArrayDecls"}
          <5>1. fn # "parseProgram" BY DEF RowKids, Row
          <5> QED BY <1>1, <1>3, <3>2, <5>1 DEF RowKids, KeepsNull, Formed
        <4> HIDE DEF node
        <4> QED BY <2>1, <4>1, <4>2, FillOr
      <3> QED BY <3>1, <3>2
    <2>4. CASE item.match = {"Else"}
      <3>1. "Else" \in Tokens /\ Only({"Else"}) = "Else" /\ {"Else"} # {} BY WordsOfTexts, OnlyOne
      <3>2. /\ Piece(fn, i, op, kids) = IF node = Null THEN <<>> ELSE <<"Else">> \o node
            /\ ItemText(fn, i, op, kids) = IF node = Null THEN <<>> ELSE <<"Else">> \o Fill(node)
        BY <1>3, <2>4, <3>1 DEF Piece, ItemText, item
      <3>3. <<"Else">> \in GoodTexts /\ Fill(<<"Else">>) = <<"Else">> BY <3>1, FillToken
      <3> HIDE DEF node
      <3>4. CASE node = Null
        <4>1. <<>> \in GoodTexts /\ Fill(<<>>) = <<>> BY TextsJoin, FillGood
        <4> QED BY <3>2, <3>4, <4>1
      <3>5. CASE node # Null
        <4>1. Fill(<<"Else">> \o node) = Fill(<<"Else">>) \o Fill(node) BY <2>1, <3>3, FillJoin
        <4>2. <<"Else">> \o node \in GoodTexts BY <2>1, <3>3, TextsJoin
        <4> QED BY <3>2, <3>3, <3>5, <4>1, <4>2
      <3> QED BY <3>4, <3>5
    <2> QED BY <2>2, <2>3, <2>4
  <1> QED BY <1>2, <1>3

LEMMA PiecesFilled ==
    ASSUME NEW fn, NEW op, NEW kids, RowKids(fn, op, kids)
    PROVE  /\ Pieces(fn, op, kids) \in Seq(GoodTexts) /\ Len(Pieces(fn, op, kids)) = Len(Row[fn])
           /\ \A i \in 1..Len(Row[fn]) : Pieces(fn, op, kids)[i] = Piece(fn, i, op, kids)
           /\ Fill(Run(Pieces(fn, op, kids))) = RowText(fn, op, kids)
  <1> DEFINE N == Len(Row[fn])
             P == Pieces(fn, op, kids)
             X == [i \in 1..N |-> ItemText(fn, i, op, kids)]
  <1>1. N \in Nat BY RowsFit DEF RowKids, Fits
  <1>2. \A i \in 1..N : P[i] = Piece(fn, i, op, kids) /\ P[i] \in GoodTexts
    BY PieceFilled DEF Pieces
  <1>3. P \in [1..N -> GoodTexts] BY <1>2 DEF Pieces
  <1>4. P \in Seq(GoodTexts) /\ Len(P) = N
    <2> HIDE DEF P, N
    <2> QED BY <1>1, <1>3, SeqOfLength
  <1>5. Fills(P) = X
    <2>1. DOMAIN P = 1..N BY <1>3
    <2>2. \A i \in 1..N : Fill(P[i]) = ItemText(fn, i, op, kids) BY <1>2, PieceFilled
    <2> HIDE DEF P, N
    <2> QED BY <2>1, <2>2 DEF Fills
  <1>6. Fill(Run(P)) = Run(Fills(P))
    <2> HIDE DEF P
    <2> QED BY <1>4, FillRun
  <1> QED BY <1>2, <1>4, <1>5, <1>6 DEF RowText

LEMMA WordPiece ==
    ASSUME NEW fn, NEW i, NEW op, NEW kids, NEW t, Row[fn][i] = Word(t)
    PROVE  Piece(fn, i, op, kids) = <<t>>
  <1>1. Word(t).call = "none" /\ Word(t).match = {t} /\ Only({t}) = t BY ItemKinds
  <1>2. Row[fn][i].call = "none" /\ Row[fn][i].match = {t} /\ Only(Row[fn][i].match) = t
    BY <1>1, Zenon
  <1> QED BY <1>2, Zenon DEF Piece

LEMMA KindPiece ==
    ASSUME NEW fn, NEW i, NEW op, NEW kids, NEW S, Row[fn][i] = Match(S), \A t : S # {t}
    PROVE  Piece(fn, i, op, kids) = <<op>>
  <1>1. Row[fn][i].call = "none" /\ Row[fn][i].match = S BY ItemKinds, Zenon
  <1>2. Row[fn][i].match # {Only(Row[fn][i].match)} BY <1>1, Zenon
  <1> QED BY <1>1, <1>2, Zenon DEF Piece

(* Together, the pieces are the text.                                      *)
LEMMA TextOfPieces ==
    ASSUME NEW fn, NEW op, NEW kids, RowKids(fn, op, kids)
    PROVE  Text(fn, op, kids) = Run(Pieces(fn, op, kids))
  <1> DEFINE X == Pieces(fn, op, kids)
             k == [i \in DOMAIN kids |-> Or(kids[i], fn)]
  <1>1. /\ X \in Seq(GoodTexts) /\ Len(X) = Len(Row[fn])
        /\ \A i \in 1..Len(Row[fn]) : X[i] = Piece(fn, i, op, kids)
    BY PiecesFilled
  <1>2. X \in Seq(Seq(Tokens \cup KnownHoles)) BY <1>1 DEF GoodTexts
  <1>3. \A i \in 1..Len(kids) : k[i] = Or(kids[i], fn) BY LenProperties DEF RowKids
  <1>4. \A t : TypeTokens # {t} /\ BinOps # {t} /\ UnaryOps # {t}
    BY DEF TypeTokens, BinOps, UnaryOps
  <1>5. CASE fn = "parseTrueExpr"
    <2>0. Row[fn] = parseTrueExpr /\ Built[fn] = <<0, 0>> BY <1>5 DEF Row, Built
    <2>1. Text(fn, op, kids) = <<"Literal_true">> BY <1>5 DEF Text
    <2>2. Len(Row[fn]) = 1 /\ Len(kids) = 0 BY <1>5, <2>0 DEF RowKids, parseTrueExpr
    <2>3. X[1] = <<"Literal_true">>
      <3>1. Row[fn][1] = Word("Literal_true") /\ 1 \in 1..1 BY <2>0 DEF parseTrueExpr
      <3> QED BY <1>1, <2>2, <3>1, WordPiece
    <2> HIDE DEF X, k
    <2>4. X[1] \in GoodTexts
      <3>1. 1 \in 1..Len(X) BY <1>1, <2>2
      <3> QED BY <1>1, <3>1, ElementOfSeq
    <2>5. Run(X) = X[1] BY <1>1, <1>2, <2>2, RunOf1
    <2> QED BY <2>1, <2>3, <2>5, Zenon DEF X
  <1>6. CASE fn = "parseFalseExpr"
    <2>0. Row[fn] = parseFalseExpr /\ Built[fn] = <<0, 0>> BY <1>6 DEF Row, Built
    <2>1. Text(fn, op, kids) = <<"Literal_false">> BY <1>6 DEF Text
    <2>2. Len(Row[fn]) = 1 /\ Len(kids) = 0 BY <1>6, <2>0 DEF RowKids, parseFalseExpr
    <2>3. X[1] = <<"Literal_false">>
      <3>1. Row[fn][1] = Word("Literal_false") /\ 1 \in 1..1 BY <2>0 DEF parseFalseExpr
      <3> QED BY <1>1, <2>2, <3>1, WordPiece
    <2> HIDE DEF X, k
    <2>4. X[1] \in GoodTexts
      <3>1. 1 \in 1..Len(X) BY <1>1, <2>2
      <3> QED BY <1>1, <3>1, ElementOfSeq
    <2>5. Run(X) = X[1] BY <1>1, <1>2, <2>2, RunOf1
    <2> QED BY <2>1, <2>3, <2>5, Zenon DEF X
  <1>7. CASE fn = "parseNumberExpr"
    <2>0. Row[fn] = parseNumberExpr /\ Built[fn] = <<0, 0>> BY <1>7 DEF Row, Built
    <2>1. Text(fn, op, kids) = <<"Number">> BY <1>7 DEF Text
    <2>2. Len(Row[fn]) = 1 /\ Len(kids) = 0 BY <1>7, <2>0 DEF RowKids, parseNumberExpr
    <2>3. X[1] = <<"Number">>
      <3>1. Row[fn][1] = Word("Number") /\ 1 \in 1..1 BY <2>0 DEF parseNumberExpr
      <3> QED BY <1>1, <2>2, <3>1, WordPiece
    <2> HIDE DEF X, k
    <2>4. X[1] \in GoodTexts
      <3>1. 1 \in 1..Len(X) BY <1>1, <2>2
      <3> QED BY <1>1, <3>1, ElementOfSeq
    <2>5. Run(X) = X[1] BY <1>1, <1>2, <2>2, RunOf1
    <2> QED BY <2>1, <2>3, <2>5, Zenon DEF X
  <1>8. CASE fn = "parseIdentExpr"
    <2>0. Row[fn] = parseIdentExpr /\ Built[fn] = <<0, 0>> BY <1>8 DEF Row, Built
    <2>1. Text(fn, op, kids) = <<"Id">> BY <1>8 DEF Text
    <2>2. Len(Row[fn]) = 1 /\ Len(kids) = 0 BY <1>8, <2>0 DEF RowKids, parseIdentExpr
    <2>3. X[1] = <<"Id">>
      <3>1. Row[fn][1] = Word("Id") /\ 1 \in 1..1 BY <2>0 DEF parseIdentExpr
      <3> QED BY <1>1, <2>2, <3>1, WordPiece
    <2> HIDE DEF X, k
    <2>4. X[1] \in GoodTexts
      <3>1. 1 \in 1..Len(X) BY <1>1, <2>2
      <3> QED BY <1>1, <3>1, ElementOfSeq
    <2>5. Run(X) = X[1] BY <1>1, <1>2, <2>2, RunOf1
    <2> QED BY <2>1, <2>3, <2>5, Zenon DEF X
  <1>9. CASE fn = "parseTernaryExpr"
    <2>0. Row[fn] = parseTernaryExpr /\ Built[fn] = <<0, 0, 1, 1, 2, 2, 3, 3>>
      BY <1>9 DEF Row, Built
    <2>1. Text(fn, op, kids) = Paren(k[1] \o <<"Op_question">> \o k[2] \o <<"Op_colon">> \o k[3])
      BY <1>9 DEF Text
    <2>2. Len(Row[fn]) = 7 /\ Len(kids) = 3 BY <1>9, <2>0 DEF RowKids, parseTernaryExpr
    <2>3. X[1] = <<"PL">>
      <3>1. Row[fn][1] = Word("PL") /\ 1 \in 1..7 BY <2>0 DEF parseTernaryExpr
      <3> QED BY <1>1, <2>2, <3>1, WordPiece
    <2>4. X[2] = k[1]
      <3>1. Row[fn][2] = Expr /\ 2 \in 1..7 /\ Built[fn][2] + 1 = 1 BY <2>0 DEF parseTernaryExpr
      <3>2. Row[fn][2].call = "parseExpr" /\ Row[fn][2].match = {} BY <3>1, ItemKinds DEF Expr
      <3>3. 1 \in 1..Len(kids) BY <2>2
      <3> QED BY <1>1, <1>3, <1>9, <2>2, <3>1, <3>2, <3>3 DEF Piece
    <2>5. X[3] = <<"Op_question">>
      <3>1. Row[fn][3] = Word("Op_question") /\ 3 \in 1..7 BY <2>0 DEF parseTernaryExpr
      <3> QED BY <1>1, <2>2, <3>1, WordPiece
    <2>6. X[4] = k[2]
      <3>1. Row[fn][4] = Expr /\ 4 \in 1..7 /\ Built[fn][4] + 1 = 2 BY <2>0 DEF parseTernaryExpr
      <3>2. Row[fn][4].call = "parseExpr" /\ Row[fn][4].match = {} BY <3>1, ItemKinds DEF Expr
      <3>3. 2 \in 1..Len(kids) BY <2>2
      <3> QED BY <1>1, <1>3, <1>9, <2>2, <3>1, <3>2, <3>3 DEF Piece
    <2>7. X[5] = <<"Op_colon">>
      <3>1. Row[fn][5] = Word("Op_colon") /\ 5 \in 1..7 BY <2>0 DEF parseTernaryExpr
      <3> QED BY <1>1, <2>2, <3>1, WordPiece
    <2>8. X[6] = k[3]
      <3>1. Row[fn][6] = May("parseExpr") /\ 6 \in 1..7 /\ Built[fn][6] + 1 = 3
        BY <2>0 DEF parseTernaryExpr
      <3>2. Row[fn][6].call = "parseExpr" /\ Row[fn][6].match = {} BY <3>1, ItemKinds
      <3>3. 3 \in 1..Len(kids) BY <2>2
      <3> QED BY <1>1, <1>3, <1>9, <2>2, <3>1, <3>2, <3>3 DEF Piece
    <2>9. X[7] = <<"PR">>
      <3>1. Row[fn][7] = Word("PR") /\ 7 \in 1..7 BY <2>0 DEF parseTernaryExpr
      <3> QED BY <1>1, <2>2, <3>1, WordPiece
    <2> HIDE DEF X, k
    <2> DEFINE x1 == X[1] x2 == X[2] x3 == X[3] x4 == X[4] x5 == X[5] x6 == X[6] x7 == X[7]
    <2>10. x1 \in GoodTexts /\ x2 \in GoodTexts /\ x3 \in GoodTexts /\ x4 \in GoodTexts
             /\ x5 \in GoodTexts /\ x6 \in GoodTexts /\ x7 \in GoodTexts
      <3>1. 1 \in 1..Len(X) /\ 2 \in 1..Len(X) /\ 3 \in 1..Len(X) /\ 4 \in 1..Len(X)
              /\ 5 \in 1..Len(X) /\ 6 \in 1..Len(X) /\ 7 \in 1..Len(X)
        BY <1>1, <2>2
      <3> QED BY <1>1, <3>1, ElementOfSeq
    <2>11. Run(X) = X[1] \o X[2] \o X[3] \o X[4] \o X[5] \o X[6] \o X[7] BY <1>1, <1>2, <2>2, RunOf7
    <2> HIDE DEF x1, x2, x3, x4, x5, x6, x7
    <2>12. Assoc6(x1, x2, x3, x4, x5, x6) BY <2>10, Flat6
    <2> QED
      BY <2>1, <2>3, <2>4, <2>5, <2>6, <2>7, <2>8, <2>9, <2>11, <2>12, Zenon DEF X, Paren, Assoc6,
         x1, x2, x3, x4, x5, x6, x7
  <1>10. CASE fn = "parseSizeofExpr"
    <2>0. Row[fn] = parseSizeofExpr /\ Built[fn] = <<0, 0, 0, 1, 1>> BY <1>10 DEF Row, Built
    <2>1. Text(fn, op, kids) = <<"Sizeof">> \o Paren(k[1]) BY <1>10 DEF Text
    <2>2. Len(Row[fn]) = 4 /\ Len(kids) = 1 BY <1>10, <2>0 DEF RowKids, parseSizeofExpr
    <2>3. X[1] = <<"Sizeof">>
      <3>1. Row[fn][1] = Word("Sizeof") /\ 1 \in 1..4 BY <2>0 DEF parseSizeofExpr
      <3> QED BY <1>1, <2>2, <3>1, WordPiece
    <2>4. X[2] = <<"PL">>
      <3>1. Row[fn][2] = Word("PL") /\ 2 \in 1..4 BY <2>0 DEF parseSizeofExpr
      <3> QED BY <1>1, <2>2, <3>1, WordPiece
    <2>5. X[3] = k[1]
      <3>1. Row[fn][3] = Expr /\ 3 \in 1..4 /\ Built[fn][3] + 1 = 1 BY <2>0 DEF parseSizeofExpr
      <3>2. Row[fn][3].call = "parseExpr" /\ Row[fn][3].match = {} BY <3>1, ItemKinds DEF Expr
      <3>3. 1 \in 1..Len(kids) BY <2>2
      <3> QED BY <1>1, <1>3, <1>10, <2>2, <3>1, <3>2, <3>3 DEF Piece
    <2>6. X[4] = <<"PR">>
      <3>1. Row[fn][4] = Word("PR") /\ 4 \in 1..4 BY <2>0 DEF parseSizeofExpr
      <3> QED BY <1>1, <2>2, <3>1, WordPiece
    <2> HIDE DEF X, k
    <2> DEFINE x1 == X[1] x2 == X[2] x3 == X[3] x4 == X[4]
    <2>7. x1 \in GoodTexts /\ x2 \in GoodTexts /\ x3 \in GoodTexts /\ x4 \in GoodTexts
      <3>1. 1 \in 1..Len(X) /\ 2 \in 1..Len(X) /\ 3 \in 1..Len(X) /\ 4 \in 1..Len(X) BY <1>1, <2>2
      <3> QED BY <1>1, <3>1, ElementOfSeq
    <2>8. Run(X) = X[1] \o X[2] \o X[3] \o X[4] BY <1>1, <1>2, <2>2, RunOf4
    <2> HIDE DEF x1, x2, x3, x4
    <2>9. Assoc4(x1, x2, x3, x4) BY <2>7, Flat4
    <2> QED BY <2>1, <2>3, <2>4, <2>5, <2>6, <2>8, <2>9, Zenon DEF X, Paren, Assoc4, x1, x2, x3, x4
  <1>11. CASE fn = "parseInputExpr"
    <2>0. Row[fn] = parseInputExpr /\ Built[fn] = <<0, 0, 0, 0>> BY <1>11 DEF Row, Built
    <2>1. Text(fn, op, kids) = <<"Input", "PL", "PR">> BY <1>11 DEF Text
    <2>2. Len(Row[fn]) = 3 /\ Len(kids) = 0 BY <1>11, <2>0 DEF RowKids, parseInputExpr
    <2>3. X[1] = <<"Input">>
      <3>1. Row[fn][1] = Word("Input") /\ 1 \in 1..3 BY <2>0 DEF parseInputExpr
      <3> QED BY <1>1, <2>2, <3>1, WordPiece
    <2>4. X[2] = <<"PL">>
      <3>1. Row[fn][2] = Word("PL") /\ 2 \in 1..3 BY <2>0 DEF parseInputExpr
      <3> QED BY <1>1, <2>2, <3>1, WordPiece
    <2>5. X[3] = <<"PR">>
      <3>1. Row[fn][3] = Word("PR") /\ 3 \in 1..3 BY <2>0 DEF parseInputExpr
      <3> QED BY <1>1, <2>2, <3>1, WordPiece
    <2> HIDE DEF X, k
    <2>6. X[1] \in GoodTexts /\ X[2] \in GoodTexts /\ X[3] \in GoodTexts
      <3>1. 1 \in 1..Len(X) /\ 2 \in 1..Len(X) /\ 3 \in 1..Len(X) BY <1>1, <2>2
      <3> QED BY <1>1, <3>1, ElementOfSeq
    <2>7. Run(X) = X[1] \o X[2] \o X[3] BY <1>1, <1>2, <2>2, RunOf3
    <2>8. <<"Input", "PL", "PR">> = <<"Input">> \o <<"PL">> \o <<"PR">> OBVIOUS
    <2> QED BY <2>1, <2>3, <2>4, <2>5, <2>7, <2>8, Zenon DEF X
  <1>12. CASE fn = "parseArrayExpr"
    <2>0. Row[fn] = parseArrayExpr /\ Built[fn] = <<0, 0, 0, 1, 1>> BY <1>12 DEF Row, Built
    <2>1. Text(fn, op, kids) = ArrayText("Id", k[1]) BY <1>12 DEF Text
    <2>2. Len(Row[fn]) = 4 /\ Len(kids) = 1 BY <1>12, <2>0 DEF RowKids, parseArrayExpr
    <2>3. X[1] = <<"Id">>
      <3>1. Row[fn][1] = Word("Id") /\ 1 \in 1..4 BY <2>0 DEF parseArrayExpr
      <3> QED BY <1>1, <2>2, <3>1, WordPiece
    <2>4. X[2] = <<"SL">>
      <3>1. Row[fn][2] = Word("SL") /\ 2 \in 1..4 BY <2>0 DEF parseArrayExpr
      <3> QED BY <1>1, <2>2, <3>1, WordPiece
    <2>5. X[3] = k[1]
      <3>1. Row[fn][3] = Expr /\ 3 \in 1..4 /\ Built[fn][3] + 1 = 1 BY <2>0 DEF parseArrayExpr
      <3>2. Row[fn][3].call = "parseExpr" /\ Row[fn][3].match = {} BY <3>1, ItemKinds DEF Expr
      <3>3. 1 \in 1..Len(kids) BY <2>2
      <3> QED BY <1>1, <1>3, <1>12, <2>2, <3>1, <3>2, <3>3 DEF Piece
    <2>6. X[4] = <<"SR">>
      <3>1. Row[fn][4] = Word("SR") /\ 4 \in 1..4 BY <2>0 DEF parseArrayExpr
      <3> QED BY <1>1, <2>2, <3>1, WordPiece
    <2> HIDE DEF X, k
    <2>7. X[1] \in GoodTexts /\ X[2] \in GoodTexts /\ X[3] \in GoodTexts /\ X[4] \in GoodTexts
      <3>1. 1 \in 1..Len(X) /\ 2 \in 1..Len(X) /\ 3 \in 1..Len(X) /\ 4 \in 1..Len(X) BY <1>1, <2>2
      <3> QED BY <1>1, <3>1, ElementOfSeq
    <2>8. Run(X) = X[1] \o X[2] \o X[3] \o X[4] BY <1>1, <1>2, <2>2, RunOf4
    <2>9. <<"Id", "SL">> = <<"Id">> \o <<"SL">> OBVIOUS
    <2>10. Or(k[1], "parseArrayDecls") = k[1]
      <3>1. 1 \in 1..Len(kids) BY <2>2
      <3>2. kids[1] # Null BY <1>12, <3>1 DEF RowKids, KeepsNull
      <3> QED BY <1>3, <3>1, <3>2 DEF Or, Null, k
    <2> QED BY <2>1, <2>3, <2>4, <2>5, <2>6, <2>8, <2>9, <2>10, Zenon DEF X, ArrayText
  <1>13. CASE fn = "parseFncallExpr"
    <2>0. Row[fn] = parseFncallExpr /\ Built[fn] = <<0, 0, 1>> BY <1>13 DEF Row, Built
    <2>1. Text(fn, op, kids) = <<"Id">> \o k[1] BY <1>13 DEF Text
    <2>2. Len(Row[fn]) = 2 /\ Len(kids) = 1 BY <1>13, <2>0 DEF RowKids, parseFncallExpr
    <2>3. X[1] = <<"Id">>
      <3>1. Row[fn][1] = Word("Id") /\ 1 \in 1..2 BY <2>0 DEF parseFncallExpr
      <3> QED BY <1>1, <2>2, <3>1, WordPiece
    <2>4. X[2] = k[1]
      <3>1. Row[fn][2] = Parse("parseFnArgs") /\ 2 \in 1..2 /\ Built[fn][2] + 1 = 1
        BY <2>0 DEF parseFncallExpr
      <3>2. Row[fn][2].call = "parseFnArgs" /\ Row[fn][2].match = {} BY <3>1, ItemKinds
      <3>3. 1 \in 1..Len(kids) BY <2>2
      <3> QED BY <1>1, <1>3, <1>13, <2>2, <3>1, <3>2, <3>3 DEF Piece
    <2> HIDE DEF X, k
    <2>5. X[1] \in GoodTexts /\ X[2] \in GoodTexts
      <3>1. 1 \in 1..Len(X) /\ 2 \in 1..Len(X) BY <1>1, <2>2
      <3> QED BY <1>1, <3>1, ElementOfSeq
    <2>6. Run(X) = X[1] \o X[2] BY <1>1, <1>2, <2>2, RunOf2
    <2> QED BY <2>1, <2>3, <2>4, <2>6, Zenon DEF X
  <1>14. CASE fn = "parseBinopExpr"
    <2>0. Row[fn] = parseBinopExpr /\ Built[fn] = <<0, 0, 1, 1, 2, 2>> BY <1>14 DEF Row, Built
    <2>1. Text(fn, op, kids) = Paren(k[1] \o <<op>> \o k[2]) BY <1>14 DEF Text
    <2>2. Len(Row[fn]) = 5 /\ Len(kids) = 2 BY <1>14, <2>0 DEF RowKids, parseBinopExpr
    <2>3. X[1] = <<"PL">>
      <3>1. Row[fn][1] = Word("PL") /\ 1 \in 1..5 BY <2>0 DEF parseBinopExpr
      <3> QED BY <1>1, <2>2, <3>1, WordPiece
    <2>4. X[2] = k[1]
      <3>1. Row[fn][2] = Expr /\ 2 \in 1..5 /\ Built[fn][2] + 1 = 1 BY <2>0 DEF parseBinopExpr
      <3>2. Row[fn][2].call = "parseExpr" /\ Row[fn][2].match = {} BY <3>1, ItemKinds DEF Expr
      <3>3. 1 \in 1..Len(kids) BY <2>2
      <3> QED BY <1>1, <1>3, <1>14, <2>2, <3>1, <3>2, <3>3 DEF Piece
    <2>5. X[3] = <<op>>
      <3>1. Row[fn][3] = Match(BinOps) /\ 3 \in 1..5 BY <2>0 DEF parseBinopExpr
      <3>2. \A t : BinOps # {t} BY <1>4
      <3>3. Piece(fn, 3, op, kids) = <<op>> BY <3>1, <3>2, KindPiece, Zenon
      <3> QED BY <1>1, <2>2, <3>1, <3>3
    <2>6. X[4] = k[2]
      <3>1. Row[fn][4] = Expr /\ 4 \in 1..5 /\ Built[fn][4] + 1 = 2 BY <2>0 DEF parseBinopExpr
      <3>2. Row[fn][4].call = "parseExpr" /\ Row[fn][4].match = {} BY <3>1, ItemKinds DEF Expr
      <3>3. 2 \in 1..Len(kids) BY <2>2
      <3> QED BY <1>1, <1>3, <1>14, <2>2, <3>1, <3>2, <3>3 DEF Piece
    <2>7. X[5] = <<"PR">>
      <3>1. Row[fn][5] = Word("PR") /\ 5 \in 1..5 BY <2>0 DEF parseBinopExpr
      <3> QED BY <1>1, <2>2, <3>1, WordPiece
    <2> HIDE DEF X, k
    <2> DEFINE x1 == X[1] x2 == X[2] x3 == X[3] x4 == X[4] x5 == X[5]
    <2>8. x1 \in GoodTexts /\ x2 \in GoodTexts /\ x3 \in GoodTexts
            /\ x4 \in GoodTexts /\ x5 \in GoodTexts
      <3>1. 1 \in 1..Len(X) /\ 2 \in 1..Len(X) /\ 3 \in 1..Len(X) /\ 4 \in 1..Len(X) /\ 5 \in 1..Len(X)
        BY <1>1, <2>2
      <3> QED BY <1>1, <3>1, ElementOfSeq
    <2>9. Run(X) = X[1] \o X[2] \o X[3] \o X[4] \o X[5] BY <1>1, <1>2, <2>2, RunOf5
    <2> HIDE DEF x1, x2, x3, x4, x5
    <2>10. Assoc4(x1, x2, x3, x4) BY <2>8, Flat4
    <2> QED
      BY <2>1, <2>3, <2>4, <2>5, <2>6, <2>7, <2>9, <2>10, Zenon DEF X, Paren, Assoc4, x1, x2, x3,
         x4, x5
  <1>15. CASE fn = "parseUnaryopExpr"
    <2>0. Row[fn] = parseUnaryopExpr /\ Built[fn] = <<0, 0, 0, 1, 1>> BY <1>15 DEF Row, Built
    <2>1. Text(fn, op, kids) = Paren(<<op>> \o k[1]) BY <1>15 DEF Text
    <2>2. Len(Row[fn]) = 4 /\ Len(kids) = 1 BY <1>15, <2>0 DEF RowKids, parseUnaryopExpr
    <2>3. X[1] = <<"PL">>
      <3>1. Row[fn][1] = Word("PL") /\ 1 \in 1..4 BY <2>0 DEF parseUnaryopExpr
      <3> QED BY <1>1, <2>2, <3>1, WordPiece
    <2>4. X[2] = <<op>>
      <3>1. Row[fn][2] = Match(UnaryOps) /\ 2 \in 1..4 BY <2>0 DEF parseUnaryopExpr
      <3>2. \A t : UnaryOps # {t} BY <1>4
      <3>3. Piece(fn, 2, op, kids) = <<op>> BY <3>1, <3>2, KindPiece, Zenon
      <3> QED BY <1>1, <2>2, <3>1, <3>3
    <2>5. X[3] = k[1]
      <3>1. Row[fn][3] = Expr /\ 3 \in 1..4 /\ Built[fn][3] + 1 = 1 BY <2>0 DEF parseUnaryopExpr
      <3>2. Row[fn][3].call = "parseExpr" /\ Row[fn][3].match = {} BY <3>1, ItemKinds DEF Expr
      <3>3. 1 \in 1..Len(kids) BY <2>2
      <3> QED BY <1>1, <1>3, <1>15, <2>2, <3>1, <3>2, <3>3 DEF Piece
    <2>6. X[4] = <<"PR">>
      <3>1. Row[fn][4] = Word("PR") /\ 4 \in 1..4 BY <2>0 DEF parseUnaryopExpr
      <3> QED BY <1>1, <2>2, <3>1, WordPiece
    <2> HIDE DEF X, k
    <2> DEFINE x1 == X[1] x2 == X[2] x3 == X[3] x4 == X[4]
    <2>7. x1 \in GoodTexts /\ x2 \in GoodTexts /\ x3 \in GoodTexts /\ x4 \in GoodTexts
      <3>1. 1 \in 1..Len(X) /\ 2 \in 1..Len(X) /\ 3 \in 1..Len(X) /\ 4 \in 1..Len(X) BY <1>1, <2>2
      <3> QED BY <1>1, <3>1, ElementOfSeq
    <2>8. Run(X) = X[1] \o X[2] \o X[3] \o X[4] BY <1>1, <1>2, <2>2, RunOf4
    <2> HIDE DEF x1, x2, x3, x4
    <2>9. Assoc(x1, x2, x3) BY <2>7, Flat3
    <2> QED BY <2>1, <2>3, <2>4, <2>5, <2>6, <2>8, <2>9, Zenon DEF X, Paren, Assoc, x1, x2, x3, x4
  <1>16. CASE fn = "parseVarAssignment"
    <2>0. Row[fn] = parseVarAssignment /\ Built[fn] = <<0, 0, 0, 1>> BY <1>16 DEF Row, Built
    <2>1. Text(fn, op, kids) = <<"Id", "Op_assignment">> \o k[1] BY <1>16 DEF Text
    <2>2. Len(Row[fn]) = 3 /\ Len(kids) = 1 BY <1>16, <2>0 DEF RowKids, parseVarAssignment
    <2>3. X[1] = <<"Id">>
      <3>1. Row[fn][1] = Word("Id") /\ 1 \in 1..3 BY <2>0 DEF parseVarAssignment
      <3> QED BY <1>1, <2>2, <3>1, WordPiece
    <2>4. X[2] = <<"Op_assignment">>
      <3>1. Row[fn][2] = Word("Op_assignment") /\ 2 \in 1..3 BY <2>0 DEF parseVarAssignment
      <3> QED BY <1>1, <2>2, <3>1, WordPiece
    <2>5. X[3] = k[1]
      <3>1. Row[fn][3] = Expr /\ 3 \in 1..3 /\ Built[fn][3] + 1 = 1 BY <2>0 DEF parseVarAssignment
      <3>2. Row[fn][3].call = "parseExpr" /\ Row[fn][3].match = {} BY <3>1, ItemKinds DEF Expr
      <3>3. 1 \in 1..Len(kids) BY <2>2
      <3> QED BY <1>1, <1>3, <1>16, <2>2, <3>1, <3>2, <3>3 DEF Piece
    <2> HIDE DEF X, k
    <2>6. X[1] \in GoodTexts /\ X[2] \in GoodTexts /\ X[3] \in GoodTexts
      <3>1. 1 \in 1..Len(X) /\ 2 \in 1..Len(X) /\ 3 \in 1..Len(X) BY <1>1, <2>2
      <3> QED BY <1>1, <3>1, ElementOfSeq
    <2>7. Run(X) = X[1] \o X[2] \o X[3] BY <1>1, <1>2, <2>2, RunOf3
    <2>8. <<"Id", "Op_assignment">> = <<"Id">> \o <<"Op_assignment">> OBVIOUS
    <2> QED BY <2>1, <2>3, <2>4, <2>5, <2>7, <2>8, Zenon DEF X
  <1>17. CASE fn = "parseArrayAssignment"
    <2>0. Row[fn] = parseArrayAssignment /\ Built[fn] = <<0, 0, 0, 1, 1, 1, 2>>
      BY <1>17 DEF Row, Built
    <2>1. Text(fn, op, kids) = ArrayText("Id", k[1]) \o <<"Op_assignment">> \o k[2]
      BY <1>17 DEF Text
    <2>2. Len(Row[fn]) = 6 /\ Len(kids) = 2 BY <1>17, <2>0 DEF RowKids, parseArrayAssignment
    <2>3. X[1] = <<"Id">>
      <3>1. Row[fn][1] = Word("Id") /\ 1 \in 1..6 BY <2>0 DEF parseArrayAssignment
      <3> QED BY <1>1, <2>2, <3>1, WordPiece
    <2>4. X[2] = <<"SL">>
      <3>1. Row[fn][2] = Word("SL") /\ 2 \in 1..6 BY <2>0 DEF parseArrayAssignment
      <3> QED BY <1>1, <2>2, <3>1, WordPiece
    <2>5. X[3] = k[1]
      <3>1. Row[fn][3] = Expr /\ 3 \in 1..6 /\ Built[fn][3] + 1 = 1 BY <2>0 DEF parseArrayAssignment
      <3>2. Row[fn][3].call = "parseExpr" /\ Row[fn][3].match = {} BY <3>1, ItemKinds DEF Expr
      <3>3. 1 \in 1..Len(kids) BY <2>2
      <3> QED BY <1>1, <1>3, <1>17, <2>2, <3>1, <3>2, <3>3 DEF Piece
    <2>6. X[4] = <<"SR">>
      <3>1. Row[fn][4] = Word("SR") /\ 4 \in 1..6 BY <2>0 DEF parseArrayAssignment
      <3> QED BY <1>1, <2>2, <3>1, WordPiece
    <2>7. X[5] = <<"Op_assignment">>
      <3>1. Row[fn][5] = Word("Op_assignment") /\ 5 \in 1..6 BY <2>0 DEF parseArrayAssignment
      <3> QED BY <1>1, <2>2, <3>1, WordPiece
    <2>8. X[6] = k[2]
      <3>1. Row[fn][6] = Expr /\ 6 \in 1..6 /\ Built[fn][6] + 1 = 2 BY <2>0 DEF parseArrayAssignment
      <3>2. Row[fn][6].call = "parseExpr" /\ Row[fn][6].match = {} BY <3>1, ItemKinds DEF Expr
      <3>3. 2 \in 1..Len(kids) BY <2>2
      <3> QED BY <1>1, <1>3, <1>17, <2>2, <3>1, <3>2, <3>3 DEF Piece
    <2> HIDE DEF X, k
    <2>9. X[1] \in GoodTexts /\ X[2] \in GoodTexts /\ X[3] \in GoodTexts
            /\ X[4] \in GoodTexts /\ X[5] \in GoodTexts /\ X[6] \in GoodTexts
      <3>1. 1 \in 1..Len(X) /\ 2 \in 1..Len(X) /\ 3 \in 1..Len(X)
              /\ 4 \in 1..Len(X) /\ 5 \in 1..Len(X) /\ 6 \in 1..Len(X)
        BY <1>1, <2>2
      <3> QED BY <1>1, <3>1, ElementOfSeq
    <2>10. Run(X) = X[1] \o X[2] \o X[3] \o X[4] \o X[5] \o X[6] BY <1>1, <1>2, <2>2, RunOf6
    <2>11. <<"Id", "SL">> = <<"Id">> \o <<"SL">> OBVIOUS
    <2>12. Or(k[1], "parseArrayDecls") = k[1]
      <3>1. 1 \in 1..Len(kids) BY <2>2
      <3>2. kids[1] # Null BY <1>17, <3>1 DEF RowKids, KeepsNull
      <3> QED BY <1>3, <3>1, <3>2 DEF Or, Null, k
    <2> QED BY <2>1, <2>3, <2>4, <2>5, <2>6, <2>7, <2>8, <2>10, <2>11, <2>12, Zenon DEF X, ArrayText
  <1>18. CASE fn = "parsePrintStmt"
    <2>0. Row[fn] = parsePrintStmt /\ Built[fn] = <<0, 0, 1>> BY <1>18 DEF Row, Built
    <2>1. Text(fn, op, kids) = <<"Print">> \o k[1] BY <1>18 DEF Text
    <2>2. Len(Row[fn]) = 2 /\ Len(kids) = 1 BY <1>18, <2>0 DEF RowKids, parsePrintStmt
    <2>3. X[1] = <<"Print">>
      <3>1. Row[fn][1] = Word("Print") /\ 1 \in 1..2 BY <2>0 DEF parsePrintStmt
      <3> QED BY <1>1, <2>2, <3>1, WordPiece
    <2>4. X[2] = k[1]
      <3>1. Row[fn][2] = Parse("parseStringOrExprArgs") /\ 2 \in 1..2 /\ Built[fn][2] + 1 = 1
        BY <2>0 DEF parsePrintStmt
      <3>2. Row[fn][2].call = "parseStringOrExprArgs" /\ Row[fn][2].match = {} BY <3>1, ItemKinds
      <3>3. 1 \in 1..Len(kids) BY <2>2
      <3> QED BY <1>1, <1>3, <1>18, <2>2, <3>1, <3>2, <3>3 DEF Piece
    <2> HIDE DEF X, k
    <2>5. X[1] \in GoodTexts /\ X[2] \in GoodTexts
      <3>1. 1 \in 1..Len(X) /\ 2 \in 1..Len(X) BY <1>1, <2>2
      <3> QED BY <1>1, <3>1, ElementOfSeq
    <2>6. Run(X) = X[1] \o X[2] BY <1>1, <1>2, <2>2, RunOf2
    <2> QED BY <2>1, <2>3, <2>4, <2>6, Zenon DEF X
  <1>19. CASE fn = "parseAbortStmt"
    <2>0. Row[fn] = parseAbortStmt /\ Built[fn] = <<0, 0, 1>> BY <1>19 DEF Row, Built
    <2>1. Text(fn, op, kids) = <<"Abort">> \o k[1] BY <1>19 DEF Text
    <2>2. Len(Row[fn]) = 2 /\ Len(kids) = 1 BY <1>19, <2>0 DEF RowKids, parseAbortStmt
    <2>3. X[1] = <<"Abort">>
      <3>1. Row[fn][1] = Word("Abort") /\ 1 \in 1..2 BY <2>0 DEF parseAbortStmt
      <3> QED BY <1>1, <2>2, <3>1, WordPiece
    <2>4. X[2] = k[1]
      <3>1. Row[fn][2] = Parse("parseStringOrExprArgs") /\ 2 \in 1..2 /\ Built[fn][2] + 1 = 1
        BY <2>0 DEF parseAbortStmt
      <3>2. Row[fn][2].call = "parseStringOrExprArgs" /\ Row[fn][2].match = {} BY <3>1, ItemKinds
      <3>3. 1 \in 1..Len(kids) BY <2>2
      <3> QED BY <1>1, <1>3, <1>19, <2>2, <3>1, <3>2, <3>3 DEF Piece
    <2> HIDE DEF X, k
    <2>5. X[1] \in GoodTexts /\ X[2] \in GoodTexts
      <3>1. 1 \in 1..Len(X) /\ 2 \in 1..Len(X) BY <1>1, <2>2
      <3> QED BY <1>1, <3>1, ElementOfSeq
    <2>6. Run(X) = X[1] \o X[2] BY <1>1, <1>2, <2>2, RunOf2
    <2> QED BY <2>1, <2>3, <2>4, <2>6, Zenon DEF X
  <1>20. CASE fn = "parseIfStmt"
    <2>0. Row[fn] = parseIfStmt /\ Built[fn] = <<0, 0, 0, 1, 1, 2, 3>> BY <1>20 DEF Row, Built
    <2>1. Text(fn, op, kids) = <<"If">> \o Paren(k[1]) \o k[2] \o Optional(<<"Else">>, kids[3])
      BY <1>20 DEF Text
    <2>2. Len(Row[fn]) = 6 /\ Len(kids) = 3 BY <1>20, <2>0 DEF RowKids, parseIfStmt
    <2>3. X[1] = <<"If">>
      <3>1. Row[fn][1] = Word("If") /\ 1 \in 1..6 BY <2>0 DEF parseIfStmt
      <3> QED BY <1>1, <2>2, <3>1, WordPiece
    <2>4. X[2] = <<"PL">>
      <3>1. Row[fn][2] = Word("PL") /\ 2 \in 1..6 BY <2>0 DEF parseIfStmt
      <3> QED BY <1>1, <2>2, <3>1, WordPiece
    <2>5. X[3] = k[1]
      <3>1. Row[fn][3] = May("parseExpr") /\ 3 \in 1..6 /\ Built[fn][3] + 1 = 1
        BY <2>0 DEF parseIfStmt
      <3>2. Row[fn][3].call = "parseExpr" /\ Row[fn][3].match = {} BY <3>1, ItemKinds
      <3>3. 1 \in 1..Len(kids) BY <2>2
      <3> QED BY <1>1, <1>3, <1>20, <2>2, <3>1, <3>2, <3>3 DEF Piece
    <2>6. X[4] = <<"PR">>
      <3>1. Row[fn][4] = Word("PR") /\ 4 \in 1..6 BY <2>0 DEF parseIfStmt
      <3> QED BY <1>1, <2>2, <3>1, WordPiece
    <2>7. X[5] = k[2]
      <3>1. Row[fn][5] = May("parseStmtBlock") /\ 5 \in 1..6 /\ Built[fn][5] + 1 = 2
        BY <2>0 DEF parseIfStmt
      <3>2. Row[fn][5].call = "parseStmtBlock" /\ Row[fn][5].match = {} BY <3>1, ItemKinds
      <3>3. 2 \in 1..Len(kids) BY <2>2
      <3> QED BY <1>1, <1>3, <1>20, <2>2, <3>1, <3>2, <3>3 DEF Piece
    <2>8. X[6] = Optional(<<"Else">>, kids[3])
      <3>1. Row[fn][6] = After("Else", "parseStmtBlock") /\ 6 \in 1..6 /\ Built[fn][6] + 1 = 3
        BY <2>0 DEF parseIfStmt
      <3>2. Row[fn][6].call # "none" /\ Row[fn][6].match = {"Else"} BY <3>1, ItemKinds
      <3>3. Only({"Else"}) = "Else" /\ {"Else"} # {} BY OnlyOne
      <3>4. Piece(fn, 6, op, kids) = Optional(<<"Else">>, kids[3])
        BY <3>1, <3>2, <3>3, Zenon DEF Piece, Optional, Null
      <3> QED BY <1>1, <2>2, <3>1, <3>4
    <2> HIDE DEF X, k
    <2> DEFINE x1 == X[1] x2 == X[2] x3 == X[3] x4 == X[4] x5 == X[5] x6 == X[6]
    <2>9. x1 \in GoodTexts /\ x2 \in GoodTexts /\ x3 \in GoodTexts
            /\ x4 \in GoodTexts /\ x5 \in GoodTexts /\ x6 \in GoodTexts
      <3>1. 1 \in 1..Len(X) /\ 2 \in 1..Len(X) /\ 3 \in 1..Len(X)
              /\ 4 \in 1..Len(X) /\ 5 \in 1..Len(X) /\ 6 \in 1..Len(X)
        BY <1>1, <2>2
      <3> QED BY <1>1, <3>1, ElementOfSeq
    <2>10. Run(X) = X[1] \o X[2] \o X[3] \o X[4] \o X[5] \o X[6] BY <1>1, <1>2, <2>2, RunOf6
    <2> HIDE DEF x1, x2, x3, x4, x5, x6
    <2>11. Assoc4(x1, x2, x3, x4) BY <2>9, Flat4
    <2> QED
      BY <2>1, <2>3, <2>4, <2>5, <2>6, <2>7, <2>8, <2>10, <2>11, Zenon DEF X, Paren, Assoc4, x1,
         x2, x3, x4, x5, x6
  <1>21. CASE fn = "parseWhileStmt"
    <2>0. Row[fn] = parseWhileStmt /\ Built[fn] = <<0, 0, 0, 1, 1, 2>> BY <1>21 DEF Row, Built
    <2>1. Text(fn, op, kids) = <<"While">> \o Paren(k[1]) \o k[2] BY <1>21 DEF Text
    <2>2. Len(Row[fn]) = 5 /\ Len(kids) = 2 BY <1>21, <2>0 DEF RowKids, parseWhileStmt
    <2>3. X[1] = <<"While">>
      <3>1. Row[fn][1] = Word("While") /\ 1 \in 1..5 BY <2>0 DEF parseWhileStmt
      <3> QED BY <1>1, <2>2, <3>1, WordPiece
    <2>4. X[2] = <<"PL">>
      <3>1. Row[fn][2] = Word("PL") /\ 2 \in 1..5 BY <2>0 DEF parseWhileStmt
      <3> QED BY <1>1, <2>2, <3>1, WordPiece
    <2>5. X[3] = k[1]
      <3>1. Row[fn][3] = Expr /\ 3 \in 1..5 /\ Built[fn][3] + 1 = 1 BY <2>0 DEF parseWhileStmt
      <3>2. Row[fn][3].call = "parseExpr" /\ Row[fn][3].match = {} BY <3>1, ItemKinds DEF Expr
      <3>3. 1 \in 1..Len(kids) BY <2>2
      <3> QED BY <1>1, <1>3, <1>21, <2>2, <3>1, <3>2, <3>3 DEF Piece
    <2>6. X[4] = <<"PR">>
      <3>1. Row[fn][4] = Word("PR") /\ 4 \in 1..5 BY <2>0 DEF parseWhileStmt
      <3> QED BY <1>1, <2>2, <3>1, WordPiece
    <2>7. X[5] = k[2]
      <3>1. Row[fn][5] = Parse("parseStmtBlock") /\ 5 \in 1..5 /\ Built[fn][5] + 1 = 2
        BY <2>0 DEF parseWhileStmt
      <3>2. Row[fn][5].call = "parseStmtBlock" /\ Row[fn][5].match = {} BY <3>1, ItemKinds
      <3>3. 2 \in 1..Len(kids) BY <2>2
      <3> QED BY <1>1, <1>3, <1>21, <2>2, <3>1, <3>2, <3>3 DEF Piece
    <2> HIDE DEF X, k
    <2> DEFINE x1 == X[1] x2 == X[2] x3 == X[3] x4 == X[4] x5 == X[5]
    <2>8. x1 \in GoodTexts /\ x2 \in GoodTexts /\ x3 \in GoodTexts
            /\ x4 \in GoodTexts /\ x5 \in GoodTexts
      <3>1. 1 \in 1..Len(X) /\ 2 \in 1..Len(X) /\ 3 \in 1..Len(X) /\ 4 \in 1..Len(X) /\ 5 \in 1..Len(X)
        BY <1>1, <2>2
      <3> QED BY <1>1, <3>1, ElementOfSeq
    <2>9. Run(X) = X[1] \o X[2] \o X[3] \o X[4] \o X[5] BY <1>1, <1>2, <2>2, RunOf5
    <2> HIDE DEF x1, x2, x3, x4, x5
    <2>10. Assoc4(x1, x2, x3, x4) BY <2>8, Flat4
    <2> QED
      BY <2>1, <2>3, <2>4, <2>5, <2>6, <2>7, <2>9, <2>10, Zenon DEF X, Paren, Assoc4, x1, x2, x3,
         x4, x5
  <1>22. CASE fn = "parseForStmt"
    <2>0. Row[fn] = parseForStmt /\ Built[fn] = <<0, 0, 0, 1, 1, 2, 2, 3>> BY <1>22 DEF Row, Built
    <2>1. Text(fn, op, kids) = <<"For">> \o Paren(k[1] \o <<"Op_colon">> \o k[2]) \o k[3]
      BY <1>22 DEF Text
    <2>2. Len(Row[fn]) = 7 /\ Len(kids) = 3 BY <1>22, <2>0 DEF RowKids, parseForStmt
    <2>3. X[1] = <<"For">>
      <3>1. Row[fn][1] = Word("For") /\ 1 \in 1..7 BY <2>0 DEF parseForStmt
      <3> QED BY <1>1, <2>2, <3>1, WordPiece
    <2>4. X[2] = <<"PL">>
      <3>1. Row[fn][2] = Word("PL") /\ 2 \in 1..7 BY <2>0 DEF parseForStmt
      <3> QED BY <1>1, <2>2, <3>1, WordPiece
    <2>5. X[3] = k[1]
      <3>1. Row[fn][3] = Expr /\ 3 \in 1..7 /\ Built[fn][3] + 1 = 1 BY <2>0 DEF parseForStmt
      <3>2. Row[fn][3].call = "parseExpr" /\ Row[fn][3].match = {} BY <3>1, ItemKinds DEF Expr
      <3>3. 1 \in 1..Len(kids) BY <2>2
      <3> QED BY <1>1, <1>3, <1>22, <2>2, <3>1, <3>2, <3>3 DEF Piece
    <2>6. X[4] = <<"Op_colon">>
      <3>1. Row[fn][4] = Word("Op_colon") /\ 4 \in 1..7 BY <2>0 DEF parseForStmt
      <3> QED BY <1>1, <2>2, <3>1, WordPiece
    <2>7. X[5] = k[2]
      <3>1. Row[fn][5] = Expr /\ 5 \in 1..7 /\ Built[fn][5] + 1 = 2 BY <2>0 DEF parseForStmt
      <3>2. Row[fn][5].call = "parseExpr" /\ Row[fn][5].match = {} BY <3>1, ItemKinds DEF Expr
      <3>3. 2 \in 1..Len(kids) BY <2>2
      <3> QED BY <1>1, <1>3, <1>22, <2>2, <3>1, <3>2, <3>3 DEF Piece
    <2>8. X[6] = <<"PR">>
      <3>1. Row[fn][6] = Word("PR") /\ 6 \in 1..7 BY <2>0 DEF parseForStmt
      <3> QED BY <1>1, <2>2, <3>1, WordPiece
    <2>9. X[7] = k[3]
      <3>1. Row[fn][7] = Parse("parseStmtBlock") /\ 7 \in 1..7 /\ Built[fn][7] + 1 = 3
        BY <2>0 DEF parseForStmt
      <3>2. Row[fn][7].call = "parseStmtBlock" /\ Row[fn][7].match = {} BY <3>1, ItemKinds
      <3>3. 3 \in 1..Len(kids) BY <2>2
      <3> QED BY <1>1, <1>3, <1>22, <2>2, <3>1, <3>2, <3>3 DEF Piece
    <2> HIDE DEF X, k
    <2> DEFINE x1 == X[1] x2 == X[2] x3 == X[3] x4 == X[4] x5 == X[5] x6 == X[6] x7 == X[7]
    <2>10. x1 \in GoodTexts /\ x2 \in GoodTexts /\ x3 \in GoodTexts /\ x4 \in GoodTexts
             /\ x5 \in GoodTexts /\ x6 \in GoodTexts /\ x7 \in GoodTexts
      <3>1. 1 \in 1..Len(X) /\ 2 \in 1..Len(X) /\ 3 \in 1..Len(X) /\ 4 \in 1..Len(X)
              /\ 5 \in 1..Len(X) /\ 6 \in 1..Len(X) /\ 7 \in 1..Len(X)
        BY <1>1, <2>2
      <3> QED BY <1>1, <3>1, ElementOfSeq
    <2>11. Run(X) = X[1] \o X[2] \o X[3] \o X[4] \o X[5] \o X[6] \o X[7] BY <1>1, <1>2, <2>2, RunOf7
    <2> HIDE DEF x1, x2, x3, x4, x5, x6, x7
    <2>12. Assoc4(x2, x3, x4, x5) BY <2>10, Flat4
    <2>13. Assoc6(x1, x2, x3, x4, x5, x6) BY <2>10, Flat6
    <2> QED
      BY <2>1, <2>3, <2>4, <2>5, <2>6, <2>7, <2>8, <2>9, <2>11, <2>12, <2>13, Zenon DEF X, Paren,
         Assoc4, Assoc6, x1, x2, x3, x4, x5, x6, x7
  <1>23. CASE fn = "parseReturnStmt"
    <2>0. Row[fn] = parseReturnStmt /\ Built[fn] = <<0, 0, 1>> BY <1>23 DEF Row, Built
    <2>1. Text(fn, op, kids) = <<"Return">> \o Optional(<<>>, kids[1]) BY <1>23 DEF Text
    <2>2. Len(Row[fn]) = 2 /\ Len(kids) = 1 BY <1>23, <2>0 DEF RowKids, parseReturnStmt
    <2>3. X[1] = <<"Return">>
      <3>1. Row[fn][1] = Word("Return") /\ 1 \in 1..2 BY <2>0 DEF parseReturnStmt
      <3> QED BY <1>1, <2>2, <3>1, WordPiece
    <2>4. X[2] = kids[1]
      <3>1. Row[fn][2] = May("parseExpr") /\ 2 \in 1..2 /\ Built[fn][2] + 1 = 1
        BY <2>0 DEF parseReturnStmt
      <3>2. Row[fn][2].call = "parseExpr" /\ Row[fn][2].match = {} BY <3>1, ItemKinds
      <3> QED BY <1>1, <1>23, <2>2, <3>1, <3>2 DEF Piece
    <2> HIDE DEF X, k
    <2>5. X[1] \in GoodTexts /\ X[2] \in GoodTexts
      <3>1. 1 \in 1..Len(X) /\ 2 \in 1..Len(X) BY <1>1, <2>2
      <3> QED BY <1>1, <3>1, ElementOfSeq
    <2>6. Run(X) = X[1] \o X[2] BY <1>1, <1>2, <2>2, RunOf2
    <2>7. Optional(<<>>, kids[1]) = X[2]
      <3>1. kids[1] \in Seq(Tokens \cup KnownHoles) BY <2>4, <2>5 DEF GoodTexts
      <3>2. <<>> \o kids[1] = kids[1] BY <3>1, ConcatEmptySeq
      <3> QED BY <2>4, <3>2 DEF Optional
    <2> QED BY <2>1, <2>3, <2>4, <2>6, <2>7, Zenon DEF X
  <1>24. CASE fn = "parseFnDef"
    <2>0. Row[fn] = parseFnDef /\ Built[fn] = <<0, 0, 0, 1, 2>> BY <1>24 DEF Row, Built
    <2>1. Text(fn, op, kids) = <<op, "Id">> \o k[1] \o k[2] BY <1>24 DEF Text
    <2>2. Len(Row[fn]) = 4 /\ Len(kids) = 2 BY <1>24, <2>0 DEF RowKids, parseFnDef
    <2>3. X[1] = <<op>>
      <3>1. Row[fn][1] = Match(TypeTokens) /\ 1 \in 1..4 BY <2>0 DEF parseFnDef
      <3>2. \A t : TypeTokens # {t} BY <1>4
      <3>3. Piece(fn, 1, op, kids) = <<op>> BY <3>1, <3>2, KindPiece, Zenon
      <3> QED BY <1>1, <2>2, <3>1, <3>3
    <2>4. X[2] = <<"Id">>
      <3>1. Row[fn][2] = Word("Id") /\ 2 \in 1..4 BY <2>0 DEF parseFnDef
      <3> QED BY <1>1, <2>2, <3>1, WordPiece
    <2>5. X[3] = k[1]
      <3>1. Row[fn][3] = Parse("parseFnParams") /\ 3 \in 1..4 /\ Built[fn][3] + 1 = 1
        BY <2>0 DEF parseFnDef
      <3>2. Row[fn][3].call = "parseFnParams" /\ Row[fn][3].match = {} BY <3>1, ItemKinds
      <3>3. 1 \in 1..Len(kids) BY <2>2
      <3> QED BY <1>1, <1>3, <1>24, <2>2, <3>1, <3>2, <3>3 DEF Piece
    <2>6. X[4] = k[2]
      <3>1. Row[fn][4] = Parse("parseStmtBlock") /\ 4 \in 1..4 /\ Built[fn][4] + 1 = 2
        BY <2>0 DEF parseFnDef
      <3>2. Row[fn][4].call = "parseStmtBlock" /\ Row[fn][4].match = {} BY <3>1, ItemKinds
      <3>3. 2 \in 1..Len(kids) BY <2>2
      <3> QED BY <1>1, <1>3, <1>24, <2>2, <3>1, <3>2, <3>3 DEF Piece
    <2> HIDE DEF X, k
    <2>7. X[1] \in GoodTexts /\ X[2] \in GoodTexts /\ X[3] \in GoodTexts /\ X[4] \in GoodTexts
      <3>1. 1 \in 1..Len(X) /\ 2 \in 1..Len(X) /\ 3 \in 1..Len(X) /\ 4 \in 1..Len(X) BY <1>1, <2>2
      <3> QED BY <1>1, <3>1, ElementOfSeq
    <2>8. Run(X) = X[1] \o X[2] \o X[3] \o X[4] BY <1>1, <1>2, <2>2, RunOf4
    <2>9. <<op, "Id">> = <<op>> \o <<"Id">> OBVIOUS
    <2> QED BY <2>1, <2>3, <2>4, <2>5, <2>6, <2>8, <2>9, Zenon DEF X
  <1> QED
    BY <1>5, <1>6, <1>7, <1>8, <1>9, <1>10, <1>11, <1>12, <1>13, <1>14, <1>15, <1>16, <1>17, <1>18,
       <1>19, <1>20, <1>21, <1>22, <1>23, <1>24 DEF RowKids, Row

LEMMA RowFilled ==
    ASSUME NEW fn, NEW op, NEW kids, RowKids(fn, op, kids)
    PROVE  /\ Fill(Text(fn, op, kids)) = RowText(fn, op, kids)
           /\ Text(fn, op, kids) \in GoodTexts
  BY TextOfPieces, PiecesFilled, RunGood
=============================================================================
