------------------------------ MODULE LilTypes ------------------------------
(***************************************************************************)
(* The vocabulary of types and operators that the typechecker and the code *)
(* generator of lilang share: the Token enumerators that stand for types,  *)
(* the SymbolType enumerators of the symbol table, the conversions between *)
(* them, and the predicates of consts.hpp on operator tokens.              *)
(***************************************************************************)
EXTENDS Sequences

(* Token enumerators that name a type.  An expression result is a Token    *)
(* too; a string literal's is Literal_string.                              *)
TypeTokens   == {"Type_array", "Type_int", "Type_bool", "Type_void"}
ResultTokens == TypeTokens \cup {"Literal_string"}

(* What parseVarDecls and parseFnParams accept before an identifier.       *)
VarTokens   == TypeTokens \ {"Type_array"}
ParamTokens == TypeTokens \ {"Type_void"}

SymbolTypes == {"Err", "Void", "Function", "Array", "Int", "Bool"}

TokenToSymbolType(type) ==
    CASE type = "Type_array" -> "Array"
      [] type = "Type_int"   -> "Int"
      [] type = "Type_bool"  -> "Bool"
      [] type = "Type_void"  -> "Void"
      [] OTHER               -> "Err"

SymbolToTokenType(type) ==
    CASE type = "Array" -> "Type_array"
      [] type = "Int"   -> "Type_int"
      [] type = "Void"  -> "Type_void"
      [] type = "Bool"  -> "Type_bool"
      [] OTHER          -> "Err"

(* Mutated form of CreatableValue: an assert() compiled out.               *)
AnyCreatable(type) == TRUE

(* createValue asserts on any token that has no BaseValue subclass.        *)
CreatableValue(type) == type \in ResultTokens

-----------------------------------------------------------------------------
(* Operator tokens.                                                        *)

isAndOr(op)   == op \in {"Op_and", "Op_or"}
isEqOrNeq(op) == op \in {"Op_eqeq", "Op_neq"}
isCompOp(op)  == op \in {"Op_neq", "Op_eqeq", "Op_gt", "Op_gte", "Op_lt",
                         "Op_lte", "Op_bang"}
BinOps   == {"Op_add", "Op_minus", "Op_mult", "Op_divide", "Op_exp", "Op_mod",
             "Op_and", "Op_or", "Op_eqeq", "Op_neq", "Op_gt", "Op_gte", "Op_lt",
             "Op_lte"}
UnaryOps == {"Op_bang", "Op_minus"}

isBinOp(op)   == op \in BinOps
isUnaryOp(op) == op \in UnaryOps

(* Mutated form of BinopResult: a comparison has its operands' type.       *)
BinopKeepsType(op, l, r) ==
    IF l # r \/ l \notin (IF isAndOr(op) THEN {"Type_bool"}
                         ELSE IF isEqOrNeq(op) THEN {"Type_int", "Type_bool"}
                         ELSE {"Type_int"})
    THEN "Err" ELSE l

(* The result of `(l op r)', or "Err" where the visitor throws.  The last  *)
(* arm is unguarded: the isBinOp(Token) overload the visitor calls holds   *)
(* of every operator (isBinOp above is the one for int, the parser's).     *)
BinopResult(op, l, r) ==
    IF l # r THEN "Err"
    ELSE CASE isAndOr(op)   -> IF l = "Type_bool" THEN "Type_bool" ELSE "Err"
           [] isEqOrNeq(op) -> IF l \in {"Type_int", "Type_bool"}
                               THEN "Type_bool" ELSE "Err"
           [] isCompOp(op) /\ ~isEqOrNeq(op) ->
                               IF l = "Type_int" THEN "Type_bool" ELSE "Err"
           [] OTHER         -> IF l = "Type_int" THEN "Type_int" ELSE "Err"

(* The operand `(op e)' must have.                                         *)
UnaryOperand(op) == IF op = "Op_bang" THEN "Type_bool" ELSE "Type_int"
=============================================================================
