-------------------------------- MODULE AST --------------------------------
(***************************************************************************)
(* The program both visitors walk, and how far main() has got with it.     *)
(*                                                                         *)
(* The tree is kept in the order a visitor passes through it: `ast' is the *)
(* sequence of the nodes as their visits do their work (an expression      *)
(* after its operands, a block's opening, its statements, its end), and    *)
(* `kids' gives the positions of a node's operands (of an `fn', where its  *)
(* function is in program->fnDefinitions).  TypecheckerVisitor and         *)
(* CodegenVisitor pass through a program in this same order.  The tree is  *)
(* not fixed in advance: the typechecker chooses the next node as it gets  *)
(* there, so the behaviours range over every program within the bounds.    *)
(* Three departures from one node per class of baseast.hpp:                *)
(*   - a declaration of n variables or arrays, or a print of n arguments,  *)
(*     is n nodes: both visitors treat the items one after the other and   *)
(*     keep nothing between them;                                          *)
(*   - a statement whose visit does something between two children has a   *)
(*     node for each such point (while, whilebody; elemaddr, elemassign;   *)
(*     forvar, for; if, else, end);                                        *)
(*   - literals carry no value: no check depends on one.                   *)
(***************************************************************************)
EXTENDS SymbolTable

CONSTANTS Protos,      \* the sequences of function prototypes tried
          Main         \* the name "main"

ASSUME MainAssumption == Main \in Names

VARIABLES fns,         \* the prototypes of program->fnDefinitions, in order
          ast,         \* the nodes visited so far
          trail,       \* trail[i] is the typechecker's chain before node i
          phase        \* what main() is doing, or how it ended

(* A FunctionPrototype; its parameters are FnParam records.                *)
FnParam   == [type : ParamTokens, name : Names]
Prototype == [type : TypeTokens, name : Names, params : Seq(FnParam)]

IsParam(ps, n) == \E j \in 1..Len(ps) : ps[j].name = n
ParamAt(ps, n) == CHOOSE j \in 1..Len(ps) : ps[j].name = n

ASSUME ProtosAssumption == Protos \subseteq Seq(Prototype)

NoName == "-"
ASSUME NoNameAssumption == NoName \notin Keys

ExprKinds  == {"bool", "num", "id", "string", "ternary", "binop", "unary",
               "sizeof", "input", "elem", "call"}
BlockKinds == {"body", "bare", "then", "else", "while", "for"}
NodeKinds  == ExprKinds \cup {"fn", "vardecl", "arraydecl", "print", "if", "else",
                "while", "whilebody", "forvar", "for", "bare", "end", "return",
                "abort", "elemaddr", "elemassign", "assign"}

(* x is the name in the node, op its operator (for an `if' whether it has  *)
(* an else, for an `end' which kind of block ends), res the type token the *)
(* typechecker leaves in expr->result (for a declaration the declared      *)
(* type).  `live' says that CodegenVisitor reaches the node: it passes     *)
(* over the rest of a block once a return of that block is done, and over  *)
(* the operands it never visits.                                           *)
Node(k, x, op, kids, res, live) ==
    [k |-> k, x |-> x, op |-> op, kids |-> kids, res |-> res, live |-> live]

Labels == BinOps \cup UnaryOps \cup BlockKinds \cup {"none"}

Nodes == [k : NodeKinds, x : Names \cup {NoName}, op : Labels, kids : Seq(Nat),
          res : ResultTokens \cup {"none"}, live : BOOLEAN]

(* The declaration a SymbolInfo or an alloca comes from: the i-th node,    *)
(* and for a function's parameters which one.                              *)
DeclAt(i)          == <<i, 0>>
ParamDecl(i, j)    == <<i, j>>

Endings == {"rejected",        \* the typechecker threw an Exception: NOK
            "failed",          \* code generation threw an Exception: NOK
            "assertValue",     \* the assert() in createValue failed
            "assertFnProto",   \* the assert() in getEnclosingFnProto failed
            "crash",           \* an invalid memory access
            "OK"}
Phases  == {"declare", "typecheck", "codegen"} \cup Endings
=============================================================================
