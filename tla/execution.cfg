SPECIFICATION GeneratedSpec
CONSTANTS
  Names = {"main", "f", "p", "a", "b"}
  LilfnNames = {}
  Main = "main"
  Protos <- Programs
  Kinds = {"vardecl", "arraydecl", "num", "bool", "id", "input", "elem", "sizeof", "unary", "binop", "ternary", "assign", "elemassign", "print", "bare", "if", "while", "for", "return", "abort", "call", "exprstmt"}
  Ops = {"Op_minus", "Op_eqeq", "Op_bang", "Op_divide"}
  VarTypes = {"Type_int", "Type_bool"}
  MaxNodes = 30
  MaxArgs = 1
  Width = 64
  Intrinsics = {}
  Bits = 3
  MaxCalls = 2
  Nothing = Nothing
  Literals = {0, 2}
CONSTRAINT
  Selected
PROPERTIES
  Implements
