SPECIFICATION Spec
CONSTANTS
  Names = {"main", "a", "b", "lib"}
  LilfnNames = {}
  Main = "main"
  Protos <- AnyFunctions
  Kinds = {"exprstmt", "id", "num", "string", "input", "bool", "sizeof", "elem", "call", "print", "return", "elemassign", "binop", "unary", "ternary", "abort"}
  Ops = {"Op_minus", "Op_and", "Op_eqeq", "Op_bang"}
  VarTypes = {}
  MaxNodes = 5
  MaxArgs = 1
  Width = 64
  Intrinsics = {"lib"}
INVARIANTS
  ValueTypes
  TameProgramsCompile
  BindingAgreement
