SPECIFICATION GeneratedSpec
CONSTANTS
  Names = {"main", "f", "p", "a", "b"}
  LilfnNames = {}
  Main = "main"
  Protos <- Programs
  Kinds = {"vardecl", "id", "assign"}
  Ops = {}
  VarTypes = {"Type_int", "Type_bool"}
  MaxNodes = 6
  MaxArgs = 1
  Width = 64
  Intrinsics = {}
  Bits = 3
  MaxCalls = 2
  Nothing = Nothing
  Literals = {0}
INVARIANTS
  NoneUninitialised
