SPECIFICATION Spec
CONSTANTS
  Names = {"main", "a"}
  LilfnNames = {}
  Main = "main"
  Protos <- VoidMain
  Kinds = {"exprstmt", "id", "num", "vardecl"}
  Ops = {}
  VarTypes = {"Type_int", "Type_bool"}
  MaxNodes = 5
  MaxArgs = 1
  Width = 32
  Intrinsics = {}
INVARIANTS
  WidthCompiles
