SPECIFICATION Spec
CONSTANTS
  Names = {"main", "a"}
  LilfnNames = {}
  Main = "main"
  Protos <- VoidMain
  Kinds = {"exprstmt", "id", "elem", "num", "vardecl"}
  Ops = {}
  VarTypes = {"Type_int"}
  MaxNodes = 5
  MaxArgs = 1
  Width = 64
  Intrinsics = {}
INVARIANTS
  NamesChecked
