SPECIFICATION Spec
CONSTANTS
  Names = {"main", "a", "b"}
  LilfnNames = {}
  Main = "main"
  Protos <- ArrayMain
  Kinds = {"vardecl", "id", "assign", "bare", "return", "for", "if"}
  Ops = {}
  VarTypes = {"Type_int", "Type_bool"}
  MaxNodes = 9
  MaxArgs = 1
  Width = 64
  Intrinsics = {}
INVARIANTS
  TypeOK
  NoShadowing
  ScopesMatch
  BindingAgreement
  TameProgramsCompile
