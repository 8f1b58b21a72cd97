SPECIFICATION Spec
CONSTANTS
  Names = {"main", "a", "b"}
  LilfnNames = {"a"}
  Main = "main"
  Protos <- VoidMain
  Kinds = {"arraydecl", "num", "bool", "elemassign", "elem", "bare", "while", "if", "return", "abort"}
  Ops = {}
  VarTypes = {}
  MaxNodes = 9
  MaxArgs = 1
  Width = 64
  Intrinsics = {}
INVARIANTS
  ArraysOwned
  SavesBalanced
  TameProgramsCompile
  ReturnFindsItsFunction
  NoReleasedArrayUsed
