SPECIFICATION Spec
CONSTANTS
  DIGIT = {"0", "1"}
  ALPHA = {"a", "b", "d", "e", "f", "h", "i", "l", "n", "o", "p", "r", "s", "t", "u", "v", "w", "x", "y", "z"}
  Identifiers = {"x", "i", "if0"}
  Numbers = {"0", "10", "-1"}
  Selections <- Texts
INVARIANTS
  ReadAsWritten
  LinesKept
