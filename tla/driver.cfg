SPECIFICATION Spec
CONSTANTS
  Programs = {"p", "q", "r"}
  Refused <- RefusedPrograms
  Commands <- CommandLines
  SourceName = "a.lil"
  Numerals = {"32"}
INVARIANTS
  TypeOK
PROPERTIES
  Implements
