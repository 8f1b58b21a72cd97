SPECIFICATION Spec
CONSTANTS
  Classes <- OneOfEach
  MaxNodes = 6
INVARIANTS
  TypeOK
  Restored
  Outline
