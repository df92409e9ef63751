\* Files of up to four lines, with every mixture of kinds.
CONSTANTS
  StartId = 1000
  MaxLines = 4
SPECIFICATION Spec
INVARIANTS
  TypeOK
  EndsUnderstandEachOther
