\* The sizes of the code.
CONSTANTS
  Modulus = 65536
  HeaderSize = 4
  VarintBase = 128
  MaxText = 131072
  IdsSent = {0, 1000, 1002, 65534}
SPECIFICATION Spec
INVARIANTS
  TypeOK
  ServerNeverCuts
  ChatComesThrough
