\* A packet with the largest id that a header can carry.
CONSTANTS
  Modulus = 65536
  HeaderSize = 4
  VarintBase = 128
  MaxText = 131072
  IdsSent = {0, 65534, 65535}
SPECIFICATION Spec
INVARIANT EveryIdHasAnEntry
