CONSTANTS
  Bits <- MCBits
  Operands <- MCOperands
  Groupings <- MCGroupings
  Deviations = FALSE
SPECIFICATION AggrSpec
INVARIANTS Exact PropsTrue GroupsExact
