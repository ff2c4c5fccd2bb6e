CONSTANTS
  Programs <- MCFloatLoops
  MaxLoop = 2
SPECIFICATION Spec
INVARIANTS
  IntegerCompares
