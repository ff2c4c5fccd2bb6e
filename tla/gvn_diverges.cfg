CONSTANTS
  IntMax = 7
  Functions <- MCNested
  Pure <- MCPure
  Void <- MCVoid
  Exits <- MCExits
  MaxBranches = 3
SPECIFICATION RunSpec
PROPERTIES
  Terminates
