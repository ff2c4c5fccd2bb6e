CONSTANTS
  IntMax = 7
  Functions <- MCPhiOfPhi
  Pure <- MCPure
  Void <- MCVoid
  Exits <- MCExits
  MaxBranches = 4
SPECIFICATION RunSpec
INVARIANTS
  ActsTheSame
