CONSTANTS
  IntMax = 7
  Functions <- MCFunctions
  Pure <- MCPure
  Void <- MCVoid
  Exits <- MCExits
  MaxBranches = 5
SPECIFICATION RunSpec
INVARIANTS
  PartitionsWellFormed
  AtFixpoint
  UseListsExact
  RedundancyGone
  ActsTheSame
PROPERTIES
  Terminates
