CONSTANTS
  Programs <- MCPrograms
  MaxLoop = 2
SPECIFICATION Spec
INVARIANTS
  TypeOK
  BlocksWellFormed
  TypesFit
  ReadsBack
  MeansTheSame
