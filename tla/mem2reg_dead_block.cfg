CONSTANTS
  e = e
  a = a
  b = b
  c = c
  x = x
  y = y
  Entry <- e
  Blocks <- MCBlocks
  Vars = {x}
  Programs <- MCDeadBlockPrograms
  Data = {0, 1}
  Undef = Undef
SPECIFICATION RunSpec
INVARIANTS
  AllocasRedundant
