CONSTANTS
  e = e
  a = a
  b = b
  c = c
  x = x
  y = y
  Entry <- e
  Blocks <- MCBlocks
  Vars = {x, y}
  Programs <- MCPrograms
  Data = {0, 1}
  Undef = Undef
SPECIFICATION RunSpec
INVARIANTS
  TypeOK
  PhisExact
  StackedValuesDominate
  BackExists
  PhisFilled
  NoReplacedOperand
  AllocasRedundant
  LoadsAgree
PROPERTIES
  Terminates
