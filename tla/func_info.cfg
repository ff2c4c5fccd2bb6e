CONSTANTS
  Funcs = {f1, f2, f3}
  NoFunc = NoFunc
  Bodies <- CallBodies
  MaxRuns = 2
SPECIFICATION Spec
INVARIANTS
  TypeOK
  PurityExact
  QueuedOnce
  PurityKept
PROPERTIES
  Terminates
