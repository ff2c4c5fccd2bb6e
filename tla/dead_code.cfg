CONSTANTS
  Instrs = {i1, i2, i3}
  Funcs = {f1, f2}
  NoFunc = NoFunc
  NoInstr = NoInstr
  Kinds <- SomeKinds
SPECIFICATION Spec
INVARIANTS
  TypeOK
  NoDangling
  UseListsExact
  LeavesNeeded
  SecondRoundIdle
PROPERTIES
  Terminates
