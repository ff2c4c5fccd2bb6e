CONSTANTS
  e = e
  a = a
  b = b
  c = c
  d = d
  f = f
  h = h
  null = null
  Entry <- e
  NoBlock <- null
  Blocks <- MCBlocks
  Graphs <- MCGraphs
SPECIFICATION Spec
INVARIANTS
  TypeOK
  AssertsHold
  IdomClimbs
  IdomExact
  FrontierExact
  TreeSpans
PROPERTIES
  Terminates
  IdomSettles
  RefinesDominance
