CONSTANTS
  e = e
  a = a
  b = b
  c = c
  d = d
  f = f
  h = h
  null = null
  Entry <- e
  NoBlock <- null
  Blocks <- MCReturnBlocks
  Graphs <- MCReturnGraphs
SPECIFICATION Spec
PROPERTIES
  AlwaysTerminates
