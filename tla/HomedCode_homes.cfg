SPECIFICATION RunSpec
CONSTANTS
  a = a
  b = b
  c = c
  t = t
  h = h
  x = x
  y = y
  g = g
  w = w
  Vars = {a, b, c, t, h, x, y, g, w}
  Floats = {x, y}
  Statics = {g}
  Bytes <- MCBytes
  ArgRegs = {0, 1, 2}
  IntCallee = {5, 6, 7}
  FpArgs = {0}
  FpCaller = {3}
  FpCallee = {2}
  CacheCap = 1
  Programs <- Functions
  MaxSteps = 12
INVARIANTS
  HomesApart
  CallsKeepHomes
  ReadsRightOffChains
  CallerFindsRegisters
