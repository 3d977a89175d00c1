SPECIFICATION Spec
CONSTANTS
  a = a
  b = b
  c = c
  r1 = r1
  r2 = r2
  m1 = m1
  m2 = m2
  Vars = {a, b, c}
  Registers = {r1, r2}
  Spots = {r1, r2, m1}
  Pool = {r1, r2}
  MaxSteps = 9
  Analysed <- StraightPrograms
INVARIANTS
  ReadsRightOffBranches
  LiveValuesInPlace
CHECK_DEADLOCK FALSE
