SPECIFICATION AnalysisSpec
CONSTANTS
  a = a
  b = b
  Vars = {a, b}
  Registers = {}
  Programs <- MCPrograms
INVARIANTS
  LivenessIsSound
PROPERTIES
  Terminates
