SPECIFICATION PassesSpec
CONSTANTS
  Names <- AllNames
  LabelNames = {"L", "E"}
  Globals = {"g"}
  Content <- OwnAddress
  Cases <- AllCases
  Fresh <- NewNames
  MaxRounds = 20
  MaxRun = 48
INVARIANTS
  KeepsApart
  SameBehaviour
CHECK_DEADLOCK FALSE
