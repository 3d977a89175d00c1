SPECIFICATION Spec
CONSTANTS
  Programs <- SmallPrograms
  Root = "root"
  Globals = {"g", "s", "hidden"}
  MaxObjects = 3
  MaxSteps = 24
INVARIANTS
  SoundWhenPlain
  BugsReported
  NoFalseAlarms
PROPERTY
  Ends
CHECK_DEADLOCK FALSE
