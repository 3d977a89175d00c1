SPECIFICATION Spec
CONSTANTS
  foo = foo
  bar = bar
  help = help
  R1 = R1
  R2 = R2
  R3 = R3
  R4 = R4
  R5 = R5
  R6 = R6
  R7 = R7
  R8 = R8
  Unplanned = Unplanned
  Functions = {foo, bar, help}
  Pool <- Eight
  Sources <- Plain
INVARIANTS
  FootprintsCover
  BudgetsApart
  FootprintsApart
CHECK_DEADLOCK FALSE
