SPECIFICATION Spec
CONSTANTS
  rax = rax
  rcx = rcx
  rdx = rdx
  rbx = rbx
  Temps = {t1, t2, t3}
  Spots = {rax, rcx, rdx}
  AllocRegisters <- TwoRegisters
  MaxNodes = 4
  Sizes = {1, 8}
  MaxPrefs = 3
INVARIANTS
  ProperColouring
  NeverInClobbered
  WorkingGraphIsQuotient
  SlotsFit
  NoNeedlessSpill
PROPERTIES
  EveryValuePlaced
  ImplementsAssignment
