SPECIFICATION SwitchSpec
CONSTANTS
  Rax = Rax
  Rcx = Rcx
  Rdx = Rdx
  Rsi = Rsi
  Rdi = Rdi
  R8 = R8
  R9 = R9
  R10 = R10
  Rsp = Rsp
  Rip = Rip
  Flags = Flags
  General = {Rax, Rcx, Rdx, Rsi, Rdi, R8, R9, R10}
  Layouts <- Safe
  MaxWork = 2
INVARIANTS
  Intact
  Dispatched
PROPERTIES
  TakesTurns
CHECK_DEADLOCK FALSE
