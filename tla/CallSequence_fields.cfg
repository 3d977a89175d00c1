SPECIFICATION Spec
CONSTANTS
  rax = rax
  rdx = rdx
  rsi = rsi
  rdi = rdi
  r10 = r10
  r11 = r11
  xmm0 = xmm0
  Pool <- MCPool
  PackPool <- MCPackPool
  ArgRegs <- MCArgRegs
  XmmRegs <- MCXmmRegs
  Temps <- MCTemps
  RAX = rax
  Frame = Frame
  Units = 4
  MaxArgs = 5
  MaxWords = 3
  Calls <- Packs
INVARIANT
  FieldsArrive
