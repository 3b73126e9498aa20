\* One process, a and b on two pages, the MSI handled late.
SPECIFICATION Spec
CONSTANTS
  AreaStart = 4
  AreaSize = 2
  AddrCapability = 2
  MaxVectors = 2
  HostSize = 2
  Garbage = Garbage
  Values = {1, 2}
  Procs = {u1}
  PageSize = 1
  VarA <- MCVarA1
  VarB <- MCVarB1
  PinMayFail = FALSE
  MapMayFail = FALSE
  PromptIrq = FALSE
INVARIANT NoDoubleRelease
\* The example exits after its check: the system stops there.
CHECK_DEADLOCK FALSE
