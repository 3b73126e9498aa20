\* Two processes, MSI handled promptly, no allocation failure.
SPECIFICATION Spec
CONSTANTS
  AreaStart = 4
  AreaSize = 2
  AddrCapability = 2
  MaxVectors = 2
  HostSize = 4
  Garbage = Garbage
  Values = {1, 2}
  Procs = {u1, u2}
  PageSize = 2
  VarA <- MCVarA2
  VarB <- MCVarB2
  PinMayFail = FALSE
  MapMayFail = FALSE
  PromptIrq = TRUE
INVARIANT PinsReleased
\* The example exits after its check: the system stops there.
CHECK_DEADLOCK FALSE
