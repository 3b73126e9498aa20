\* One process; pinning and mapping may fail; each MSI is handled on the
\* ringing CPU before the process goes on.
SPECIFICATION Spec
CONSTANTS
  AreaStart = 4
  AreaSize = 2
  AddrCapability = 2
  MaxVectors = 2
  HostSize = 2
  Garbage = Garbage
  Values = {1, 2}
  Procs = {u1}
  PageSize = 1
  VarA <- MCVarA1
  VarB <- MCVarB1
  PinMayFail = TRUE
  MapMayFail = TRUE
  PromptIrq = TRUE
PROPERTY DmaTargetsPinned
\* The example exits after its check: the system stops there.
CHECK_DEADLOCK FALSE
