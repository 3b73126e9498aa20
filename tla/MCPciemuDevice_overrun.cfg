\* Transfers that start strictly inside the DMA window and whose length
\* takes them past the end of dma->buff.
CONSTANTS
  AreaStart = 4
  AreaSize = 2
  AddrCapability = 2
  MaxVectors = 2
  HostSize = 2
  Garbage = Garbage
  None = None
  CPUs = {c1, c2}
  Offsets = {0, 32, 40, 48, 56, 64, 72, 80, 88}
  WriteValues <- MCOverrunWriteValues
  Serialized = TRUE
  Lifecycle = FALSE
SPECIFICATION Spec
INVARIANT NoBufferOverrun
