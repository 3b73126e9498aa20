\* Two vCPUs whose BAR0 writes interleave without the big QEMU lock.
CONSTANTS
  AreaStart = 4
  AreaSize = 2
  AddrCapability = 2
  MaxVectors = 2
  HostSize = 2
  Garbage = Garbage
  None = None
  CPUs = {c1, c2}
  Offsets = {32, 40, 48, 56, 64, 72, 80}
  WriteValues <- MCRaceWriteValues
  Serialized = FALSE
  Lifecycle = FALSE
SPECIFICATION Spec
INVARIANT AtMostOneInFlight
