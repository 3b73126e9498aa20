\* Two vCPUs writing BAR0 under the big QEMU lock, with resets and exit.
CONSTANTS
  AreaStart = 4
  AreaSize = 2
  AddrCapability = 2
  MaxVectors = 2
  HostSize = 2
  Garbage = Garbage
  None = None
  CPUs = {c1, c2}
  Offsets = {0, 32, 40, 48, 56, 64, 72, 80, 88}
  WriteValues <- MCWriteValues
  Serialized = TRUE
  Lifecycle = TRUE
SPECIFICATION Spec
\* After pciemu_device_fini the device is gone and nothing more happens.
CHECK_DEADLOCK FALSE
PROPERTY DeviceImplementsAtomic
PROPERTY StatusEventuallyIdle
