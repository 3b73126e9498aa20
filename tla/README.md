# TLA+ models of pciemu

These models cover the pciemu QEMU device (`src/src/hw/pciemu`), the kernel
driver (`src/src/sw/kernel`) and the userspace example
(`src/src/sw/userspace`).

## The system

- **QEMU device.** The guest reaches it through BAR0 MMIO writes, handled by
  `pciemu_mmio_write` (mmio.c). The dispatcher forwards each write to one of
  three places:
  - the four scratch registers `dev->reg[0..3]`;
  - the interrupt block (irq.c), through the debug raise and lower offsets
    0x20 and 0x28;
  - the DMA engine (dma.c), through the config offsets 0x30 to 0x48 and the
    doorbell at 0x50.

  On a doorbell ring, the engine does a compare-and-swap from Idle to
  Executing on `dma.status`. It then runs `pciemu_dma_execute`, which checks
  the command and the device-side address, masks the bus address, copies with
  `pci_dma_read`/`pci_dma_write`, and raises vector 0. Finally it stores Idle.

  Lifecycle hooks (pciemu.c) call each block's init, reset and fini in order.
  QEMU dispatches MMIO with the big QEMU lock held. The spec (§5) still asks
  that the doorbell be safe if that serialization is violated.

- **Kernel driver.** It is in `src/src/sw/kernel`:
  - `pciemu_ioctl` pins one user page and maps it. It then programs src, dst,
    len and cmd and rings the doorbell.
  - The IRQ handler unmaps and unpins the page, then acks by writing
    IRQ_0_LOWER.
  - `probe` and `remove` set up and tear down the BAR mapping, the char device
    and the interrupt.

- **Userspace example.** It drives the driver through ioctl and mmap.

State kept by each part:

| part | state |
|---|---|
| DMA engine | `status`; `config` (src, dst, len, cmd, mask); `buff[AREA_SIZE]` |
| interrupt block | `pin.raised`, `msi_vectors[v].raised`, and whether MSI is enabled |
| dispatcher | `reg[4]` |
| driver | `dma.page`, `dma_handle`, `len`, `direction`, the BAR mapping, the IRQ |

## Modules

| module | models | state / actions |
|---|---|---|
| `PciemuHw` | pciemu_hw.h, and the limits in dma.h and irq.h | Offsets keep their real values. `AreaStart`, `AreaSize`, `AddrCapability` and `MaxVectors` are CONSTANTS. |
| `PciemuIrq` | irq.c | Variables: `msiEnabled`, `pinRaised`, `msiRaised`. Each operation (`IrqRaise`, `IrqLower`, `IrqReset`, `IrqInit`, `IrqFini`) is given as the state it produces, so the device actions and the refinement mapping can both use it. |
| `PciemuDma` | dma.c | Variables: `status`, `cfg`, `buff`, `host` (bus memory) and the ghost `overrun`. Defines `AddrMask`, `InsideDeviceBoundaries`, `ExecDirection`, `Transfer` (the byte copy), `ConfigStore`, `DmaReset`, `DmaInit` and `DmaFini`. |
| `PciemuDevice` | mmio.c + dma.c + pciemu.c | Composes the two modules above with vCPU threads (`pc`, `req`, `seen`, `dir`) and the big-lock `owner`. There is one action per switch arm. Handlers that read shared state and act later are split at those reads (see below). `Reset` and `Fini` are the lifecycle. |
| `PciemuAtomic` | the register contract | The abstract specification. Every BAR0 write is one step, and a doorbell on an idle engine does the whole transfer and the raise at once. |
| `MCPciemuDevice` | — | The TLC instance. It defines the write values and the refinement mapping to `PciemuAtomic`. |
| `PciemuDriver` | pciemu_module.c (ioctl), pciemu_dma.c, pciemu_irq.c (handler), pciemu_example.c | Example processes and the IRQ handler on top of `PciemuAtomic` (see below). |
| `PciemuCopy` | the contract of ioctl_pciemu (pciemu_example.c:140-172) | The abstract specification of the example's use of the driver. Each process's two ioctls together are one copy of `a` into `b`, followed by the check, and every process gets there (weak fairness). |
| `MCPciemuDriver` | — | The TLC instance. It places each process's `a` and `b` in bus RAM. |
| `PciemuArgs` | pciemu_example.c (parse_args) | Variables: `argv`, `optind`, `ctx` (struct context), `status`. One action per getopt case (`OptBus`, `OptDomain`, `OptSlot`, `OptRegs`, `OptHelp`, `OptVerbose`, `OptUnknown`, and `StrtolFails`), then `CheckProvided`. Each strtol result is narrowed to its field's width (`Narrow`) before the range test, as the C assignment does. |
| `PciemuProbe` | pciemu_module.c (module init/exit, probe, remove, open, mmap), pciemu_irq.c (enable_msi, handler) | The driver's kernel objects as a set `held`, against a user file and the completion interrupt. |

How the handler steps map to the code:

| action | code |
|---|---|
| `WriteConfig` | the `qatomic_read` of the status (dma.c:124) |
| `CfgStore` | the store (dma.c:125) |
| `WriteDoorbell` | the CAS and early return (dma.c:195-198) |
| `ExecCheck` | the cmd and bounds checks (dma.c:60-75, 92-95) |
| `ExecIo` | the mask, offset and copy, which re-read the config (dma.c:76-82, 96-102) |
| `ExecRaise` | dma.c:104 |
| `SetIdle` | dma.c:200 |

Data is abstracted as follows:
- Sizes are scaled: a 2-byte window at address 4, a 2-bit address
  capability, 2 bytes of bus RAM and 2 MSI vectors.
- Bus RAM holds distinct bytes, so a copy from a wrong address shows.
- A byte read past `buff` or from unassigned bus memory is the model value
  `Garbage`.
- Writes to unassigned bus memory are dropped, as QEMU drops them.
- An address below AREA_START gives a negative offset. The C code wraps it to
  a huge unsigned offset, which is equally outside the buffer.

### The driver and the example (`PciemuDriver`)

The driver is composed with the atomic device, not the detailed one:
device_serialized shows that, under the big QEMU lock, every behaviour of
the detailed device is one of `PciemuAtomic`. A guest BAR0 write is
therefore one step.

Each example process runs `main` from after open and mmap:
- `WriteRegister` is `write_registers_sequential`, one register per step.
- Then come the two ioctls of `ioctl_pciemu`: TO_DEVICE on `a`, then
  FROM_DEVICE on `b`.
- `CheckValues` is the `a != b` test.

An ioctl is split at every call that changes shared state:
- `IoctlPin` is `pin_user_pages_fast`, which may fail.
- `IoctlMap` is `dma_map_page`. It may return `DMA_MAPPING_ERROR`, and the
  ioctl still returns 0.
- `IoctlWrite` is one `iowrite32` per config register. `RegValue` is the
  value written; the handle is truncated by `(u32)`.
- `IoctlRing` is the doorbell.

`dma.page`, `dma_handle` and `len` are single shared variables (`dPage`,
`dHandle`, `dLen`), as in `struct pciemu_dev`. `pins` and `mapped` count the
references per page and per handle.

The handler has four steps:
- `TakeIrq` takes a pending MSI. The pending MSI is a flag, because the LAPIC
  coalesces it.
- `HandlerUnmap` unmaps the handle and `HandlerUnpin` unpins the page, both
  the ones `dma` holds at that moment.
- `HandlerAck` acks through IRQ_0_LOWER.

Scales: one byte per page (`PageSize = 1`), two bytes of bus RAM, and an
identity IOMMU, so a handle is the bus address. `PromptIrq` is the scheduling
in which the handler runs on the ringing CPU before the process goes on,
which is the usual case.

### Probe, remove and module lifetime (`PciemuProbe`)

Probe steps:
- `ClassCreate` and `RegisterDriver` are `pciemu_module_init`.
- Each step of `pciemu_probe` (`ProbeSteps`, including `IrqEnableSteps` for
  `pciemu_irq_enable_msi`) acquires one object, or fails and jumps to its
  `err_` label.
- `UnwindLabels` lists what each label releases, in code order. Labels fall
  through into the next, as in C.
- The step's own error path is in `undo`: enable_msi frees its vectors
  there.
- `err` is tracked, because `err_select_region` is reached with err = 0.

Teardown:
- `ModuleExit` calls remove only on a device whose probe returned 0.
- `RemoveStep` follows `pciemu_remove` line by line. The `free_irq` step
  waits for a running handler, as `free_irq` synchronizes.
- The user runs the example's `main`: `Open`, `Mmap`, `WriteRegisters`
  through the mapping, `Ioctl`, `Close`.
- `Open` requires the node, the cdev and a non-zero `bar.len`.
- `Mmap` is `pciemu_mmap`. After `pciemu_dev_clean` has zeroed `bar.len` it
  fails with -EIO, and the example closes its file. Otherwise BAR0 is mapped
  into the process, and nothing in remove unmaps it.
- `Ioctl` rings the doorbell, and the device sends the MSI while bus
  mastering is on.
- The handler needs the IRQ to be requested.

## Runs

| run | cfg | expect | checks |
|---|---|---|---|
| device_serialized | MCPciemuDevice.cfg | pass | `DeviceImplementsAtomic`, `StatusEventuallyIdle` |
| device_unserialized | MCPciemuDevice_unserialized.cfg | pass | `AtMostOneInFlight` |
| configrace | MCPciemuDevice_configrace.cfg | violation | `DeviceImplementsAtomic` without the lock |
| overrun | MCPciemuDevice_overrun.cfg | violation | `NoBufferOverrun` |
| driver_prompt | MCPciemuDriver_prompt.cfg | pass | `DriverImplementsCopy`, `PinsReleased` |
| driver_faults | MCPciemuDriver_faults.cfg | pass | `DmaTargetsPinned` with pin and map failures |
| driver_lateirq | MCPciemuDriver_lateirq.cfg | violation | `NoDoubleRelease` with the interrupt handled late |
| driver_concurrent | MCPciemuDriver_concurrent.cfg | violation | `PinsReleased` with two processes |
| probe_lifecycle | MCPciemuProbe.cfg | pass | `ProbeOutcome`, `ExitReleasesAll` |
| remove_lateirq | MCPciemuProbe_lateirq.cfg | violation | `IrqAckMapped` |
| remove_openfd | MCPciemuProbe_openfd.cfg | violation | `UserOpsOnLiveDevice` |
| args_narrowing | MCPciemuArgs_narrowing.cfg | violation | `ArgsAsTyped` |

- **device_serialized.** It runs two vCPUs, every offset, reset and
  unrealize. Every run of the multi-step handlers is a run of the atomic
  contract: no config write or doorbell is ever seen half done. The engine
  also always leaves Executing. The run takes about 590k states.
  `CHECK_DEADLOCK FALSE` is set because after unrealize nothing can happen:
  the BAR0 region is gone, so no MMIO reaches the device.
- **device_unserialized.** Without the lock, the compare-and-swap still keeps
  at most one vCPU inside `pciemu_dma_execute`.
- **configrace (finding).** c1's config write reads Idle. c2 rings the
  doorbell and passes the bounds check with src = 5. c1 then stores src = 1,
  so c2's copy starts below the window.
- **overrun (finding).** The run holds dst at the window start
  (`MCOverrunWriteValues`), so the inclusive end is not what overruns.
  FROM_DEVICE with src = 5, strictly inside the window, and len = 2 reads
  `buff[1..2]`, one byte past the buffer: the bounds check tests only the
  start address and never tests `len`. The inclusive end (dst or src =
  AREA_START + AREA_SIZE, which the unit test accepts) is a second way past
  it.

- **driver_prompt.** One process, with each completion handled before the
  process goes on. The driver and the device implement `PciemuCopy`, under
  the refinement mapping `mem <- host`, `stage <- ExampleStage`:
  - host memory changes only in the step where the FROM_DEVICE ioctl rings
    and returns, and then exactly by b := a;
  - every process reaches its check.

  The refinement fails as soon as a pin may fail, because `pciemu_ioctl`
  then returns 0 with no transfer; that is listed as a hazard. Every pin
  and mapping is released at the end (`PinsReleased`). The run takes 399
  states.
- **driver_faults.** Pinning and mapping may fail, with each completion
  handled before the process goes on. A failed pin leaves `dma.page` and
  `dma_handle` holding the previous ioctl's page and handle, already
  released by its handler, and a failed map leaves the handle at
  DMA_MAPPING_ERROR. `DmaTargetsPinned` says the device still writes user
  memory only through a page that is pinned and mapped: both failure paths
  return before the device is programmed. The run takes about 1k states.
- **driver_lateirq (finding).** The TO_DEVICE completion is handled after
  the FROM_DEVICE ioctl has pinned and mapped `b`. The handler releases
  what `dma` holds now, which is `b`'s page and handle. The second
  completion releases them again, and the counts go to -1. Before that
  second completion, the device writes `b` through an unpinned,
  unmapped page.
- **driver_concurrent (finding).** Two processes share `pciemu_dev->dma`
  and the config registers with no lock, and each completion is handled
  promptly. u2's src, dst and len writes land between u1's FROM_DEVICE
  writes. u1's cmd write and doorbell then run a descriptor whose src is
  u2's bus address. The bounds check fails, no completion interrupt is
  raised, and the pin and mapping of u1's ioctl are never released, so
  `PinsReleased` fails. An ioctl holding a lock from the pin to the
  doorbell could not mix two descriptors. (The a == b check is not the
  property here: two example runs share the device's one buffer, and they
  would disturb each other even with a locked ioctl.)
- **probe_lifecycle.** Every fallible call of module init, probe and
  enable_msi may fail. Probe returns 0 exactly when it holds everything,
  and otherwise holds nothing. After module exit the driver holds nothing.
  Resources are a set, so these properties catch leaks but not a release
  done twice.
  The run takes 259 states.
- **remove_lateirq (finding).** An ioctl rings just before teardown, and
  its interrupt is handled between `pciemu_dev_clean` (the iounmap) and
  `free_irq`. The ack writes through the unmapped BAR.
- **remove_openfd (finding).** `UserOpsOnLiveDevice` says that each of the
  example's file operations reaches a live device: mmap on unfreed state,
  register stores while the device is enabled and owns its region, and the
  ioctl with BAR0 mapped. A file opened while the node exists breaks it. The
  shortest case is during probe's own unwind, after `device_create`, when
  enable_msi fails: the file is mapped and written, then its ioctl runs
  after the unwind has unmapped BAR0. Remove has the same window, and a
  user mapping made before remove keeps reaching the released BAR0.
- **args_narrowing (finding).** `parse_args` assigns each `strtol` result
  to its field (uint16_t bus, uint8_t slot and register count) before
  testing the range. With argv `-b 1 -s 260`, the slot becomes 4, passes the
  `< 32` test, and the example opens the device in slot 4. `ArgsAsTyped`
  (every value used is the last one typed) fails. Values are {1, 4, 260,
  65537} with at most two options: 260 and 65537 wrap into range for the
  8-bit and 16-bit fields, and 1 and 4 are in range. The uint32_t domain
  cannot wrap for values TLC's integers hold; a negative domain is out of
  range either way.

Two further code bugs are modelled but no run shows them:
- A `dma_map_page` failure leaks the pin. `IoctlMap`'s failure disjunct
  does not unpin, so PinsReleased fails when mapping may fail.
- `err_select_region` returns 0. Set `Bar0Missing = TRUE` to see it. The
  pciemu device always has a memory BAR0, so the runs keep
  `Bar0Missing` FALSE.

They are listed as hazards in PROJECT.json.

Mutants: each property of a passing run breaks under a plausible bug.
- `DeviceImplementsAtomic` breaks when the address mask is forgotten.
- `StatusEventuallyIdle` breaks when the Idle store is missing.
- `AtMostOneInFlight` breaks when the early return is missing.
- `DriverImplementsCopy` breaks when the TO_DEVICE dst is off by one.
- `PinsReleased` breaks when the handler skips the unpin.
- `DmaTargetsPinned` breaks when the ioctl records the page without
  pinning it.
- `ProbeOutcome` breaks when `err_device_create` forgets `cdev_del`.
- `ExitReleasesAll` breaks when remove forgets `pci_free_irq_vectors`.

**Bounds.** The values written are listed in `MCWriteValues`:
- src ∈ {1 (below the window), 5 (inside, and masks to bus address 1)};
- dst ∈ {4 (start), 6 (the inclusive end), 7 (past it)};
- len ∈ {1, 2};
- cmd ∈ {0, 1, 2}.

`PciemuDevice.TypeOK` is kept as documentation of the state's shape. No
run checks it: the model clips the buffer side of a copy to `dma->buff`
and records the bytes the code would touch outside it in the ghost
`overrun`, so a type check there would only restate that abstraction.

Together these take every branch of `pciemu_dma_execute`: bad cmd, bounds
failure in each direction, an in-bounds copy, a masked address, and a copy
running past the buffer. Two vCPUs are enough for every two-thread race on
the one status word. The unserialized runs use one dst and one len, which is
enough for the races, and keep the check fast.

**Driver bounds.** One process is enough for every ordering of a single
client's two ioctls against its interrupts. Two processes
(driver_concurrent, with two bytes per process) are enough for the ioctl
race. A passing two-process run with temporal checking is out of TLC's
reach here. The `Values` {1, 2} for the scratch registers make the guest's
register traffic part of every interleaving.

**Probe bounds.** One user file is enough, since the hazards are about one
file against the teardown. Every fallible step has a failure branch.

**Fairness.** `WF_vars(Continue(t))` for each vCPU: a vCPU that is inside a
handler finishes it, since the handler has no blocking call. No fairness is
assumed for the guest issuing new writes.

In `PciemuDriver`, weak fairness is assumed for each process and for the
handler:
- A process blocks only in its own syscalls, and those return.
- A pending MSI is delivered to a requested IRQ, and the handler has no
  blocking call.

`PciemuProbe` assumes no fairness: its properties are safety properties.
`pciemu_remove` is straight-line code whose only wait is `free_irq` on a
handler that runs at most once, so its completion is not a question worth
a run.

## Not modelled (yet)

- `pciemu_mmio_read`: it changes no state.
- QOM registration and class_init, and the region and BAR registration done
  in mmio init: these are boilerplate.
- A guest toggling MSI at run time: `msiEnabled` is fixed at realize. This
  driver changes the MSI enable bit only in probe and after `free_irq` in
  remove, so no ack meets a toggle.
- MMIO after unrealize: the region is removed under the big lock, so no
  write reaches a device in DMA_STATUS_OFF. The code would revive an Off
  engine on a doorbell (dma.c:197 tests only for Executing), but nothing
  can ring it.
- Printing, `usage` and the formatting of the `/dev` node name are I/O.
  `parse_args` itself is modelled.
- The driver is composed with the atomic device, not the detailed one. The
  refinement run justifies this under the big lock.

Next steps:

1. A larger page with a straddling ioctl argument (`len < sizeof(int)`).
2. The detailed device under the driver, to check transfers the driver
   issues against NoBufferOverrun.
