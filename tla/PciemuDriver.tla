----------------------------- MODULE PciemuDriver -----------------------------
(***************************************************************************)
(* The kernel driver (src/src/sw/kernel) and the userspace example         *)
(* (src/src/sw/userspace/pciemu_example.c) running against the device.    *)
(*                                                                         *)
(* Each user process runs ioctl_pciemu: an ioctl DMA_TO_DEVICE on its int  *)
(* a, an ioctl DMA_FROM_DEVICE on its int b, then the check a == b.  An    *)
(* ioctl pins the page of its argument, maps it for DMA and programs the   *)
(* device with five MMIO writes; it does not wait for the transfer to      *)
(* complete.  The completion MSI runs pciemu_irq_handler, which unmaps     *)
(* and unpins what pciemu_dev->dma holds at that moment and acks the       *)
(* device.  pciemu_dev->dma is one shared record and nothing locks it.     *)
(*                                                                         *)
(* The device is PciemuAtomic: each MMIO write is one step, which the      *)
(* device_serialized run shows PciemuDevice implements when QEMU holds its *)
(* big lock.  Bus addresses are identity-mapped host addresses; an         *)
(* address a lies in page a \div PageSize at offset a % PageSize.          *)
(***************************************************************************)
EXTENDS PciemuAtomic

CONSTANTS
  Procs,        \* user processes running the example
  PageSize,     \* PAGE_SIZE, in model bytes
  VarA, VarB,   \* [Procs -> HostAddrs]: &a and &b of each process
  PinMayFail,   \* pin_user_pages_fast may pin nothing
  MapMayFail,   \* dma_map_page may return DMA_MAPPING_ERROR
  PromptIrq     \* the MSI is handled before the ringing thread goes on

ASSUME PageSize \in Nat \ {0} /\ HostSize % PageSize = 0
ASSUME VarA \in [Procs -> HostAddrs] /\ VarB \in [Procs -> HostAddrs]
ASSUME {PinMayFail, MapMayFail, PromptIrq} \subseteq BOOLEAN

VARIABLES
  written,      \* registers write_registers_sequential has written
  phase,        \* which part of ioctl_pciemu a process is in
  step,         \* where it is inside the current ioctl
  result,       \* the outcome of the a != b test
  dPage,        \* pciemu_dev->dma.page
  dHandle,      \* pciemu_dev->dma.dma_handle
  dLen,         \* pciemu_dev->dma.len
  pins,         \* pin count the driver holds on each user page
  mapped,       \* live DMA mappings per handle
  irqPending,   \* the completion MSI is pending at the CPU
  hpc           \* where pciemu_irq_handler is

driverVars == <<written, phase, step, result, dPage, dHandle, dLen, pins, mapped,
                irqPending, hpc>>
vars == <<atomicVars, driverVars>>

Pages == 0 .. HostSize \div PageSize - 1
NoPage == -1
NoHandle == -1     \* DMA_MAPPING_ERROR (all ones)
Handles == HostAddrs \cup {NoHandle}
IntLen == 1        \* sizeof(int), in model bytes
Steps == {"pin", "map", "src", "dst", "len", "cmd", "ring"}

PageOf(a) == a \div PageSize
OffsetOf(a) == a % PageSize    \* vaddr & ~PAGE_MASK

\* The (u32) cast the driver applies to dma_handle before the MMIO write,
\* at the scaled address width: DMA_MAPPING_ERROR becomes all ones.
Trunc(h) == h % (Mask + 1)

\* Where a process is in ioctl_pciemu, as the example's contract sees it:
\* copying until its FROM_DEVICE ioctl returns, then checking.
ExampleStage == [p \in Procs |->
                   IF phase[p] \in {"check", "done"} THEN phase[p] ELSE "copy"]

\* The ioctl's direction and argument in each phase of ioctl_pciemu.
DirOf(ph) == IF ph = "to_device" THEN DIRECTION_TO_DEVICE
             ELSE DIRECTION_FROM_DEVICE
Arg(p) == IF phase[p] = "to_device" THEN VarA[p] ELSE VarB[p]

\* Where a process goes when its ioctl returns (always 0).
NextPhase(ph) == IF ph = "to_device" THEN "from_device" ELSE "check"
IoctlReturn(p) ==
  /\ phase' = [phase EXCEPT ![p] = NextPhase(@)]
  /\ step' = [step EXCEPT ![p] = "pin"]

\* With PromptIrq, a raised MSI is taken and handled before user code runs.
UserMayRun == ~PromptIrq \/ (~irqPending /\ hpc = "idle")

InIoctl(p, s) ==
  /\ phase[p] \in {"to_device", "from_device"}
  /\ step[p] = s
  /\ UserMayRun

(***************************************************************************)
(* main: after open and mmap of BAR0, write_registers_sequential stores    *)
(* rand() % 1024 into each register through the mapping, then             *)
(* ioctl_pciemu.                                                           *)
(***************************************************************************)
WriteRegister(p) ==
  /\ phase[p] = "regs" /\ UserMayRun
  /\ \E val \in Values : AWriteReg(written[p], val)
  /\ written' = [written EXCEPT ![p] = @ + 1]
  /\ phase' = [phase EXCEPT ![p] = IF written[p] + 1 = REG_CNT
                                    THEN "to_device" ELSE "regs"]
  /\ UNCHANGED <<step, result, dPage, dHandle, dLen, pins, mapped,
                 irqPending, hpc>>

(***************************************************************************)
(* pciemu_ioctl and pciemu_dma_from_{host_to_device,device_to_host}.       *)
(***************************************************************************)
\* Mutant: the page is looked up but no pin is taken on it.
IoctlPinUnpinned(p) ==
  /\ InIoctl(p, "pin")
  /\ dPage' = PageOf(Arg(p))
  /\ step' = [step EXCEPT ![p] = "map"]
  /\ UNCHANGED <<atomicVars, written, phase, result, pins, dHandle, dLen,
                 mapped, irqPending, hpc>>

\* pin_user_pages_fast(vaddr, 1, FOLL_LONGTERM, &pciemu_dev->dma.page).  A
\* failed pin leaves the page pointer alone, and the ioctl returns 0.
IoctlPin(p) ==
  /\ InIoctl(p, "pin")
  /\ \/ /\ pins' = [pins EXCEPT ![PageOf(Arg(p))] = @ + 1]
        /\ dPage' = PageOf(Arg(p))
        /\ step' = [step EXCEPT ![p] = "map"]
        /\ UNCHANGED phase
     \/ /\ PinMayFail
        /\ IoctlReturn(p)
        /\ UNCHANGED <<pins, dPage>>
  /\ UNCHANGED <<atomicVars, written, result, dHandle, dLen, mapped,
                 irqPending, hpc>>

\* pciemu_dma_struct_init and dma_map_page of the page read back from
\* pciemu_dev->dma.page; on a mapping error the function returns -ENOMEM,
\* which pciemu_ioctl ignores: nothing is unpinned.
IoctlMap(p) ==
  LET ofs == OffsetOf(Arg(p))
      len == IF ofs + IntLen > PageSize THEN PageSize - ofs ELSE IntLen
      h == dPage * PageSize + ofs
  IN /\ InIoctl(p, "map")
     /\ dLen' = len
     /\ \/ /\ dHandle' = h
           /\ mapped' = [mapped EXCEPT ![h] = @ + 1]
           /\ step' = [step EXCEPT ![p] = "src"]
           /\ UNCHANGED phase
        \/ /\ MapMayFail
           /\ dHandle' = NoHandle
           /\ IoctlReturn(p)
           /\ UNCHANGED mapped
     /\ UNCHANGED <<atomicVars, written, result, dPage, pins, irqPending,
                    hpc>>

\* Mutant: the device address of TO_DEVICE is one past the window start.
RegValueDstOffByOne(p, s) ==
  LET toDev == phase[p] = "to_device" IN
  CASE s = "src" -> IF toDev THEN Trunc(dHandle) ELSE AreaStart
    [] s = "dst" -> IF toDev THEN AreaStart + 1 ELSE Trunc(dHandle)
    [] s = "len" -> dLen
    [] s = "cmd" -> DirOf(phase[p])

\* The four configuration writes, each reading pciemu_dev->dma anew.
RegValue(p, s) ==
  LET toDev == phase[p] = "to_device" IN
  CASE s = "src" -> IF toDev THEN Trunc(dHandle) ELSE AreaStart
    [] s = "dst" -> IF toDev THEN AreaStart ELSE Trunc(dHandle)
    [] s = "len" -> dLen
    [] s = "cmd" -> DirOf(phase[p])
NextStep == [s \in {"src", "dst", "len", "cmd"} |->
               CASE s = "src" -> "dst" [] s = "dst" -> "len"
                 [] s = "len" -> "cmd" [] s = "cmd" -> "ring"]

IoctlWrite(p) ==
  \E s \in {"src", "dst", "len", "cmd"} :
    /\ InIoctl(p, s)
    /\ AWriteConfig(s, RegValue(p, s))
    /\ step' = [step EXCEPT ![p] = NextStep[s]]
    /\ UNCHANGED <<reg, alive, written, phase, result, dPage, dHandle, dLen, pins,
                   mapped, irqPending, hpc>>

\* iowrite32(1, DOORBELL_RING): the transfer runs inside the MMIO write
\* and msi_notify sends the completion MSI; the ioctl then returns 0.
IoctlRing(p) ==
  /\ InIoctl(p, "ring")
  /\ ADoorbell
  /\ irqPending' = (irqPending \/ ExecDirection(cfg) # NoDirection)
  /\ IoctlReturn(p)
  /\ UNCHANGED <<written, result, dPage, dHandle, dLen, pins, mapped, hpc>>

\* ioctl_pciemu's final test of a against b (pciemu_example.c:167).
CheckValues(p) ==
  /\ phase[p] = "check" /\ UserMayRun
  /\ result' = [result EXCEPT ![p] =
                  IF host[VarA[p]] = host[VarB[p]] THEN "ok" ELSE "mismatch"]
  /\ phase' = [phase EXCEPT ![p] = "done"]
  /\ UNCHANGED <<atomicVars, written, step, dPage, dHandle, dLen, pins, mapped,
                 irqPending, hpc>>

(***************************************************************************)
(* pciemu_irq_handler, one instance at a time for the one MSI vector.      *)
(***************************************************************************)
TakeIrq ==
  /\ irqPending /\ hpc = "idle"
  /\ irqPending' = FALSE
  /\ hpc' = "unmap"
  /\ UNCHANGED <<atomicVars, written, phase, step, result, dPage, dHandle, dLen,
                 pins, mapped>>

\* dma_unmap_page of the handle pciemu_dev->dma holds now.
HandlerUnmap ==
  /\ hpc = "unmap"
  /\ mapped' = [mapped EXCEPT ![dHandle] = @ - 1]
  /\ hpc' = "unpin"
  /\ UNCHANGED <<atomicVars, written, phase, step, result, dPage, dHandle, dLen,
                 pins, irqPending>>

\* Mutant: the handler forgets unpin_user_page.
HandlerUnpinSkipped ==
  /\ hpc = "unpin"
  /\ hpc' = "ack"
  /\ UNCHANGED <<atomicVars, written, phase, step, result, dPage, dHandle,
                 dLen, pins, mapped, irqPending>>

\* unpin_user_page of the page pciemu_dev->dma holds now.
HandlerUnpin ==
  /\ hpc = "unpin"
  /\ pins' = [pins EXCEPT ![dPage] = @ - 1]
  /\ hpc' = "ack"
  /\ UNCHANGED <<atomicVars, written, phase, step, result, dPage, dHandle, dLen,
                 mapped, irqPending>>

\* iowrite32(1, mmio_ack_irq): the device's IRQ_0_LOWER.
HandlerAck ==
  /\ hpc = "ack"
  /\ AWriteIrq(FALSE)
  /\ hpc' = "idle"
  /\ UNCHANGED <<written, phase, step, result, dPage, dHandle, dLen, pins, mapped,
                 irqPending>>

\* The device realized with MSI (probe fails without it), the driver
\* probed, every process has opened the device and mapped BAR0.
Init ==
  /\ AInit /\ msiEnabled
  /\ written = [p \in Procs |-> 0]
  /\ phase = [p \in Procs |-> "regs"]
  /\ step = [p \in Procs |-> "pin"]
  /\ result = [p \in Procs |-> "none"]
  /\ dPage = NoPage
  /\ dHandle = NoHandle
  /\ dLen = 0
  /\ pins = [pg \in Pages |-> 0]
  /\ mapped = [h \in Handles |-> 0]
  /\ irqPending = FALSE
  /\ hpc = "idle"

User(p) == WriteRegister(p) \/ IoctlPin(p) \/ IoctlMap(p) \/ IoctlWrite(p) \/ IoctlRing(p)
             \/ CheckValues(p)
Handler == TakeIrq \/ HandlerUnmap \/ HandlerUnpin \/ HandlerAck

Next == (\E p \in Procs : User(p)) \/ Handler

\* Processes are scheduled, a pending MSI is taken and a running handler
\* finishes: none of them blocks.
Fairness == (\A p \in Procs : WF_vars(User(p))) /\ WF_vars(Handler)

Spec == Init /\ [][Next]_vars /\ Fairness

-----------------------------------------------------------------------------
DriverTypeOK ==
  /\ IrqTypeOK /\ DmaTypeOK
  /\ written \in [Procs -> 0 .. REG_CNT]
  /\ phase \in [Procs -> {"regs", "to_device", "from_device", "check", "done"}]
  /\ step \in [Procs -> Steps]
  /\ result \in [Procs -> {"none", "ok", "mismatch"}]
  /\ dPage \in Pages \cup {NoPage}
  /\ dHandle \in Handles
  /\ pins \in [Pages -> Int]
  /\ mapped \in [Handles -> Int]
  /\ irqPending \in BOOLEAN
  /\ hpc \in {"idle", "unmap", "unpin", "ack"}

\* Every process has returned and no interrupt is pending or being handled.
Quiescent ==
  /\ \A p \in Procs : phase[p] = "done"
  /\ ~irqPending /\ hpc = "idle"

Copy == INSTANCE PciemuCopy WITH Addrs <- HostAddrs, Data <- Bytes,
                                 mem <- host, stage <- ExampleStage

\* The driver and the device implement the example's contract: the host
\* memory changes only when a FROM_DEVICE ioctl returns, and then exactly
\* by writing a into b; every process reaches its check.  A transfer that
\* is lost, lands elsewhere or moves the wrong bytes breaks it.
DriverImplementsCopy == Copy!Spec

\* Once the example has finished and its interrupts have been handled, the
\* driver holds no pin on a user page and no DMA mapping: each ioctl's pin
\* and map are undone by the handler of its completion interrupt.
PinsReleased ==
  Quiescent =>
    /\ \A pg \in Pages : pins[pg] = 0
    /\ \A h \in HostAddrs : mapped[h] = 0

\* The device writes user memory only through a live DMA mapping of a
\* pinned page: the handler of an earlier transfer has not released it.
DmaTargetsPinned ==
  [][\A a \in HostAddrs :
       host'[a] # host[a] => pins[PageOf(a)] > 0 /\ mapped[a] > 0]_vars

\* The handler never unpins a page the driver holds no pin on, and never
\* unmaps a handle that is not mapped.
NoDoubleRelease ==
  /\ \A pg \in Pages : pins[pg] >= 0
  /\ \A h \in HostAddrs : mapped[h] >= 0

=============================================================================
