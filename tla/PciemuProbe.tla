------------------------------ MODULE PciemuProbe ------------------------------
(***************************************************************************)
(* Lifetime of the kernel driver's resources: pciemu_module_init,          *)
(* pciemu_probe with its error-unwind ladder (and pciemu_irq_enable_msi),  *)
(* pciemu_remove and pciemu_module_exit, against a user process that opens *)
(* the device node and issues an ioctl, and the completion interrupt that  *)
(* ioctl provokes.                                                         *)
(*                                                                         *)
(* Every kernel object the driver acquires is a member of held.  A probe   *)
(* step acquires one and may fail; a failure jumps to an err_ label, and   *)
(* the labels fall through one into the next, each releasing what its      *)
(* line releases.  What each label releases, and what remove releases in   *)
(* which order, is read off the code, not derived from what was acquired. *)
(***************************************************************************)
EXTENDS Naturals, Sequences

CONSTANTS
  Users,        \* user processes holding a file on the device node
  Bar0Missing   \* pci_select_bars reports no memory BAR 0

ASSUME Bar0Missing \in BOOLEAN

VARIABLES
  mpc,          \* where the module thread is: [part, i]
  held,         \* kernel objects the driver holds
  err,          \* err of pciemu_probe is non-zero
  probeRet,     \* what pciemu_probe returned
  fd,           \* each user's file
  irqPending,   \* a completion MSI is pending
  hpc           \* where pciemu_irq_handler is

vars == <<mpc, held, err, probeRet, fd, irqPending, hpc>>

(***************************************************************************)
(* pciemu_probe: the acquiring steps in order (pciemu_module.c:143-233,    *)
(* pciemu_irq.c:30-89).  acq is what success adds, undo what the step      *)
(* itself releases on failure, fail the label it jumps to, setsErr whether *)
(* err is non-zero there.                                                  *)
(***************************************************************************)
Step(acq, canFail, undo, fail, setsErr) ==
  [acq |-> acq, canFail |-> canFail, undo |-> undo, fail |-> fail,
   setsErr |-> setsErr]

\* What pciemu_alloc_dev, pciemu_dev_init and pciemu_dev_clean take and
\* give back: the device state, and the BAR0 mapping (pci_iomap, which
\* pciemu_dev_init undoes itself when it fails).
AllocDev == {"alloc"}
DevInit == {"iomap"}
DevClean == {"iomap"}

\* pciemu_irq_enable_msi: the vectors, the count and vector checks that
\* free them, and request_irq, which frees them when it fails.
IrqEnableSteps == <<
  Step({"vectors"}, TRUE, {}, 1, TRUE),           \* pci_alloc_irq_vectors
  Step({},          TRUE, {"vectors"}, 1, TRUE),  \* count or vector check
  Step({"irq"},     TRUE, {"vectors"}, 1, TRUE)   \* request_irq
  >>

ProbeSteps == <<
  Step(AllocDev,    TRUE,  {}, 10, TRUE),   \* kmalloc
  Step({"enabled"}, TRUE,  {}, 9,  TRUE),   \* pci_enable_device
  Step({},          TRUE,  {}, 8,  TRUE),   \* dma_set_mask_and_coherent
  Step({"master"},  FALSE, {}, 0,  FALSE),  \* pci_set_master
  Step({},          Bar0Missing, {}, 7, FALSE), \* pci_select_bars: err is 0
  Step({"regions"}, TRUE,  {}, 6,  TRUE),   \* pci_request_selected_regions
  Step(DevInit,     TRUE,  {}, 5,  TRUE),   \* pciemu_dev_init
  Step({"chrdev"},  TRUE,  {}, 4,  TRUE),   \* alloc_chrdev_region
  Step({"cdev"},    TRUE,  {}, 3,  TRUE),   \* cdev_add
  Step({"node"},    TRUE,  {}, 2,  TRUE)    \* device_create
  >> \o IrqEnableSteps                      \* pciemu_irq_enable

\* A ladder whose err_device_create forgets cdev_del.
UnwindLabelsNoCdevDel == <<
  {"node"}, {}, {"chrdev"}, {"iomap"}, {"regions"}, {}, {"master"},
  {"enabled"}, {"alloc"}, {}>>

\* The err_ labels in code order; each falls through into the next.
UnwindLabels == <<
  {"node"},      \* err_irq_enable: device_destroy
  {"cdev"},      \* err_device_create: cdev_del
  {"chrdev"},    \* err_cdev_add: unregister_chrdev_region
  DevClean,      \* err_alloc_chrdev: pciemu_dev_clean
  {"regions"},   \* err_dev_init: pci_release_selected_regions
  {},            \* err_req_region
  {"master"},    \* err_select_region: pci_clear_master
  {"enabled"},   \* err_dma_set_mask: pci_disable_device
  {"alloc"},     \* err_pci_enable: kfree
  {}             \* err_pciemu_alloc: return err
  >>

\* A remove that forgets pci_free_irq_vectors.
RemoveStepsNoFreeVectors == <<{"node"}, {"cdev"}, {"chrdev"}, {"iomap"},
  {"master"}, {"irq"}, {}, {"regions"}, {"enabled"}, {"alloc"}>>

\* pciemu_remove, in code order (pciemu_module.c:275-287).
RemoveSteps == <<{"node"}, {"cdev"}, {"chrdev"}, DevClean, {"master"},
                 {"irq"}, {"vectors"}, {"regions"}, {"enabled"}, AllocDev>>

ProbeRes == UNION {ProbeSteps[i].acq : i \in 1 .. Len(ProbeSteps)}

At(part, i) == [part |-> part, i |-> i]
Goto(part, i) == mpc' = At(part, i)

(***************************************************************************)
(* The module thread.                                                      *)
(***************************************************************************)
\* pciemu_module_init: class_create, then pci_register_driver, which
\* probes the device; a failed registration destroys the class.
ClassCreate ==
  /\ mpc = At("init", 1)
  /\ \/ held' = held \cup {"class"} /\ Goto("init", 2)
     \/ UNCHANGED held /\ Goto("done", 0)
  /\ UNCHANGED <<err, probeRet, fd, irqPending, hpc>>

RegisterDriver ==
  /\ mpc = At("init", 2)
  /\ \/ Goto("probe", 1) /\ UNCHANGED held
     \/ held' = held \ {"class"} /\ Goto("done", 0)
  /\ UNCHANGED <<err, probeRet, fd, irqPending, hpc>>

\* One acquiring step of pciemu_probe, succeeding or jumping to its label.
ProbeStep ==
  /\ mpc.part = "probe"
  /\ LET s == ProbeSteps[mpc.i] IN
       \/ /\ held' = held \cup s.acq
          /\ IF mpc.i = Len(ProbeSteps)
             THEN Goto("unwind", Len(UnwindLabels) + 1) /\ err' = FALSE
             ELSE Goto("probe", mpc.i + 1) /\ UNCHANGED err
       \/ /\ s.canFail
          /\ held' = held \ s.undo
          /\ err' = s.setsErr
          /\ Goto("unwind", s.fail)
  /\ UNCHANGED <<probeRet, fd, irqPending, hpc>>

\* One err_ label of pciemu_probe; past the last one, return err.
Unwind ==
  /\ mpc.part = "unwind"
  /\ IF mpc.i <= Len(UnwindLabels)
     THEN /\ held' = held \ UnwindLabels[mpc.i]
          /\ Goto("unwind", mpc.i + 1)
          /\ UNCHANGED probeRet
     ELSE /\ probeRet' = IF err THEN "err" ELSE "ok"
          /\ Goto("loaded", 0)
          /\ UNCHANGED held
  /\ UNCHANGED <<err, fd, irqPending, hpc>>

\* pciemu_module_exit: pci_unregister_driver calls pciemu_remove on a
\* device whose probe returned 0.
ModuleExit ==
  /\ mpc = At("loaded", 0)
  /\ IF probeRet = "ok" THEN Goto("remove", 1) ELSE Goto("exit", 0)
  /\ UNCHANGED <<held, err, probeRet, fd, irqPending, hpc>>

\* One release of pciemu_remove; free_irq waits for a running handler.
RemoveStep ==
  /\ mpc.part = "remove"
  /\ RemoveSteps[mpc.i] = {"irq"} => hpc = "idle"
  /\ held' = held \ RemoveSteps[mpc.i]
  /\ IF mpc.i = Len(RemoveSteps) THEN Goto("exit", 0)
     ELSE Goto("remove", mpc.i + 1)
  /\ UNCHANGED <<err, probeRet, fd, irqPending, hpc>>

ClassDestroy ==
  /\ mpc = At("exit", 0)
  /\ held' = held \ {"class"}
  /\ Goto("done", 0)
  /\ UNCHANGED <<err, probeRet, fd, irqPending, hpc>>

(***************************************************************************)
(* A user process running the example (pciemu_example.c main): open,      *)
(* mmap of BAR0, the register writes through that mapping, one ioctl,     *)
(* close.                                                                  *)
(***************************************************************************)
\* pciemu_open: the node and cdev exist and bar.len is not 0.
Open(u) ==
  /\ fd[u] = "closed"
  /\ {"node", "cdev", "iomap"} \subseteq held
  /\ fd' = [fd EXCEPT ![u] = "open"]
  /\ UNCHANGED <<mpc, held, err, probeRet, irqPending, hpc>>

\* pciemu_mmap reads bar.len from the file's pciemu_dev: pciemu_dev_clean
\* has set it to 0, so a one-page mapping then fails with -EIO and the
\* example closes the file (mmap_pciemu_bar, main); otherwise
\* io_remap_pfn_range maps BAR0, and nothing unmaps it when remove runs.
Mmap(u) ==
  /\ fd[u] = "open"
  /\ fd' = [fd EXCEPT ![u] = IF "iomap" \in held THEN "mapped"
                                                  ELSE "closed_after"]
  /\ UNCHANGED <<mpc, held, err, probeRet, irqPending, hpc>>

\* write_registers_sequential: stores through the user mapping of BAR0.
WriteRegisters(u) ==
  /\ fd[u] = "mapped"
  /\ fd' = [fd EXCEPT ![u] = "written"]
  /\ UNCHANGED <<mpc, held, err, probeRet, irqPending, hpc>>

\* pciemu_ioctl on the file's private_data; its doorbell makes the device
\* send the completion MSI while bus mastering is on, and the MSI reaches
\* the handler while the IRQ is requested.
Ioctl(u) ==
  /\ fd[u] = "written"
  /\ fd' = [fd EXCEPT ![u] = "ioctled"]
  /\ irqPending' = (irqPending \/ {"master", "irq"} \subseteq held)
  /\ UNCHANGED <<mpc, held, err, probeRet, hpc>>

Close(u) ==
  /\ fd[u] = "ioctled"
  /\ fd' = [fd EXCEPT ![u] = "closed_after"]
  /\ UNCHANGED <<mpc, held, err, probeRet, irqPending, hpc>>

(***************************************************************************)
(* pciemu_irq_handler: unmap and unpin from pciemu_dev, then the ack.      *)
(***************************************************************************)
TakeIrq ==
  /\ irqPending /\ hpc = "idle" /\ "irq" \in held
  /\ irqPending' = FALSE
  /\ hpc' = "body"
  /\ UNCHANGED <<mpc, held, err, probeRet, fd>>

HandlerBody ==
  /\ hpc = "body"
  /\ hpc' = "ack"
  /\ UNCHANGED <<mpc, held, err, probeRet, fd, irqPending>>

HandlerAck ==
  /\ hpc = "ack"
  /\ hpc' = "idle"
  /\ UNCHANGED <<mpc, held, err, probeRet, fd, irqPending>>

Init ==
  /\ mpc = At("init", 1)
  /\ held = {}
  /\ err = FALSE
  /\ probeRet = "none"
  /\ fd = [u \in Users |-> "closed"]
  /\ irqPending = FALSE
  /\ hpc = "idle"

Next ==
  \/ ClassCreate \/ RegisterDriver \/ ProbeStep \/ Unwind \/ ModuleExit
  \/ RemoveStep \/ ClassDestroy
  \/ \E u \in Users : Open(u) \/ Mmap(u) \/ WriteRegisters(u) \/ Ioctl(u)
                       \/ Close(u)
  \/ TakeIrq \/ HandlerBody \/ HandlerAck

Spec == Init /\ [][Next]_vars

-----------------------------------------------------------------------------
TypeOK ==
  /\ mpc \in [part : {"init", "probe", "unwind", "loaded", "remove", "exit",
                      "done"}, i : Nat]
  /\ held \subseteq ProbeRes \cup {"class"}
  /\ err \in BOOLEAN
  /\ probeRet \in {"none", "ok", "err"}
  /\ fd \in [Users -> {"closed", "open", "mapped", "written", "ioctled",
                         "closed_after"}]
  /\ irqPending \in BOOLEAN
  /\ hpc \in {"idle", "body", "ack"}

\* pciemu_probe returns 0 exactly when it holds everything it acquires,
\* and on an error it has released all of it: the PCI core calls remove
\* only after a 0, and remove releases all of it again.
ProbeOutcome ==
  mpc = At("loaded", 0) =>
    /\ probeRet = "ok" => ProbeRes \subseteq held
    /\ probeRet = "err" => held \cap ProbeRes = {}

\* After pciemu_module_exit the driver holds nothing, whichever probe,
\* enable_msi or registration step failed on the way.
ExitReleasesAll == mpc = At("done", 0) => held = {}

\* The handler's ack write goes through the BAR mapping only while it is
\* mapped: remove must not iounmap BAR0 before free_irq.
IrqAckMapped ==
  [][hpc = "ack" /\ hpc' = "idle" => "iomap" \in held]_vars

\* What the example does with its file reaches a live device: pciemu_mmap
\* reads a pciemu_dev that is not freed, the register writes through the
\* mapping reach BAR0 while the device is enabled and the driver owns the
\* region, and the ioctl finds the device state and BAR0 mapped.  remove
\* must not tear the device down under an open file or a user mapping.
UserOpsOnLiveDevice ==
  [][\A u \in Users :
       /\ fd[u] = "open" /\ fd'[u] # "open" => "alloc" \in held
       /\ fd[u] = "mapped" /\ fd'[u] = "written" =>
            {"enabled", "regions"} \subseteq held
       /\ fd[u] = "written" /\ fd'[u] = "ioctled" =>
            {"alloc", "iomap"} \subseteq held]_vars
=============================================================================
