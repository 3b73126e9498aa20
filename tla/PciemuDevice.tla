----------------------------- MODULE PciemuDevice -----------------------------
(***************************************************************************)
(* The pciemu QEMU device: the MMIO dispatcher (mmio.c), the DMA engine    *)
(* (dma.c), the interrupt block (irq.c) and the lifecycle hooks           *)
(* (pciemu.c), driven by guest vCPU threads that write BAR0.               *)
(*                                                                         *)
(* A register write is pciemu_mmio_write on the writing vCPU's thread.     *)
(* Where the handler reads shared state and acts on it later, the model    *)
(* splits it into steps at those reads: a configuration write reads the    *)
(* status, then stores; a doorbell ring does the compare-and-swap, checks  *)
(* the config, does the bus transfer, raises the interrupt, sets Idle.     *)
(* QEMU dispatches MMIO with the big QEMU lock held (the region does not   *)
(* opt out of global locking), so with Serialized the steps of one handler *)
(* run without another handler in between; without it, they interleave as  *)
(* the spec's "even if serialization is violated" case asks.               *)
(***************************************************************************)
EXTENDS PciemuDma, FiniteSets

CONSTANTS
  CPUs,             \* guest vCPU threads issuing MMIO writes
  None,             \* model value: nobody holds the lock
  Serialized,       \* MMIO dispatch holds the big QEMU lock
  Lifecycle,        \* QEMU may reset or unrealize the device in the run
  Offsets,          \* BAR0 offsets the guest writes
  WriteValues(_)    \* values written at an offset

ASSUME Serialized \in BOOLEAN /\ Lifecycle \in BOOLEAN
ASSUME None \notin CPUs

VARIABLES
  reg,      \* dev->reg[0..3]
  alive,    \* "realized" until pciemu_device_fini, then "finalized"
  owner,    \* holder of the big QEMU lock, or None
  pc,       \* where each vCPU is in pciemu_mmio_write
  req,      \* a config write in progress: field and value
  seen,     \* the status a config write read
  dir       \* the direction pciemu_dma_execute chose

vars == <<irqVars, dmaVars, reg, alive, owner, pc, req, seen, dir>>
threadVars == <<pc, req, seen, dir>>

ExecPcs == {"exec_check", "exec_io", "exec_raise", "set_idle"}
Pcs == {"idle", "cfg_store"} \cup ExecPcs
NoReq == [field |-> "none", val |-> 0]
ConfigFields == [f \in {DMA_CFG_TXDESC_SRC, DMA_CFG_TXDESC_DST,
                        DMA_CFG_TXDESC_LEN, DMA_CFG_CMD} |->
                   CASE f = DMA_CFG_TXDESC_SRC -> "src"
                     [] f = DMA_CFG_TXDESC_DST -> "dst"
                     [] f = DMA_CFG_TXDESC_LEN -> "len"
                     [] OTHER -> "cmd"]
RegIndex(off) == CHOOSE i \in 0 .. REG_CNT - 1 : RegOffsets[i + 1] = off
DispatchedOffsets ==
  {RegOffsets[i] : i \in 1 .. REG_CNT} \cup DOMAIN ConfigFields
    \cup {IRQ_0_RAISE, IRQ_0_LOWER, DMA_DOORBELL_RING}

\* pciemu_mmio_valid_access: offset inside [BAR0_START, BAR0_END].
ValidAccess(off) == BAR0_START <= off /\ off <= BAR0_END

(***************************************************************************)
(* Lock discipline of the dispatcher.                                      *)
(***************************************************************************)
CanEnter == ~Serialized \/ owner = None
Enter(t) == owner' = IF Serialized THEN t ELSE owner
Leave == owner' = IF Serialized THEN None ELSE owner

\* A write reaches pciemu_mmio_write only while the device is realized:
\* unrealize removes the BAR0 region under the big lock.
Reachable == alive = "realized"

Return(t) ==
  /\ pc' = [pc EXCEPT ![t] = "idle"]
  /\ req' = [req EXCEPT ![t] = NoReq]
  /\ seen' = [seen EXCEPT ![t] = Idle]
  /\ dir' = [dir EXCEPT ![t] = NoDirection]

Start(t) == pc[t] = "idle" /\ Reachable /\ CanEnter

(***************************************************************************)
(* pciemu_mmio_write, one action per arm of its switch.                    *)
(***************************************************************************)
WriteReg(t, off, val) ==
  /\ Start(t)
  /\ off \in {RegOffsets[i] : i \in 1 .. REG_CNT}
  /\ reg' = [reg EXCEPT ![RegIndex(off)] = val]
  /\ UNCHANGED <<irqVars, dmaVars, alive, owner, threadVars>>

WriteIrqRaise(t) ==
  /\ Start(t)
  /\ IrqRaise(0)
  /\ UNCHANGED <<dmaVars, reg, alive, owner, threadVars>>

WriteIrqLower(t) ==
  /\ Start(t)
  /\ IrqLower(0)
  /\ UNCHANGED <<dmaVars, reg, alive, owner, threadVars>>

\* The config setters: qatomic_read of the status, then the store.
WriteConfig(t, off, val) ==
  /\ Start(t)
  /\ off \in DOMAIN ConfigFields
  /\ Enter(t)
  /\ seen' = [seen EXCEPT ![t] = status]
  /\ req' = [req EXCEPT ![t] = [field |-> ConfigFields[off], val |-> val]]
  /\ pc' = [pc EXCEPT ![t] = "cfg_store"]
  /\ UNCHANGED <<irqVars, dmaVars, reg, alive, dir>>

CfgStore(t) ==
  /\ pc[t] = "cfg_store"
  /\ ConfigStore(seen[t], req[t].field, req[t].val)
  /\ Leave
  /\ Return(t)
  /\ UNCHANGED <<irqVars, status, buff, host, overrun, reg, alive>>

\* Mutant: the ring does not return when a transfer is already running.
WriteDoorbellNoEarlyReturn(t) ==
  /\ Start(t)
  /\ status' = IF status = Idle THEN Executing ELSE status
  /\ Enter(t)
  /\ pc' = [pc EXCEPT ![t] = "exec_check"]
  /\ UNCHANGED <<req, seen, dir>>
  /\ UNCHANGED <<irqVars, cfg, buff, host, overrun, reg, alive>>

\* pciemu_dma_doorbell_ring: qatomic_cmpxchg(Idle -> Executing); only a
\* prior Executing makes it return.
WriteDoorbell(t) ==
  /\ Start(t)
  /\ status' = IF status = Idle THEN Executing ELSE status
  /\ IF status = Executing
     THEN UNCHANGED <<owner, threadVars>>
     ELSE /\ Enter(t)
          /\ pc' = [pc EXCEPT ![t] = "exec_check"]
          /\ UNCHANGED <<req, seen, dir>>
  /\ UNCHANGED <<irqVars, cfg, buff, host, overrun, reg, alive>>

\* Offsets outside the window, and offsets in it that no case matches.
WriteNoOp(t, off) ==
  /\ Start(t)
  /\ ~ValidAccess(off) \/ off \notin DispatchedOffsets
  /\ UNCHANGED vars

(***************************************************************************)
(* pciemu_dma_execute, then the status reset of pciemu_dma_doorbell_ring.  *)
(***************************************************************************)
\* The cmd test and the bounds check of the device-side address.
ExecCheck(t) ==
  /\ pc[t] = "exec_check"
  /\ dir' = [dir EXCEPT ![t] = ExecDirection(cfg)]
  /\ pc' = [pc EXCEPT ![t] =
              IF ExecDirection(cfg) = NoDirection THEN "set_idle" ELSE "exec_io"]
  /\ UNCHANGED <<irqVars, dmaVars, reg, alive, owner, req, seen>>

\* Mutant: the bus address goes out without pciemu_dma_addr_mask.
ExecIoNoMask(t) ==
  /\ pc[t] = "exec_io"
  /\ LET off == cfg.dst - AreaStart IN
       IF dir[t] = DIRECTION_TO_DEVICE
       THEN /\ buff' = [j \in BufIdx |->
                          IF j - off \in 0 .. cfg.len - 1
                          THEN HostByte(cfg.src + j - off) ELSE buff[j]]
            /\ overrun' = (overrun \/ OutsideBuffer(off, cfg.len))
            /\ UNCHANGED host
       ELSE Transfer(dir[t], cfg)
  /\ pc' = [pc EXCEPT ![t] = "exec_raise"]
  /\ UNCHANGED <<irqVars, status, cfg, reg, alive, owner, req, seen, dir>>

\* The mask, the offset and the bus transfer, re-reading the config.
ExecIo(t) ==
  /\ pc[t] = "exec_io"
  /\ Transfer(dir[t], cfg)
  /\ pc' = [pc EXCEPT ![t] = "exec_raise"]
  /\ UNCHANGED <<irqVars, status, cfg, reg, alive, owner, req, seen, dir>>

ExecRaise(t) ==
  /\ pc[t] = "exec_raise"
  /\ IrqRaise(IRQ_DMA_ENDED_VECTOR)
  /\ pc' = [pc EXCEPT ![t] = "set_idle"]
  /\ UNCHANGED <<dmaVars, reg, alive, owner, req, seen, dir>>

\* Mutant: the qatomic_set back to Idle is missing.
SetIdleKeepStatus(t) ==
  /\ pc[t] = "set_idle"
  /\ Leave
  /\ Return(t)
  /\ UNCHANGED <<irqVars, dmaVars, reg, alive>>

SetIdle(t) ==
  /\ pc[t] = "set_idle"
  /\ status' = Idle
  /\ Leave
  /\ Return(t)
  /\ UNCHANGED <<irqVars, cfg, buff, host, overrun, reg, alive>>

(***************************************************************************)
(* Lifecycle, from the QEMU main loop with the big lock held.              *)
(***************************************************************************)
\* pciemu_device_reset: irq, dma, then mmio (registers) reset.
Reset ==
  /\ Lifecycle /\ alive = "realized" /\ owner = None
  /\ IrqReset
  /\ DmaReset
  /\ reg' = [i \in 0 .. REG_CNT - 1 |-> 0]
  /\ UNCHANGED <<alive, owner, threadVars>>

\* pciemu_device_fini.
Fini ==
  /\ Lifecycle /\ alive = "realized" /\ owner = None
  /\ IrqFini
  /\ DmaFini
  /\ reg' = [i \in 0 .. REG_CNT - 1 |-> 0]
  /\ alive' = "finalized"
  /\ UNCHANGED <<owner, threadVars>>

\* pciemu_device_init: irq, dma and mmio init on a zero-filled object.
Init ==
  /\ IrqInit
  /\ DmaInit
  /\ reg = [i \in 0 .. REG_CNT - 1 |-> 0]
  /\ alive = "realized"
  /\ owner = None
  /\ pc = [t \in CPUs |-> "idle"]
  /\ req = [t \in CPUs |-> NoReq]
  /\ seen = [t \in CPUs |-> Idle]
  /\ dir = [t \in CPUs |-> NoDirection]

Continue(t) ==
  CfgStore(t) \/ ExecCheck(t) \/ ExecIo(t) \/ ExecRaise(t) \/ SetIdle(t)

Next ==
  \/ \E t \in CPUs, off \in Offsets :
       \/ \E val \in WriteValues(off) : WriteReg(t, off, val)
       \/ \E val \in WriteValues(off) : WriteConfig(t, off, val)
       \/ off = IRQ_0_RAISE /\ WriteIrqRaise(t)
       \/ off = IRQ_0_LOWER /\ WriteIrqLower(t)
       \/ off = DMA_DOORBELL_RING /\ WriteDoorbell(t)
       \/ WriteNoOp(t, off)
  \/ \E t \in CPUs : Continue(t)
  \/ Reset
  \/ Fini

\* A vCPU inside a handler keeps running it; callers need not write again.
Fairness == \A t \in CPUs : WF_vars(Continue(t))

Spec == Init /\ [][Next]_vars /\ Fairness

-----------------------------------------------------------------------------
TypeOK ==
  /\ IrqTypeOK
  /\ DmaTypeOK
  /\ reg \in [0 .. REG_CNT - 1 -> Nat]
  /\ alive \in {"realized", "finalized"}
  /\ owner \in CPUs \cup {None}
  /\ pc \in [CPUs -> Pcs]
  /\ seen \in [CPUs -> {Idle, Executing, Off}]
  /\ dir \in [CPUs -> {DIRECTION_TO_DEVICE, DIRECTION_FROM_DEVICE, NoDirection}]

\* The compare-and-swap of pciemu_dma_doorbell_ring lets at most one vCPU
\* run pciemu_dma_execute at a time, even when doorbell writes of several
\* vCPUs interleave without the big QEMU lock.
AtMostOneInFlight ==
  Cardinality({t \in CPUs : pc[t] \in ExecPcs}) <= 1

\* Whatever a transfer does (bad cmd, failed bounds check, bus error), the
\* engine does not stay DMA_STATUS_EXECUTING: pciemu_dma_doorbell_ring sets
\* it back to Idle, so later config writes and doorbells are not dropped.
StatusEventuallyIdle == status = Executing ~> status # Executing

\* No transfer reads or writes device memory outside dma->buff
\* (pciemu_dma_inside_device_boundaries checks only the start address).
NoBufferOverrun == ~overrun
=============================================================================
