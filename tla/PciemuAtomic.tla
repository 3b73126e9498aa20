----------------------------- MODULE PciemuAtomic -----------------------------
(***************************************************************************)
(* The device as its register contract promises it: every BAR0 write is    *)
(* one indivisible step.  A doorbell ring on an idle engine runs the whole *)
(* transfer and raises the completion interrupt at once; a ring on an      *)
(* engine that is off does nothing (Off is terminal); a configuration      *)
(* write lands only on an idle engine.  PciemuDevice, whose handlers take  *)
(* several steps, is checked to implement this module.                     *)
(***************************************************************************)
EXTENDS PciemuDma

CONSTANT Values   \* the values a BAR0 write can carry

VARIABLES
  reg,     \* dev->reg[0..3]
  alive    \* "realized" or "finalized"

atomicVars == <<irqVars, dmaVars, reg, alive>>

Regs == [i \in 0 .. REG_CNT - 1 |-> 0]

\* pciemu_dma_execute as one step: the transfer of the direction the
\* config selects, then the completion interrupt; nothing for NoDirection.
Execute ==
  LET d == ExecDirection(cfg) IN
  IF d = NoDirection
  THEN UNCHANGED <<irqVars, buff, host, overrun>>
  ELSE Transfer(d, cfg) /\ IrqRaise(IRQ_DMA_ENDED_VECTOR)

AWriteReg(i, val) ==
  /\ reg' = [reg EXCEPT ![i] = val]
  /\ UNCHANGED <<irqVars, dmaVars, alive>>

AWriteIrq(raise) ==
  /\ IF raise THEN IrqRaise(0) ELSE IrqLower(0)
  /\ UNCHANGED <<dmaVars, reg, alive>>

AWriteConfig(field, val) ==
  /\ ConfigStore(status, field, val)
  /\ UNCHANGED <<irqVars, status, buff, host, overrun, reg, alive>>

ADoorbell ==
  /\ status = Idle
  /\ Execute
  /\ UNCHANGED <<status, cfg, reg, alive>>

AReset ==
  /\ alive = "realized"
  /\ IrqReset /\ DmaReset
  /\ reg' = Regs
  /\ UNCHANGED alive

AFini ==
  /\ alive = "realized"
  /\ IrqFini /\ DmaFini
  /\ reg' = Regs
  /\ alive' = "finalized"

AInit ==
  /\ IrqInit /\ DmaInit
  /\ reg = Regs
  /\ alive = "realized"

ANext ==
  \/ \E i \in 0 .. REG_CNT - 1, val \in Values : AWriteReg(i, val)
  \/ \E raise \in BOOLEAN : AWriteIrq(raise)
  \/ \E field \in {"src", "dst", "len", "cmd"}, val \in Values :
       AWriteConfig(field, val)
  \/ ADoorbell
  \/ AReset
  \/ AFini

ASpec == AInit /\ [][ANext]_atomicVars
=============================================================================
