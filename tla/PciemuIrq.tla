------------------------------ MODULE PciemuIrq ------------------------------
(***************************************************************************)
(* The interrupt block of the QEMU device, src/src/hw/pciemu/irq.c.        *)
(*                                                                         *)
(* IRQStatus is a union of a pin flag and MSI vector flags; the union      *)
(* members do not overlap in memory (pin.raised aliases the dev pointer    *)
(* of msi_vectors[0], not its raised flag), so they are two variables      *)
(* here.  msi_enabled() selects the path on every call; the model fixes it *)
(* at realize, when msi_init() either succeeds or not.                     *)
(*                                                                         *)
(* Each operation is given as the state it produces, so that a thread step *)
(* of the device and a refinement mapping can both use it.                 *)
(***************************************************************************)
EXTENDS PciemuHw

VARIABLES
  msiEnabled,   \* msi_enabled(&dev->pci_dev)
  pinRaised,    \* dev->irq.status.pin.raised (and the INTx level)
  msiRaised     \* dev->irq.status.msi.msi_vectors[v].raised

irqVars == <<msiEnabled, pinRaised, msiRaised>>

Vectors == 0 .. MaxVectors - 1

\* pciemu_irq_raise: pin path ignores the vector; MSI path drops vectors
\* >= PCIEMU_IRQ_MAX_VECTORS, else sets the flag (and calls msi_notify).
PinAfterRaise == IF msiEnabled THEN pinRaised ELSE TRUE
MsiAfterRaise(v) ==
  IF msiEnabled /\ v < MaxVectors
  THEN [msiRaised EXCEPT ![v] = TRUE]
  ELSE msiRaised

IrqRaise(v) ==
  /\ pinRaised' = PinAfterRaise
  /\ msiRaised' = MsiAfterRaise(v)
  /\ UNCHANGED msiEnabled

\* pciemu_irq_lower: pin path deasserts; MSI path drops out-of-range
\* vectors and returns early when the vector is not raised.
PinAfterLower == IF msiEnabled THEN pinRaised ELSE FALSE
MsiAfterLower(v) ==
  IF msiEnabled /\ v < MaxVectors /\ msiRaised[v]
  THEN [msiRaised EXCEPT ![v] = FALSE]
  ELSE msiRaised

IrqLower(v) ==
  /\ pinRaised' = PinAfterLower
  /\ msiRaised' = MsiAfterLower(v)
  /\ UNCHANGED msiEnabled

\* pciemu_irq_reset: lower every vector in
\* PCIEMU_HW_IRQ_VECTOR_START .. PCIEMU_HW_IRQ_VECTOR_END.
MsiAfterReset ==
  [v \in Vectors |->
     IF msiEnabled /\ v \in IRQ_VECTOR_START .. IRQ_VECTOR_END
     THEN FALSE ELSE msiRaised[v]]

IrqReset ==
  /\ pinRaised' = PinAfterLower
  /\ msiRaised' = MsiAfterReset
  /\ UNCHANGED msiEnabled

\* pciemu_irq_init: INTx pin configured, then msi_init() may succeed or
\* fail; the device object starts zero-filled.
IrqInit ==
  /\ msiEnabled \in BOOLEAN
  /\ pinRaised = FALSE
  /\ msiRaised = [v \in Vectors |-> FALSE]

\* pciemu_irq_fini: reset, then msi_uninit() so that msi_enabled() is false.
IrqFini ==
  /\ pinRaised' = PinAfterLower
  /\ msiRaised' = MsiAfterReset
  /\ msiEnabled' = FALSE

IrqTypeOK ==
  /\ msiEnabled \in BOOLEAN
  /\ pinRaised \in BOOLEAN
  /\ msiRaised \in [Vectors -> BOOLEAN]
=============================================================================
