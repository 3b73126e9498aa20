---------------------------- MODULE MCPciemuDevice ----------------------------
(***************************************************************************)
(* Model-checking instance of PciemuDevice.  The DMA window is scaled to   *)
(* 2 bytes at 4, the address capability to 2 bits, bus RAM to 2 bytes.    *)
(* Each config register is written with one in-range and one out-of-range  *)
(* value for either direction, so every branch of pciemu_dma_execute is    *)
(* taken: src 1 is below the window, 5 is inside it (and masks to 1 as a   *)
(* bus address); dst 4 is the window start (masks to bus address 0), 6 is *)
(* its end, which the inclusive bounds check accepts, 7 is past it.       *)
(***************************************************************************)
EXTENDS PciemuDevice

MCWriteValues(off) ==
  CASE off = DMA_CFG_TXDESC_SRC -> {1, 5}
    [] off = DMA_CFG_TXDESC_DST -> {4, 6, 7}
    [] off = DMA_CFG_TXDESC_LEN -> {1, 2}
    [] off = DMA_CFG_CMD -> {0, DIRECTION_TO_DEVICE, DIRECTION_FROM_DEVICE}
    [] OTHER -> {1}

\* For the overrun run: dst only at the window start, so the bounds check's
\* inclusive end (dst 6) is not what runs past dma->buff; src 5 lies
\* strictly inside the window and len 2 takes the copy past its end.
MCOverrunWriteValues(off) ==
  CASE off = DMA_CFG_TXDESC_SRC -> {1, 5}
    [] off = DMA_CFG_TXDESC_DST -> {4}
    [] off = DMA_CFG_TXDESC_LEN -> {1, 2}
    [] off = DMA_CFG_CMD -> {DIRECTION_TO_DEVICE, DIRECTION_FROM_DEVICE}
    [] OTHER -> {1}

\* For the runs without the big QEMU lock: one transfer direction's worth
\* of values, with src either inside the window (5) or below it (1).
MCRaceWriteValues(off) ==
  CASE off = DMA_CFG_TXDESC_SRC -> {1, 5}
    [] off = DMA_CFG_TXDESC_DST -> {4}
    [] off = DMA_CFG_TXDESC_LEN -> {1}
    [] off = DMA_CFG_CMD -> {DIRECTION_TO_DEVICE, DIRECTION_FROM_DEVICE}
    [] OTHER -> {1}

\* The atomic device, seen through the steps of PciemuDevice: an engine
\* that is executing is idle to the contract, and once a transfer has
\* moved its bytes its completion interrupt counts as raised.
Raising == \E t \in CPUs : pc[t] = "exec_raise"
Atomic == INSTANCE PciemuAtomic WITH
  Values <- UNION {WriteValues(off) : off \in Offsets},
  status <- IF status = Executing THEN Idle ELSE status,
  pinRaised <- IF Raising THEN PinAfterRaise ELSE pinRaised,
  msiRaised <- IF Raising THEN MsiAfterRaise(IRQ_DMA_ENDED_VECTOR)
               ELSE msiRaised

\* Every run of the device's multi-step handlers is a run of the atomic
\* device: no register write is seen half done (doorbell, config writes).
DeviceImplementsAtomic == Atomic!ASpec
=============================================================================
