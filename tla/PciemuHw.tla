------------------------------ MODULE PciemuHw ------------------------------
(***************************************************************************)
(* The hardware description shared by the QEMU device, the kernel driver   *)
(* and the userspace client: include/hw/pciemu_hw.h.  Register offsets     *)
(* keep their real values; the sizes of the DMA window, the address        *)
(* capability and the number of MSI vectors are CONSTANTS so that a model  *)
(* can scale them down (real values: 0x10000, 0x1000, 32 bits, 32).       *)
(***************************************************************************)
EXTENDS Naturals

CONSTANTS
  AreaStart,       \* PCIEMU_HW_DMA_AREA_START (0x10000)
  AreaSize,        \* PCIEMU_HW_DMA_AREA_SIZE (0x1000)
  AddrCapability,  \* PCIEMU_HW_DMA_ADDR_CAPABILITY (32 bits)
  MaxVectors       \* PCIEMU_IRQ_MAX_VECTORS (32), from irq.h

ASSUME AreaStart \in Nat /\ AreaSize \in Nat \ {0}
ASSUME AddrCapability \in Nat \ {0} /\ MaxVectors \in Nat \ {0}

\* BAR0 register map.
REG_0 == 0
REG_1 == 8
REG_2 == 16
REG_3 == 24
RegOffsets == <<REG_0, REG_1, REG_2, REG_3>>
REG_CNT == 4
IRQ_0_RAISE == 32
IRQ_0_LOWER == 40
DMA_CFG_TXDESC_SRC == 48
DMA_CFG_TXDESC_DST == 56
DMA_CFG_TXDESC_LEN == 64
DMA_CFG_CMD == 72
DMA_DOORBELL_RING == 80
BAR0_START == REG_0
BAR0_END == DMA_DOORBELL_RING

\* DMA commands.
DIRECTION_TO_DEVICE == 1
DIRECTION_FROM_DEVICE == 2

\* IRQ vectors handled by reset, and the DMA completion vector.
IRQ_VECTOR_START == 0
IRQ_VECTOR_END == 0
IRQ_DMA_ENDED_VECTOR == 0

\* DMA_BIT_MASK(n) of dma.h, for n < 64.
DMA_BIT_MASK(n) == 2^n - 1
=============================================================================
