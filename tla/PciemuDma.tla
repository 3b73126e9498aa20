------------------------------ MODULE PciemuDma ------------------------------
(***************************************************************************)
(* The DMA engine of the QEMU device, src/src/hw/pciemu/dma.c: its         *)
(* registers, status, internal buffer, and the effect of a transfer on the *)
(* buffer and on bus memory.  The steps of a doorbell ring, which a caller *)
(* thread takes one after the other, are in PciemuDevice; here are the     *)
(* pieces they are built from.                                             *)
(*                                                                         *)
(* Bus memory is the guest RAM reachable by pci_dma_read/pci_dma_write:    *)
(* addresses 0 .. HostSize-1; anything above is unassigned.  A byte read   *)
(* from unassigned bus memory, or from device memory past dma->buff, is    *)
(* the symbolic value Garbage.                                             *)
(***************************************************************************)
EXTENDS PciemuIrq, Integers, Bitwise

CONSTANTS
  HostSize,   \* bytes of bus memory backed by RAM
  Garbage     \* model value: a byte whose content the code does not define

ASSUME HostSize \in Nat \ {0}

VARIABLES
  status,     \* dev->dma.status
  cfg,        \* dev->dma.config.{txdesc.src, txdesc.dst, txdesc.len, cmd}
  buff,       \* dev->dma.buff
  host,       \* bus memory
  overrun     \* history: a transfer touched memory outside dma->buff

dmaVars == <<status, cfg, buff, host, overrun>>

Idle == "DMA_STATUS_IDLE"
Executing == "DMA_STATUS_EXECUTING"
Off == "DMA_STATUS_OFF"

BufIdx == 0 .. AreaSize - 1
HostAddrs == 0 .. HostSize - 1
Bytes == HostAddrs \cup {0, Garbage}

\* dev->dma.config.mask, set once by pciemu_dma_init.
Mask == DMA_BIT_MASK(AddrCapability)

\* pciemu_dma_addr_mask (the log line on a change is left out).
AddrMask(addr) == addr & Mask

\* pciemu_dma_inside_device_boundaries: note the inclusive upper bound.
InsideDeviceBoundaries(addr) ==
  AreaStart <= addr /\ addr <= AreaStart + AreaSize

\* The direction pciemu_dma_execute takes for config c after its checks:
\* NoDirection for an unknown cmd or an out-of-bounds device address.
NoDirection == 0

ExecDirection(c) ==
  CASE c.cmd = DIRECTION_TO_DEVICE /\ InsideDeviceBoundaries(c.dst)
         -> DIRECTION_TO_DEVICE
    [] c.cmd = DIRECTION_FROM_DEVICE /\ InsideDeviceBoundaries(c.src)
         -> DIRECTION_FROM_DEVICE
    [] OTHER -> NoDirection

HostByte(a) == IF a \in HostAddrs THEN host[a] ELSE Garbage
BufByte(j) == IF j \in BufIdx THEN buff[j] ELSE Garbage

\* Bytes off .. off+len-1 of dma->buff are not all inside the buffer.  The
\* offset is dst - AREA_START (src - AREA_START), unsigned in the code, so
\* an address below AREA_START wraps to a huge offset: negative here.
OutsideBuffer(off, len) == len > 0 /\ (off < 0 \/ off + len > AreaSize)

\* pci_dma_read(src, dma->buff + off, len) and
\* pci_dma_write(dst, dma->buff + off, len): the bytes copied by the
\* transfer of direction dir with the config c as read at that moment.
\* Writes to unassigned bus memory are dropped.
Transfer(dir, c) ==
  IF dir = DIRECTION_TO_DEVICE
  THEN LET src == AddrMask(c.src)
           off == c.dst - AreaStart
       IN /\ buff' = [j \in BufIdx |->
                        IF j - off \in 0 .. c.len - 1
                        THEN HostByte(src + j - off) ELSE buff[j]]
          /\ overrun' = (overrun \/ OutsideBuffer(off, c.len))
          /\ UNCHANGED host
  ELSE LET off == c.src - AreaStart
           dst == AddrMask(c.dst)
       IN /\ host' = [a \in HostAddrs |->
                        IF a - dst \in 0 .. c.len - 1
                        THEN BufByte(off + a - dst) ELSE host[a]]
          /\ overrun' = (overrun \/ OutsideBuffer(off, c.len))
          /\ UNCHANGED buff

\* pciemu_dma_config_txdesc_{src,dst,len} and pciemu_dma_config_cmd, the
\* store once the status read returned seen.
ConfigStore(seen, field, val) ==
  cfg' = IF seen = Idle THEN [cfg EXCEPT ![field] = val] ELSE cfg

ZeroConfig == [src |-> 0, dst |-> 0, len |-> 0, cmd |-> 0]
ZeroBuff == [j \in BufIdx |-> 0]

\* pciemu_dma_reset: a hard reset that does not wait for a transfer.
DmaReset ==
  /\ status' = Idle
  /\ cfg' = ZeroConfig
  /\ buff' = ZeroBuff
  /\ UNCHANGED <<host, overrun>>

\* pciemu_dma_fini: reset, then DMA_STATUS_OFF.
DmaFini ==
  /\ status' = Off
  /\ cfg' = ZeroConfig
  /\ buff' = ZeroBuff
  /\ UNCHANGED <<host, overrun>>

\* pciemu_dma_init: reset (the mask is the constant Mask).  Bus memory
\* holds distinct bytes so that a copy from a wrong address shows.
DmaInit ==
  /\ status = Idle
  /\ cfg = ZeroConfig
  /\ buff = ZeroBuff
  /\ host = [a \in HostAddrs |-> a]
  /\ overrun = FALSE

DmaTypeOK ==
  /\ status \in {Idle, Executing, Off}
  /\ cfg \in [src : Nat, dst : Nat, len : Nat, cmd : Nat]
  /\ buff \in [BufIdx -> Bytes]
  /\ host \in [HostAddrs -> Bytes]
  /\ overrun \in BOOLEAN
=============================================================================
