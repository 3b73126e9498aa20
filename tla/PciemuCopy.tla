------------------------------ MODULE PciemuCopy ------------------------------
(***************************************************************************)
(* What the userspace example relies on from the driver and the device     *)
(* (pciemu_example.c:140-145): "value of 'a' is DMA'ed into device memory; *)
(* 'b' is the destination of the value DMA'ed from the device memory;     *)
(* thus, at the end, b == a".  The two ioctls of ioctl_pciemu together     *)
(* are one copy of a into b, after which the process compares them, and    *)
(* every process gets there.                                               *)
(***************************************************************************)
CONSTANTS
  Procs,        \* processes running the example
  Addrs,        \* user memory
  Data,         \* what a byte of it may hold
  VarA, VarB    \* [Procs -> Addrs]: &a and &b

VARIABLES
  mem,          \* user memory
  stage,        \* "copy", "check" or "done"
  result        \* the outcome of the a != b test

cvars == <<mem, stage, result>>

Init ==
  /\ mem \in [Addrs -> Data]
  /\ stage = [p \in Procs |-> "copy"]
  /\ result = [p \in Procs |-> "none"]

\* Both ioctls of ioctl_pciemu: b takes the value of a.
Copy(p) ==
  /\ stage[p] = "copy"
  /\ mem' = [mem EXCEPT ![VarB[p]] = mem[VarA[p]]]
  /\ stage' = [stage EXCEPT ![p] = "check"]
  /\ UNCHANGED result

\* The a != b test at the end of ioctl_pciemu.
Check(p) ==
  /\ stage[p] = "check"
  /\ result' = [result EXCEPT ![p] =
                  IF mem[VarA[p]] = mem[VarB[p]] THEN "ok" ELSE "mismatch"]
  /\ stage' = [stage EXCEPT ![p] = "done"]
  /\ UNCHANGED mem

Next == \E p \in Procs : Copy(p) \/ Check(p)

Spec == Init /\ [][Next]_cvars /\ \A p \in Procs : WF_cvars(Copy(p) \/ Check(p))
=============================================================================
