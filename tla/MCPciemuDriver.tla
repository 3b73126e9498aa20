---------------------------- MODULE MCPciemuDriver ----------------------------
(***************************************************************************)
(* Model-checking instance of PciemuDriver.  The device is scaled as in    *)
(* MCPciemuDevice (window of 2 bytes at 4, 2-bit addresses).  One process  *)
(* keeps a at host address 1 and b at 0, so that a starts as 1 and b as   *)
(* 0 and a lost copy shows; two processes use addresses 0..3.             *)
(***************************************************************************)
EXTENDS PciemuDriver

MCVarA1 == [p \in Procs |-> 1]
MCVarB1 == [p \in Procs |-> 0]

\* Two processes, each with its own page of two ints.
MCVarA2 == [p \in Procs |-> IF p = CHOOSE q \in Procs : TRUE THEN 1 ELSE 3]
MCVarB2 == [p \in Procs |-> IF p = CHOOSE q \in Procs : TRUE THEN 0 ELSE 2]
=============================================================================
