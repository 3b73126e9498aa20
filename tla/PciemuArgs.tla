------------------------------ MODULE PciemuArgs ------------------------------
(***************************************************************************)
(* parse_args of the userspace example (pciemu_example.c:175-284): the      *)
(* getopt loop over "b:d:hr:s:v" and the checks after it.  The result       *)
(* names the device the example opens, /dev/pciemu/d%ub%ud%uf%u_bar0, and  *)
(* the number of registers it maps and writes.  Each strtol result is       *)
(* stored in a field of struct context of its own width (uint32_t domain,   *)
(* uint16_t bus, uint8_t registers and slot) before the range test reads    *)
(* it back, so the conversion is modelled by what C does: modulo 2^width.   *)
(* argv is a sequence of <<option, argument>> pairs as getopt returns them; *)
(* an argument is an integer of Values, or NaN for one strtol refuses (no   *)
(* digits, or ERANGE).                                                      *)
(***************************************************************************)
EXTENDS Integers, Sequences, FiniteSetsExt, PciemuHw

CONSTANTS
  Values,   \* integers an argument may spell
  NaN,      \* an argument strtol refuses
  MaxArgs   \* bound on the number of options on the command line

ASSUME Values \subseteq -(2^30)..(2^30) /\ MaxArgs \in Nat

\* The "First invalid number" macros of pciemu_example.c:39-46.
PCI_DOMAIN_NUMBER_INVALID == 2^16
PCI_BUS_NUMBER_INVALID == 2^8
PCI_DEVICE_NUMBER_INVALID == 2^5
PCI_FUNCTION_NUMBER_INVALID == 2^3

NumOpts == {"b", "d", "r", "s"}
\* "?" is what getopt returns for an unknown option or a missing argument.
Args == (NumOpts \X (Values \cup {NaN})) \cup ({"h", "v", "?"} \X {NaN})

\* The member of struct context each numeric option sets.
Field == [b |-> "bus", d |-> "domain", r |-> "regs", s |-> "device"]

\* Assigning a long to an unsigned field of w bits.
Narrow(x, w) == x % 2^w
\* uint32_t: TLC's integers stop at 2^31, so a negative long, which becomes
\* x + 2^32 >= 2^31, is represented by 2^30; either is out of range.
NarrowU32(x) == IF x >= 0 THEN x ELSE 2^30

VARIABLES
  argv,     \* the command line
  optind,   \* the next option getopt returns
  ctx,      \* struct context
  status    \* "parse", or how parse_args ended: "ok", "help", "exit"

vars == <<argv, optind, ctx, status>>

Init ==
  /\ argv \in UNION {[1..n -> Args] : n \in 0..MaxArgs}
  /\ optind = 1
  /\ ctx = [domain |-> 0, bus |-> PCI_BUS_NUMBER_INVALID,
            device |-> PCI_DEVICE_NUMBER_INVALID, func |-> 0,
            regs |-> REG_CNT, barLen |-> REG_CNT * 8, verbosity |-> 0]
  /\ status = "parse"

Opt == argv[optind][1]
Arg == argv[optind][2]

\* The loop takes option o.
GetOpt(o) == status = "parse" /\ optind <= Len(argv) /\ Opt = o

\* strtol failed: errno != 0 || optarg == endptr.
StrtolFails ==
  /\ \E o \in NumOpts : GetOpt(o)
  /\ Arg = NaN
  /\ status' = "exit"
  /\ UNCHANGED <<argv, optind, ctx>>

\* case 'b', 'd' and 's': store the narrowed value, then exit if it is out
\* of range.
SetNumber(o, value, limit) ==
  /\ GetOpt(o) /\ Arg # NaN
  /\ ctx' = [ctx EXCEPT ![Field[o]] = value]
  /\ IF value >= limit
       THEN status' = "exit" /\ UNCHANGED optind
       ELSE optind' = optind + 1 /\ UNCHANGED status
  /\ UNCHANGED argv

OptBus == SetNumber("b", Narrow(Arg, 16), PCI_BUS_NUMBER_INVALID)
OptDomain == SetNumber("d", NarrowU32(Arg), PCI_DOMAIN_NUMBER_INVALID)
OptSlot == SetNumber("s", Narrow(Arg, 8), PCI_DEVICE_NUMBER_INVALID)

\* case 'r': the count is range-checked as a uint8_t, then sets the length
\* of the BAR0 mapping.
OptRegs ==
  /\ GetOpt("r") /\ Arg # NaN
  /\ LET n == Narrow(Arg, 8) IN
       IF n < 1 \/ n > REG_CNT
         THEN /\ ctx' = [ctx EXCEPT !.regs = n]
              /\ status' = "exit" /\ UNCHANGED optind
         ELSE /\ ctx' = [ctx EXCEPT !.regs = n, !.barLen = n * 8]
              /\ optind' = optind + 1 /\ UNCHANGED status
  /\ UNCHANGED argv

\* case 'h' prints usage and exits with 0; the default case exits with -1.
OptHelp == GetOpt("h") /\ status' = "help" /\ UNCHANGED <<argv, optind, ctx>>
OptUnknown == GetOpt("?") /\ status' = "exit" /\ UNCHANGED <<argv, optind, ctx>>

OptVerbose ==
  /\ GetOpt("v")
  /\ ctx' = [ctx EXCEPT !.verbosity = 1]
  /\ optind' = optind + 1
  /\ UNCHANGED <<argv, status>>

\* getopt returns -1: the four "must be provided" checks.
CheckProvided ==
  /\ status = "parse" /\ optind > Len(argv)
  /\ status' = IF \/ ctx.device >= PCI_DEVICE_NUMBER_INVALID
                  \/ ctx.bus >= PCI_BUS_NUMBER_INVALID
                  \/ ctx.domain >= PCI_DOMAIN_NUMBER_INVALID
                  \/ ctx.func >= PCI_FUNCTION_NUMBER_INVALID
               THEN "exit" ELSE "ok"
  /\ UNCHANGED <<argv, optind, ctx>>

Next ==
  \/ StrtolFails \/ OptBus \/ OptDomain \/ OptSlot \/ OptRegs
  \/ OptHelp \/ OptUnknown \/ OptVerbose \/ CheckProvided

Spec == Init /\ [][Next]_vars

-----------------------------------------------------------------------------
\* The last argument given for option o, or NaN when o is not given.
LastGiven(o) ==
  LET at == {k \in 1..Len(argv) : argv[k][1] = o}
  IN IF at = {} THEN NaN ELSE argv[Max(at)][2]

\* When parse_args returns, the example uses what was typed: the bus,
\* domain, slot and register count it opens and maps are the last values
\* given for -b, -d, -s and -r, and an out-of-range value is refused
\* rather than narrowed into range by the uint16_t/uint8_t stores.
ArgsAsTyped ==
  status = "ok" =>
    \A o \in NumOpts : LastGiven(o) # NaN => ctx[Field[o]] = LastGiven(o)
=============================================================================
