\* -b 65537 and -r 260 narrow into range in parse_args.
CONSTANTS
  AreaStart = 4
  AreaSize = 2
  AddrCapability = 2
  MaxVectors = 2
  NaN = NaN
  Values = {1, 4, 260, 65537}
  MaxArgs = 2
SPECIFICATION Spec
\* parse_args returns or exits: the program stops.
CHECK_DEADLOCK FALSE
INVARIANT ArgsAsTyped
