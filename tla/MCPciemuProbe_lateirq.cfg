CONSTANTS
  Users = {u1}
  Bar0Missing = FALSE
SPECIFICATION Spec
PROPERTY IrqAckMapped
\* After module exit, and after the user has closed its file, nothing
\* more happens: the system stops there.
CHECK_DEADLOCK FALSE
